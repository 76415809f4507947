---------------------------- MODULE Aggregation ----------------------------
(***************************************************************************)
(* The pumps that count records: a slice is aggregated into the counters   *)
(* of each organisation (or of each API, for graph and MCP records), and   *)
(* these are merged into the database, row by row in SQL, by two updates   *)
(* of a document in MongoDB.  Also the uptime data of the SQL pump.        *)
(*                                                                         *)
(* All records fall into one period and one table: MongoAggregate and      *)
(* SqlWrite say how documents and tables are chosen.                       *)
(***************************************************************************)
EXTENDS Counters

CONSTANTS
  Record,           \* records, see IsRecord
  Foreign,          \* bound: those that pumps are told and that are of another kind
  Lengths,          \* bound: Lengths[c] is the longest slice of call c
  BatchSize,        \* rows of one statement
  Ignored,          \* ignore_aggregations: names of dimensions
  MaxFaults         \* bound: statements that fail, answers that are lost

ASSUME AggregationAssumption ==
  /\ \A r \in Record : IsRecord(r)
  /\ Foreign \subseteq {r \in Record : r.kind # "uptime"}
  /\ Lengths \in Seq(Nat)
  /\ BatchSize \in Nat \ {0}
  /\ MaxFaults \in Nat

(* kind is what the pump counts, db where, error whether a failed statement *)
(* ends the call.                                                           *)
Profile ==
  [mongo     |-> [kind |-> "rest",   db |-> "mongo", error |-> "returned"],
   mongoMcp  |-> [kind |-> "mcp",    db |-> "mongo", error |-> "returned"],
   sql       |-> [kind |-> "rest",   db |-> "sql",   error |-> "returned"],
   sqlGraph  |-> [kind |-> "graph",  db |-> "sql",   error |-> "returned"],
   sqlMcp    |-> [kind |-> "mcp",    db |-> "sql",   error |-> "returned"],
   sqlUptime |-> [kind |-> "uptime", db |-> "sql",   error |-> "logged"]]

Call == DOMAIN Lengths

VARIABLES
  pump,    \* which pump
  timed,   \* whether it has a timeout
  slice,   \* slice[c]: the records of call c
  call,    \* call[c]: where call c is, see Idle
  rows,    \* the database: a function from owner and dimension to counters
  applied, \* history: applied[k] is the sequence of calls merged into row k
  over,    \* the calls whose context is over
  main,    \* what the purge loop does
  next,    \* the call it waits for
  died,    \* the process ended in WriteData
  faults   \* bounded by MaxFaults

loop == <<over, main, next>>
vars == <<pump, timed, slice, call, rows, applied, loop, died, faults>>

(* aggs maps an owner to its counters, left are the rows still to be        *)
(* written, owner the one whose rows are, seen the document that came back. *)
Idle == [at |-> "none", pos |-> 0, aggs |-> <<>>, left |-> {}, owner |-> NoValue, seen |-> <<>>]

Init ==
  /\ pump \in DOMAIN Profile
  /\ timed \in IF pump = "sqlUptime" THEN {FALSE} ELSE BOOLEAN
  /\ slice = [c \in Call |-> <<>>]
  /\ call = [c \in Call |-> Idle]
  /\ rows = <<>>
  /\ applied = <<>>
  /\ over = {}
  /\ main = "idle"
  /\ next = 0
  /\ died = FALSE
  /\ faults = 0

P == Profile[pump]

At(c, where)   == call[c].at = where
Goes(c, where) == call' = [call EXCEPT ![c].at = where]
Ends(c, how)   == call' = [call EXCEPT ![c] = [Idle EXCEPT !.at = how]]
Fault          == faults < MaxFaults /\ faults' = faults + 1

-----------------------------------------------------------------------------
(* The purge loop.                                                          *)

(* Uptime data comes in lists of its own.                                   *)
Told == {r \in Record : r.kind = P.kind} \cup (IF P.kind = "uptime" THEN {} ELSE Foreign)

StartWrite ==
  /\ main = "idle" /\ next < Len(Lengths)
  /\ next' = next + 1
  /\ main' = "writing"
  /\ \E s \in BoundedSeq(Told, Lengths[next']) : slice' = [slice EXCEPT ![next'] = s]
  /\ Goes(next', "aggregate")
  /\ UNCHANGED <<pump, timed, rows, applied, over, died, faults>>

Returned(c) == call[c].at \in {"nil", "error"}

WriteDone ==
  /\ main = "writing" /\ Returned(next)
  /\ main' = "idle"
  /\ UNCHANGED <<pump, timed, slice, call, rows, applied, over, next, died, faults>>

Deadline ==
  /\ timed /\ main = "writing"
  /\ over' = over \cup {next}
  /\ main' = "idle"
  /\ UNCHANGED <<pump, timed, slice, call, rows, applied, next, died, faults>>

-----------------------------------------------------------------------------
(* Aggregation: one record after the other.                                 *)

(* Whose counters a record adds to.                                         *)
Owner(r) == IF P.kind \in {"graph", "mcp"} THEN r.api ELSE r.org

(* Records of another kind are left to other pumps, records without an      *)
(* organisation, as an uptime value that does not decode, to nobody.        *)
Takes(r) == r.kind = P.kind /\ (P.kind \in {"rest", "uptime"} => r.org # NoValue)

NextRecord(c) == slice[c][call[c].pos + 1]
Aggregates(c) == At(c, "aggregate") /\ call[c].pos < Len(slice[c])

AggsOf(c, r) == IF Owner(r) \in DOMAIN call[c].aggs THEN call[c].aggs[Owner(r)] ELSE NewAggregate

Counting(c, r) ==
  [o \in DOMAIN call[c].aggs \cup {Owner(r)} |->
     IF o = Owner(r) THEN AddRecord(AggsOf(c, r), r) ELSE call[c].aggs[o]]

Aggregate(c) ==
  /\ Aggregates(c)
  /\ LET r == NextRecord(c)
     IN call' = [call EXCEPT ![c].pos = @ + 1,
                             ![c].aggs = IF Takes(r) THEN Counting(c, r) ELSE @]
     /\ (Takes(r) => ~Panics(AggsOf(c, r), r))
  /\ UNCHANGED <<pump, timed, slice, rows, applied, loop, died, faults>>

Panic(c) ==
  /\ Aggregates(c)
  /\ LET r == NextRecord(c) IN Takes(r) /\ Panics(AggsOf(c, r), r)
  /\ died' = TRUE
  /\ UNCHANGED <<pump, timed, slice, call, rows, applied, loop, faults>>

(* Mistake: the total is discarded, too.                                    *)
DiscardAggregationsToo(d) == pump = "mongo" /\ (d[1] \in Ignored \/ d = Total)

DiscardAggregations(d) == pump = "mongo" /\ d[1] \in Ignored

RowsOf(c) ==
  UNION {{<<o, d>> : d \in {k \in DOMAIN call[c].aggs[o] : ~DiscardAggregations(k)}}
         : o \in DOMAIN call[c].aggs}

AggregationEnds(c) ==
  /\ At(c, "aggregate") /\ call[c].pos = Len(slice[c])
  /\ call' = [call EXCEPT ![c].at = "write", ![c].left = RowsOf(c)]
  /\ UNCHANGED <<pump, timed, slice, rows, applied, loop, died, faults>>

-----------------------------------------------------------------------------
(* Writing: owner by owner, in any order.                                   *)

New(c, k) == call[c].aggs[k[1]][k[2]]

Exists(k) == k \in DOMAIN rows

(* Rows come dimension by dimension, the total last.                        *)
Names == <<"apiid", "url", "errors", "versions", "apikeys", "oauthids", "geo", "tags", "endpoints",
           "keyendpoints", "oauthendpoints", "apiendpoints", "", "types", "fields", "operation",
           "rootfields", "methods", "primitives", "names">>

Rank(k) == CHOOSE i \in DOMAIN Names : Names[i] = k[2][1]

(* Mistake: the last row of a batch is in the next one, too.                *)
RestOverlapping(c, B) ==
  IF Cardinality(B) < BatchSize \/ BatchSize = 1 THEN call[c].left \ B
  ELSE (call[c].left \ B) \cup {CHOOSE k \in B : \A j \in B : Rank(j) <= Rank(k)}

(* What is left after the rows B.                                           *)
Rest(c, B) == call[c].left \ B

(* The owner whose rows are being written, or a next one.                   *)
Owners(c) ==
  LET all == {k[1] : k \in call[c].left}
  IN IF call[c].owner \in all THEN {call[c].owner} ELSE all

Batches(c, o) ==
  LET mine == {k \in call[c].left : k[1] = o}
  IN {B \in kSubset(MinOf(BatchSize, Cardinality(mine)), mine) :
        \A k \in B, j \in mine \ B : Rank(k) <= Rank(j)}

(* A document is updated: what MCP records add to keeps its bytes.          *)
Document(c, k) ==
  LET row == IF Exists(k) THEN rows[k] ELSE NoProperty
      new == generateBSONFromProperty(row, New(c, k))
  IN IF k[2][1] \in {"methods", "primitives", "names"} THEN [new EXCEPT !.bytes = row.bytes]
     ELSE [new EXCEPT !.made = TRUE]

Merged(c, k) ==
  CASE P.db = "mongo"                                    -> Document(c, k)
    [] P.db = "sql" /\ ~Exists(k)                        -> New(c, k)
    [] P.db = "sql" /\ Exists(k) /\ pump = "sqlUptime"   -> OnConflictUptimeAssignments(rows[k], New(c, k))
    [] P.db = "sql" /\ Exists(k) /\ pump # "sqlUptime"   -> OnConflictAssignments(rows[k], New(c, k))

Merges(c, B) ==
  /\ rows' = [k \in DOMAIN rows \cup B |-> IF k \in B THEN Merged(c, k) ELSE rows[k]]
  /\ applied' = [k \in DOMAIN applied \cup B |->
                   IF k \notin B THEN applied[k] ELSE Append(IF Exists(k) THEN applied[k] ELSE <<>>, c)]

(* A statement that divides by zero is refused as a whole.                  *)
Refused(c, B) ==
  /\ P.db = "sql" /\ pump # "sqlUptime"
  /\ \E k \in B : Exists(k) /\ DividesByZero(rows[k], New(c, k))

NextBatch(c, o, B) == call' = [call EXCEPT ![c].left = Rest(c, B), ![c].owner = o]

AfterError(c, o, B) == IF P.error = "returned" THEN Ends(c, "error") ELSE NextBatch(c, o, B)

(* One statement of a SQL pump.                                             *)
InsertBatch(c) ==
  /\ At(c, "write") /\ P.db = "sql" /\ c \notin over
  /\ \E o \in Owners(c) : \E B \in Batches(c, o) :
       ~Refused(c, B) /\ Merges(c, B) /\ NextBatch(c, o, B)
  /\ UNCHANGED <<pump, timed, slice, loop, died, faults>>

(* It is refused, it fails, its answer is lost, or its context is over.     *)
InsertFails(c) ==
  /\ At(c, "write") /\ P.db = "sql"
  /\ \E o \in Owners(c) : \E B \in Batches(c, o) :
       /\ \/ UNCHANGED <<rows, applied>>
          \/ ~Refused(c, B) /\ Merges(c, B)
       /\ IF c \in over \/ Refused(c, B) THEN UNCHANGED faults ELSE Fault
       /\ AfterError(c, o, B)
  /\ UNCHANGED <<pump, timed, slice, loop, died>>

-----------------------------------------------------------------------------
(* The two updates of a MongoDB document.                                   *)

Upsert(c) ==
  /\ At(c, "write") /\ P.db = "mongo" /\ c \notin over
  /\ \E o \in Owners(c) :
       LET B == {k \in call[c].left : k[1] = o}
       IN /\ Merges(c, B)
          /\ call' = [call EXCEPT ![c].left = @ \ B, ![c].owner = o, ![c].at = "average",
                                  ![c].seen = [k \in {j \in DOMAIN rows' : j[1] = o} |-> rows'[k]]]
  /\ UNCHANGED <<pump, timed, slice, loop, died, faults>>

UpsertFails(c) ==
  /\ At(c, "write") /\ P.db = "mongo"
  /\ \E o \in Owners(c) :
       \/ UNCHANGED <<rows, applied>>
       \/ Merges(c, {k \in call[c].left : k[1] = o})
  /\ IF c \in over THEN UNCHANGED faults ELSE Fault
  /\ Ends(c, "error")
  /\ UNCHANGED <<pump, timed, slice, loop, died>>

SetsAverages(c) ==
  rows' = [k \in DOMAIN rows |->
             IF k \in DOMAIN call[c].seen THEN AsTimeUpdate(rows[k], call[c].seen[k]) ELSE rows[k]]

AvgUpdate(c) ==
  /\ At(c, "average") /\ c \notin over
  /\ SetsAverages(c)
  /\ call' = [call EXCEPT ![c].at = "write", ![c].seen = <<>>]
  /\ UNCHANGED <<pump, timed, slice, applied, loop, died, faults>>

AvgUpdateFails(c) ==
  /\ At(c, "average")
  /\ UNCHANGED rows \/ SetsAverages(c)
  /\ IF c \in over THEN UNCHANGED faults ELSE Fault
  /\ Ends(c, "error")
  /\ UNCHANGED <<pump, timed, slice, applied, loop, died>>

Return(c) ==
  /\ At(c, "write") /\ call[c].left = {}
  /\ Ends(c, "nil")
  /\ UNCHANGED <<pump, timed, slice, rows, applied, loop, died, faults>>

WriteDataStep(c) ==
  \/ Aggregate(c) \/ Panic(c) \/ AggregationEnds(c) \/ InsertBatch(c) \/ InsertFails(c)
  \/ Upsert(c) \/ UpsertFails(c) \/ AvgUpdate(c) \/ AvgUpdateFails(c) \/ Return(c)

Next ==
  /\ ~died
  /\ \/ \E c \in Call : WriteDataStep(c)
     \/ StartWrite \/ WriteDone \/ Deadline

Spec == Init /\ [][Next]_vars

-----------------------------------------------------------------------------
(* What the counters should be, from the records alone.                     *)

TypeOK ==
  /\ pump \in DOMAIN Profile
  /\ timed \in BOOLEAN
  /\ \A c \in Call :
       /\ slice[c] \in Seq(Record)
       /\ call[c].at \in {"none", "aggregate", "write", "average", "nil", "error"}
       /\ call[c].pos \in 0 .. Len(slice[c])
       /\ call[c].left \subseteq RowsOf(c)
  /\ \A k \in DOMAIN rows : IsCounter(rows[k])
  /\ DOMAIN applied = DOMAIN rows
  /\ over \subseteq 1 .. next
  /\ main \in {"idle", "writing"}
  /\ next \in Call \cup {0}
  /\ died \in BOOLEAN
  /\ faults \in 0 .. MaxFaults

(* The sum of the first N of a sequence of numbers.                         *)
SumTo(s, N) ==
  LET sum[n \in 0 .. N] == IF n = 0 THEN 0 ELSE sum[n - 1] + s[n]
  IN sum[N]

(* The dimensions of a record, and how often it counts in each.             *)
Times ==
  [r \in Record |->
     [d \in {Total} \cup r.extra \cup Dimensions(r) \cup {TagDimension(r, i) : i \in TagsKept(r)} |->
        IF d = Total \/ d \in r.extra THEN 1
        ELSE Flag(d \in Dimensions(r)) + Cardinality({i \in TagsKept(r) : TagDimension(r, i) = d})]]

(* How often record r counts in row k.                                      *)
Weight(r, k) ==
  IF Takes(r) /\ Owner(r) = k[1] /\ k[2] \in DOMAIN Times[r] THEN Times[r][k[2]] ELSE 0

(* A graph error counts as one in the dimensions of graph records only.     *)
GraphError(r, k) == k[2] \in r.extra /\ r.kind = "graph" /\ r.graphErrors /\ ~IsError(r)

(* What a counter counts: hits, successes, errors, latency, bytes, and the  *)
(* errors of each code.                                                     *)
Bytes == <<"bytes", 0>>
Field == {<<name, 0>> : name \in {"hits", "success", "errors", "sum", "bytes"}}
         \cup {<<"codes", r.code>> : r \in Record}

CodeCount(codes, n) == IF n \in DOMAIN codes THEN codes[n] ELSE 0

Part(counter, f) ==
  CASE f[1] = "hits"    -> counter.hits
    [] f[1] = "success" -> counter.success
    [] f[1] = "errors"  -> counter.errors
    [] f[1] = "sum"     -> counter.sum
    [] f[1] = "bytes"   -> counter.bytes
    [] f[1] = "codes"   -> CodeCount(counter.codes, f[2])

(* What record r adds to row k each time it counts.                         *)
Unit(r, k, f) ==
  CASE f[1] = "hits"    -> Flag(IsHit(r))
    [] f[1] = "success" -> Flag(IsSuccess(r)) - Flag(GraphError(r, k))
    [] f[1] = "errors"  -> Flag(IsError(r) \/ GraphError(r, k))
    [] f[1] = "sum"     -> IF IsHit(r) THEN r.latency ELSE 0
    [] f[1] = "bytes"   -> IF IsHit(r) \/ r.kind = "uptime" THEN 0 ELSE r.bytes
    [] f[1] = "codes"   -> Flag(InErrorMap(r) /\ r.code = f[2])

(* Bytes are counted for all and for each API only.                         *)
Counts(k, f) == f = Bytes => k[2] = Total \/ k[2][1] = "apiid"

OfRecord(r, k, f) == Weight(r, k) * Unit(r, k, f)
OfSlice(c, k, f)  == SumTo([n \in DOMAIN slice[c] |-> OfRecord(slice[c][n], k, f)], Len(slice[c]))
OfCalls(s, k, f)  == SumTo([i \in DOMAIN s |-> OfSlice(s[i], k, f)], Len(s))

Hits == <<"hits", 0>>
Sum  == <<"sum", 0>>

(* Whatever way the records are cut into slices and statements, and         *)
(* whatever fails: a row has counted each of its calls once, and says what  *)
(* the records of these calls add up to.  The bytes of a document are those *)
(* of its last call.                                                        *)
CountsAddUp ==
  /\ TypeOK
  /\ \A k \in DOMAIN rows :
       /\ IsInjective(applied[k])
       /\ \A f \in Field : Counts(k, f) =>
            Part(rows[k], f) = IF f = Bytes /\ P.db = "mongo" THEN OfSlice(Last(applied[k]), k, f)
                               ELSE OfCalls(applied[k], k, f)

(* A nil result means that the slice is counted in every row it has         *)
(* something for; of uptime data, if no statement failed.                   *)
HonestResult ==
  \A c \in Call : At(c, "nil") /\ (pump = "sqlUptime" => faults = 0) =>
    \A n \in DOMAIN slice[c] :
      LET r == slice[c][n]
          o == Owner(r)
          ds == IF IsHit(r) THEN DOMAIN Times[r] ELSE {Total} \cup r.extra
      IN Takes(r) =>
           \A d \in ds : (pump = "mongo" /\ d[1] \in Ignored) \/
             (<<o, d>> \in DOMAIN rows /\ c \in ToSet(applied[<<o, d>>]))

-----------------------------------------------------------------------------
HitsOf(s, k) ==
  UNION {{slice[c][n] : n \in {m \in DOMAIN slice[c] : OfRecord(slice[c][m], k, Hits) > 0}} : c \in ToSet(s)}

(* The hits that should lower a minimum: for a total, the successes.        *)
Clean(r, k) == IF k[2] = Total THEN IsSuccess(r) ELSE Unit(r, k, <<"errors", 0>>) = 0

(* A call whose counter for row k has a minimum of 0 because of a record    *)
(* without a hit.                                                           *)
Hitless(c, k) ==
  \E n \in DOMAIN slice[c] :
    /\ Weight(slice[c][n], k) > 0 /\ ~IsHit(slice[c][n])
    /\ k[2] = Total => OfSlice(c, k, Hits) = 0

(* The first hit of call c for row k.                                       *)
FirstHit(c, k) == slice[c][Min({n \in DOMAIN slice[c] : OfRecord(slice[c][n], k, Hits) > 0})]

(* The maximum of a row is that of its hits.  The minimum is no more than   *)
(* that of the hits without errors.  It is the latency of one of them, or   *)
(* of the first hit of a slice whatever it was, unless a record without a   *)
(* hit left a zero, or MongoDB has seen no hit without an error.            *)
BoundsOf(s, k) ==
  LET hits  == HitsOf(s, k)
      clean == {r.latency : r \in {h \in hits : Clean(h, k)}}
  IN /\ rows[k].max = Max({r.latency : r \in hits} \cup {0})
     /\ clean # {} => rows[k].min \in 0 .. Min(clean)
     /\ \/ rows[k].min \in clean
        \/ \E c \in ToSet(s) : OfSlice(c, k, Hits) > 0 /\ rows[k].min = FirstHit(c, k).latency
        \/ rows[k].min = 0 /\ \E c \in ToSet(s) : Hitless(c, k)
        \/ P.db = "mongo" /\ rows[k].min = Absent

Mean(s, k) ==
  IF OfCalls(s, k, Hits) = 0 THEN {NoMean, <<0, 0>>}
  ELSE {<<OfCalls(s, k, Sum), OfCalls(s, k, Hits)>>}

(* The bounds and the average of a row are those of the hits it counts: no  *)
(* slice pulls them away from what earlier slices left.  In MongoDB an      *)
(* average may be of an earlier state, but only if a second update failed   *)
(* or overlapped with another call.  Uptime data has no bounds, and keeps   *)
(* the average of the first call.                                           *)
LatenciesFollow ==
  \A k \in DOMAIN rows :
    LET s == applied[k]
    IN /\ pump = "sqlUptime" \/ BoundsOf(s, k)
       /\ pump = "sqlUptime" => rows[k].mean \in Mean(<<s[1]>>, k)
       /\ P.db = "sql" /\ pump # "sqlUptime" => rows[k].mean \in Mean(s, k)
       /\ P.db = "mongo" =>
            \/ rows[k].mean \in Mean(s, k)
            \/ /\ \E m \in 0 .. Len(s) : rows[k].mean \in Mean(SubSeq(s, 1, m), k)
               /\ timed \/ faults > 0 \/ \E c \in Call : At(c, "average")

-----------------------------------------------------------------------------
(* Row k was made, in call c, by a record without a hit.                    *)
StartsHitless(c, r) ==
  LET mine == {n \in DOMAIN slice[c] :
                 Takes(slice[c][n]) /\ Owner(slice[c][n]) = Owner(r) /\ slice[c][n].api = r.api}
  IN ~IsHit(slice[c][Min(mine)])

(* The process ends only if the first record of an API has no hit and a     *)
(* later one an error.  A call fails for nothing but a failed statement,    *)
(* the end of its time, or a SQL row that a call without hits has made and  *)
(* that gets no hits again.                                                 *)
FailsOnlyFor ==
  /\ died => \E c \in Call : Aggregates(c) /\ InErrorMap(NextRecord(c)) /\ StartsHitless(c, NextRecord(c))
  /\ \A c \in Call : At(c, "error") /\ c \notin over /\ faults = 0 =>
       /\ P.db = "sql"
       /\ \E k \in DOMAIN rows :
            /\ OfSlice(applied[k][1], k, Hits) = 0 /\ OfSlice(c, k, Hits) = 0
            /\ \E n \in DOMAIN slice[c] : Weight(slice[c][n], k) > 0

=============================================================================
