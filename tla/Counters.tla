------------------------------ MODULE Counters ------------------------------
(***************************************************************************)
(* The counters of the analytics package: the counter a record makes, the  *)
(* dimensions it adds to, and how the counters of a slice are merged into  *)
(* those a backend has already.  Pure operators.                           *)
(*                                                                         *)
(* One latency stands for the request time and for the two latencies of a  *)
(* record, which are treated alike; one number of bytes for its traffic.   *)
(***************************************************************************)
EXTENDS Integers, SequencesExt, FiniteSetsExt

CONSTANTS
  NoValue,       \* an empty string
  Trimmed,       \* Trimmed[tag]: the tag without spaces and dots
  IgnoredTags,   \* tags with a prefix of the list, or with that of keys
  TrackAllPaths  \* track_all_paths

ASSUME CountersAssumption ==
  /\ IgnoredTags \subseteq DOMAIN Trimmed
  /\ TrackAllPaths \in BOOLEAN

(* A record: kind is "rest", "graph", "mcp" or "uptime"; code its response  *)
(* code, -1 for the traffic of connections; attr its version, key, OAuth    *)
(* client and country, as dimensions; extra what a graph or MCP record adds *)
(* to: types, fields, operation, root fields, or method, primitive, name.   *)
ExtraNames == {"types", "fields", "operation", "rootfields", "methods", "primitives", "names"}

IsRecord(r) ==
  /\ r.kind \in {"rest", "graph", "mcp", "uptime"}
  /\ r.code \in {-1} \cup 100 .. 599
  /\ r.latency \in Nat /\ r.bytes \in Nat
  /\ r.tags \in Seq(DOMAIN Trimmed)
  /\ {r.tracked, r.graphErrors} \subseteq BOOLEAN
  /\ \A d \in r.extra : d[1] \in ExtraNames
  /\ r.extra # {} => r.kind \in {"graph", "mcp"}

IsHit(r)     == r.code # -1
IsError(r)   == r.code >= 400
IsSuccess(r) == r.code \in 200 .. 299

-----------------------------------------------------------------------------
(* Counters.  codes is the error map, as a bag; made says that it is not    *)
(* nil; mean is an average, as a pair of total and number: <<0, 0>> is not  *)
(* a number.                                                                *)
IsCounter(c) ==
  /\ {c.hits, c.errors, c.max, c.sum, c.bytes, c.mean[1], c.mean[2]} \subseteq Nat
  /\ {c.success, c.min} \subseteq Int
  /\ \A n \in DOMAIN c.codes : c.codes[n] \in Nat \ {0}
  /\ c.made \in BOOLEAN

NoMean == <<0, 1>>

Zero ==
  [hits |-> 0, success |-> 0, errors |-> 0, codes |-> EmptyBag, made |-> FALSE, max |-> 0,
   min |-> 0, sum |-> 0, bytes |-> 0, mean |-> NoMean]

Flag(b) == IF b THEN 1 ELSE 0

(* The report of an uptime check has no latencies, and counts successes in  *)
(* its error map, too.                                                      *)
InErrorMap(r) == IsError(r) \/ (r.kind = "uptime" /\ IsSuccess(r))

Bound(r) == IF r.kind = "uptime" THEN 0 ELSE r.latency

CounterOf(r) ==
  IF ~IsHit(r) THEN [Zero EXCEPT !.bytes = IF r.kind = "uptime" THEN 0 ELSE r.bytes]
  ELSE [Zero EXCEPT !.hits = 1, !.success = Flag(IsSuccess(r)), !.errors = Flag(IsError(r)),
                    !.codes = IF InErrorMap(r) THEN SetToBag({r.code}) ELSE EmptyBag,
                    !.made = TRUE, !.max = Bound(r), !.min = Bound(r), !.sum = r.latency,
                    !.mean = <<r.latency, 1>>]

(* Errors in the answer to a graph query make it an error, whatever its     *)
(* code; the error map is left alone.                                       *)
GraphCounterOf(r) ==
  LET own == CounterOf(r)
  IN IF r.kind = "graph" /\ r.graphErrors /\ own.errors < 1
     THEN [own EXCEPT !.errors = @ + 1, !.success = @ - 1] ELSE own

MaxOf(a, b) == IF a < b THEN b ELSE a
MinOf(a, b) == IF a > b THEN b ELSE a

(* Don't update min latency in case of errors.                              *)
LowersMin(base, c) == c.min > base.min /\ base.errors = 0

(* Mistake: the average is over what was there before.                      *)
SumUpLate(base, c) ==
  [c EXCEPT !.hits = @ + base.hits, !.success = @ + base.success, !.errors = @ + base.errors,
            !.codes = @ (+) base.codes, !.sum = @ + base.sum,
            !.mean = <<c.sum + base.sum, c.hits>>, !.max = MaxOf(@, base.max),
            !.min = IF LowersMin(base, c) THEN base.min ELSE @]

SumUp(base, c) ==
  [c EXCEPT !.hits = @ + base.hits, !.success = @ + base.success, !.errors = @ + base.errors,
            !.codes = @ (+) base.codes, !.sum = @ + base.sum,
            !.mean = <<c.sum + base.sum, c.hits + base.hits>>, !.max = MaxOf(@, base.max),
            !.min = IF LowersMin(base, c) THEN base.min ELSE @]

(* agg maps dimensions to counters, and those in D are incremented; a new   *)
(* one is a copy with a map.                                                *)
incrementOrSetUnit(agg, D, base) ==
  [d \in DOMAIN agg \cup D |->
     IF d \notin D THEN agg[d]
     ELSE IF d \in DOMAIN agg THEN SumUp(base, agg[d]) ELSE [base EXCEPT !.made = TRUE]]

-----------------------------------------------------------------------------
(* Dimensions: pairs of a name and a value.                                 *)

Total == <<"", "total">>

Attr(r, name) == {a \in r.attr : a[1] = name}
Tracks(r)     == r.tracked \/ (TrackAllPaths /\ r.kind = "rest")

(* Two tags of a record may be the same when trimmed.                       *)
TagsKept(r)        == {i \in DOMAIN r.tags : r.tags[i] \notin IgnoredTags /\ Trimmed[r.tags[i]] # NoValue}
TagDimension(r, i) == <<"tags", Trimmed[r.tags[i]]>>

PathDimensions(r) ==
  {<<"endpoints", r.path>>, <<"apiendpoints", <<r.api, Attr(r, "versions"), r.path>>>>}
  \cup {<<"keyendpoints", <<a[2], r.api, r.path>>>> : a \in Attr(r, "apikeys")}
  \cup {<<"oauthendpoints", <<a[2], r.api, r.path>>>> : a \in Attr(r, "oauthids")}

ApiDimension(r) == <<IF r.kind = "uptime" THEN "url" ELSE "apiid", r.api>>

Dimensions(r) ==
  (IF r.api = NoValue THEN {} ELSE {ApiDimension(r)})
  \cup (IF IsError(r) THEN {<<"errors", r.code>>} ELSE {})
  \cup {<<"versions", <<r.api, a[2]>>>> : a \in Attr(r, "versions")}
  \cup (UNION {Attr(r, name) : name \in {"apikeys", "oauthids", "geo"}})
  \cup (IF Tracks(r) THEN PathDimensions(r) ELSE {})

-----------------------------------------------------------------------------
(* One record is added to the counters of its owner.                        *)

(* The total is not made by incrementOrSetUnit: its minimum is set by the   *)
(* first hit and then lowered by successes only.                            *)
AddToTotal(t, r) ==
  LET own == CounterOf(r)
  IN [SumUp(own, t) EXCEPT !.min = IF t.hits = 0 THEN own.min
                                   ELSE IF t.min > own.min /\ IsSuccess(r) THEN own.min ELSE t.min]

(* A record without a hit only adds its traffic, and may make the counter   *)
(* of its API, without an error map.                                        *)
AddTraffic(agg, r) ==
  LET own == CounterOf(r)
      api == IF r.api = NoValue THEN {} ELSE {ApiDimension(r)}
      old == [d \in DOMAIN agg \cup api |-> IF d \in DOMAIN agg THEN agg[d] ELSE Zero]
  IN [d \in DOMAIN agg \cup api |->
        IF d \in api \cup {Total} THEN [old[d] EXCEPT !.bytes = @ + own.bytes] ELSE old[d]]

NewAggregate == [d \in {Total} |-> [Zero EXCEPT !.made = TRUE]]

(* Adding a code to a nil error map ends the process.                       *)
Panics(agg, r) ==
  /\ InErrorMap(r) /\ ApiDimension(r) \in DOMAIN agg
  /\ ~agg[ApiDimension(r)].made

(* A hit: the total, the dimensions, then tag by tag.                       *)
AddHit(agg, r) ==
  LET own == CounterOf(r)
      added[n \in 0 .. Len(r.tags)] ==
        IF n = 0 THEN incrementOrSetUnit([agg EXCEPT ![Total] = AddToTotal(@, r)], Dimensions(r), own)
        ELSE incrementOrSetUnit(added[n - 1], {TagDimension(r, i) : i \in TagsKept(r) \cap {n}}, own)
  IN added[Len(r.tags)]

incrementAggregate(agg, r) == IF IsHit(r) THEN AddHit(agg, r) ELSE AddTraffic(agg, r)

(* Graph and MCP records add to their own dimensions besides.               *)
AddRecord(agg, r) == incrementOrSetUnit(incrementAggregate(agg, r), r.extra, GraphCounterOf(r))

-----------------------------------------------------------------------------
(* Counters of a slice are merged into those of a backend.                  *)

(* A SQL row that exists already: the smaller minimum is kept, be it that   *)
(* of errors or of a counter without hits.                                  *)
OnConflictAssignments(row, new) ==
  [row EXCEPT !.hits = @ + new.hits, !.success = @ + new.success, !.errors = @ + new.errors,
              !.codes = @ (+) new.codes, !.sum = @ + new.sum, !.bytes = @ + new.bytes,
              !.mean = <<row.sum + new.sum, row.hits + new.hits>>,
              !.max = MaxOf(@, new.max), !.min = MinOf(@, new.min)]

(* Of uptime data the average is not updated: whether it should be is asked *)
(* of a field of an empty counter.                                          *)
OnConflictUptimeAssignments(row, new) ==
  [row EXCEPT !.hits = @ + new.hits, !.success = @ + new.success, !.errors = @ + new.errors,
              !.codes = @ (+) new.codes, !.sum = @ + new.sum]

(* Mistake: the new hits are not added.                                     *)
DividesByOld(row, new) == row.hits = 0

DividesByZero(row, new) == row.hits + new.hits = 0

(* A MongoDB document: bytes are set and not added, the minimum is written  *)
(* unless all hits were errors.  A minimum that is not there is -1.         *)
Absent == -1

generateBSONFromProperty(row, new) ==
  [row EXCEPT !.hits = @ + new.hits, !.success = @ + new.success, !.errors = @ + new.errors,
              !.codes = @ (+) new.codes, !.sum = @ + new.sum, !.bytes = new.bytes,
              !.max = MaxOf(@, new.max),
              !.min = IF new.hits = new.errors THEN @
                      ELSE IF @ = Absent THEN new.min ELSE MinOf(@, new.min)]

NoProperty == [Zero EXCEPT !.min = Absent]

(* Averages are computed from the document as the first update left it.     *)
AsTimeUpdate(row, seen) ==
  [row EXCEPT !.mean = IF seen.hits > 0 THEN <<seen.sum, seen.hits>> ELSE NoMean]

=============================================================================
