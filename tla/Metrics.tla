------------------------------ MODULE Metrics ------------------------------
(***************************************************************************)
(* The metrics of the Prometheus pump (pumps/prometheus.go).  WriteData    *)
(* counts the records of a slice in maps, whose keys are label values      *)
(* joined to one string, and hands the maps over to the Prometheus client  *)
(* at its end.  A write whose time is over leaves its counts in the maps;  *)
(* the next one hands them over.  Histograms that do not aggregate their   *)
(* observations bypass the maps.                                           *)
(*                                                                         *)
(* A label value is a sequence of atoms, for what may occur inside it; a   *)
(* key of an API is its head and its last four characters.                 *)
(***************************************************************************)
EXTENDS Integers, Sequences, SequencesExt, FiniteSetsExt, Functions

CONSTANTS
  Settings,      \* choices [disabled, custom] of disabled_metrics and custom_metrics,
                 \* a sequence of [name, type, labels, mcpOnly, obfuscate]
  Traffic,       \* records [mcp, tracked, total, upstream, gateway, value], value a function of labels
  ScrapeLengths, \* bound: ScrapeLengths[w] is the longest slice of write w
  Atom           \* what label values are made of, other than "--"

ASSUME MetricsAssumption ==
  /\ \A s \in Settings : s.custom \in Seq([name : STRING, type : STRING, labels : Seq(STRING),
                                          mcpOnly : BOOLEAN, obfuscate : BOOLEAN])
  /\ \A r \in Traffic : \A v \in DOMAIN r.value : r.value[v] \in Seq(Atom \cup {"--"})
  /\ ScrapeLengths \in Seq(Nat)

VARIABLES
  allMetrics,    \* the metrics of the pump; what New has made, before Init
  aggregated,    \* aggregate_observations
  trackAllPaths, \* track_all_paths
  slow,          \* whether the pump has a timeout
  held,          \* held[m]: counterMap or histogramMap of metric m
  shown,         \* shown[m]: what the client got: [values, amount]
  write,         \* write[w]: where write w is, and its records
  stage,         \* what the pump does: "new", "idle", "writing", "dead"
  current,       \* the write the purge loop waits for
  counted,       \* history: the records counted so far, each with its epoch
  epoch,         \* history: how often everything held was handed over
  entangled      \* history: a write began before an earlier one had ended

metricVars == <<allMetrics, aggregated, trackAllPaths, slow, held, shown, write,
                stage, current, counted, epoch, entangled>>

counterType   == "counter"
histogramType == "histogram"
tykLatency    == "tyk_latency"

Basic(name, type, labels) ==
  [name |-> name, type |-> type, labels |-> labels, mcpOnly |-> FALSE, obfuscate |-> FALSE]

CreateBasicMetrics ==
  << Basic("tyk_http_status", counterType, <<"code", "api">>),
     Basic("tyk_http_status_per_path", counterType, <<"code", "api", "path", "method">>),
     Basic("tyk_http_status_per_key", counterType, <<"code", "key">>),
     Basic("tyk_http_status_per_oauth_client", counterType, <<"code", "client_id">>),
     Basic(tykLatency, histogramType, <<"type", "api">>) >>

MetricsInit ==
  /\ allMetrics = CreateBasicMetrics
  /\ aggregated \in BOOLEAN
  /\ trackAllPaths \in BOOLEAN
  /\ slow \in BOOLEAN
  /\ held = <<>>
  /\ shown = <<>>
  /\ write = [w \in DOMAIN ScrapeLengths |-> [at |-> "none", data |-> <<>>, n |-> 1]]
  /\ stage = "new"
  /\ current = 0
  /\ counted = <<>>
  /\ epoch = 0
  /\ entangled = FALSE

-----------------------------------------------------------------------------
(* Init of the pump.                                                        *)

\* A histogram has the label type, once and in front.
ensureLabels(m) ==
  IF m.type # histogramType THEN m
  ELSE [m EXCEPT !.labels = <<"type">> \o SelectSeq(@, LAMBDA l : l # "type")]

\* A metric of another type is logged and left out.
InitVecs(ms) ==
  LET valid == SelectSeq(ms, LAMBDA m : m.type \in {counterType, histogramType})
  IN [i \in DOMAIN valid |-> ensureLabels(valid[i])]

\* MustRegister panics on a name that is registered already.
InitMetrics ==
  /\ stage = "new"
  /\ \E s \in Settings :
       allMetrics' = InitVecs(SelectSeq(allMetrics, LAMBDA m : m.name \notin s.disabled) \o s.custom)
  /\ stage' = IF IsInjective([i \in DOMAIN allMetrics' |-> allMetrics'[i].name]) THEN "idle" ELSE "dead"
  /\ held' = [i \in DOMAIN allMetrics' |-> <<>>]
  /\ shown' = [i \in DOMAIN allMetrics' |-> <<>>]
  /\ UNCHANGED <<aggregated, trackAllPaths, slow, write, current, counted, epoch, entangled>>

-----------------------------------------------------------------------------
(* Label values.                                                            *)

JoinedBy(values) == FoldLeftDomain(LAMBDA acc, i : IF i = 1 THEN values[1] ELSE acc \o <<"--">> \o values[i],
                                   <<>>, values)

obfuscateAPIKey(m, v) ==
  IF ~m.obfuscate THEN v ELSE IF Len(v) > 1 THEN <<"****", Last(v)>> ELSE <<"--">>

ValueOf(m, r, label) ==
  CASE label = "key" -> obfuscateAPIKey(m, r.value[label])
    [] label = "path" /\ ~(trackAllPaths \/ r.tracked) -> <<"unknown">>
    [] OTHER -> r.value[label]

\* A label it does not know has no value: neither has "type".
GetLabelsValues(m, r) ==
  LET known == SelectSeq(m.labels, LAMBDA l : l \in DOMAIN r.value)
  IN [i \in DOMAIN known |-> ValueOf(m, r, known[i])]

LatencyTypes == {<<"total">>, <<"upstream">>, <<"gateway">>}

\* Observe takes a first value that reads like a type of latency for one.
Typed(values) == IF values # <<>> /\ values[1] \in LatencyTypes THEN values ELSE <<<<"total">>>> \o values

\* What processMetric counts of a record, in order: [values, time].
Observations(m, r) ==
  LET values == GetLabelsValues(m, r)
  IN IF m.mcpOnly /\ ~r.mcp THEN <<>>
     ELSE IF m.type = counterType THEN <<[values |-> values, time |-> 0]>>
     ELSE IF m.name # tykLatency THEN <<[values |-> Typed(values), time |-> r.total]>>
     ELSE << [values |-> Typed(<<<<"total">>>> \o values), time |-> r.total],
             [values |-> Typed(<<<<"upstream">>>> \o values), time |-> r.upstream],
             [values |-> Typed(<<<<"gateway">>>> \o values), time |-> r.gateway] >>

\* Whether WithLabelValues accepts the values; it panics otherwise.
Fits(m, values) == Len(values) = Len(m.labels)

-----------------------------------------------------------------------------
(* WriteData of the pump.                                                   *)

Bypasses(m) == m.type = histogramType /\ ~aggregated

\* Inc and Observe: the values are those the key was first seen with.
Hold(map, o) ==
  LET key == JoinedBy(o.values)
  IN IF key \in DOMAIN map THEN [map EXCEPT ![key].hits = @ + 1, ![key].time = @ + o.time]
     ELSE [k \in DOMAIN map \cup {key} |->
             IF k = key THEN [values |-> o.values, hits |-> 1, time |-> o.time] ELSE map[k]]

StartScrape ==
  /\ stage = "idle" /\ current < Len(ScrapeLengths)
  /\ current' = current + 1
  /\ stage' = "writing"
  /\ \E data \in BoundedSeq(Traffic, ScrapeLengths[current']) :
       write' = [write EXCEPT ![current'] =
                   [at |-> IF data = <<>> THEN "expose" ELSE "record", data |-> data, n |-> 1]]
  /\ entangled' = (entangled \/ \E w \in 1 .. current : write[w].at \notin {"nil", "error"})
  /\ UNCHANGED <<allMetrics, aggregated, trackAllPaths, slow, held, shown, counted, epoch>>

ScrapeDone ==
  /\ stage = "writing" /\ write[current].at \in {"nil", "error"}
  /\ stage' = "idle"
  /\ UNCHANGED <<allMetrics, aggregated, trackAllPaths, slow, held, shown, write, current, counted, epoch, entangled>>

\* The write is left behind, its context over.
ScrapeDeadline ==
  /\ stage = "writing" /\ slow
  /\ stage' = "idle"
  /\ UNCHANGED <<allMetrics, aggregated, trackAllPaths, slow, held, shown, write, current, counted, epoch, entangled>>

LeftBehind(w) == w < current \/ stage = "idle"

ContextOver(w) ==
  /\ write[w].at = "record" /\ LeftBehind(w)
  /\ write' = [write EXCEPT ![w].at = "error"]
  /\ UNCHANGED <<allMetrics, aggregated, trackAllPaths, slow, held, shown, stage, current, counted, epoch, entangled>>

\* One record, through all metrics.  The context was looked at before.
ProcessRecord(w) ==
  /\ write[w].at = "record"
  /\ LET r == write[w].data[write[w].n]
         os == [i \in DOMAIN allMetrics |-> Observations(allMetrics[i], r)]
         bypassing(i) == Bypasses(allMetrics[i])
     IN IF \E i \in DOMAIN os : bypassing(i) /\ \E o \in ToSet(os[i]) : ~Fits(allMetrics[i], o.values)
        THEN stage' = "dead" /\ UNCHANGED <<held, shown, write, counted>>
        ELSE /\ held' = [i \in DOMAIN held |-> IF bypassing(i) THEN held[i]
                                               ELSE FoldLeft(Hold, held[i], os[i])]
             /\ shown' = [i \in DOMAIN shown |->
                  IF ~bypassing(i) THEN shown[i]
                  ELSE shown[i] \o [j \in DOMAIN os[i] |-> [values |-> os[i][j].values, amount |-> os[i][j].time]]]
             /\ counted' = Append(counted, [of |-> r, in |-> epoch])
             /\ write' = IF write[w].n < Len(write[w].data) THEN [write EXCEPT ![w].n = @ + 1]
                         ELSE [write EXCEPT ![w].at = "expose", ![w].n = 1]
             /\ UNCHANGED stage
  /\ UNCHANGED <<allMetrics, aggregated, trackAllPaths, slow, current, epoch, entangled>>

\* Add of a counter; Observe of an average, in whole milliseconds.
Amount(m, entry) == IF m.type = counterType THEN entry.hits ELSE entry.time \div entry.hits

Expose(w) ==
  /\ write[w].at = "expose" /\ write[w].n <= Len(allMetrics)
  /\ LET i == write[w].n
         m == allMetrics[i]
         entries == SetToSeq(Range(held[i]))
     IN IF \E x \in Range(held[i]) : ~Fits(m, x.values)
        THEN stage' = "dead" /\ UNCHANGED <<shown, write>>
        ELSE /\ shown' = [shown EXCEPT ![i] = @ \o
                  [j \in DOMAIN entries |-> [values |-> entries[j].values, amount |-> Amount(m, entries[j])]]]
             /\ write' = [write EXCEPT ![w].at = "reset"]
             /\ UNCHANGED stage
  /\ UNCHANGED <<allMetrics, aggregated, trackAllPaths, slow, held, current, counted, epoch, entangled>>

\* As ResetMap, of a pump that keeps the maps.
ResetMapNot(w) ==
  /\ write[w].at = "reset"
  /\ write' = [write EXCEPT ![w].at = "expose", ![w].n = @ + 1]
  /\ UNCHANGED <<allMetrics, aggregated, trackAllPaths, slow, held, shown, stage, current, counted, epoch, entangled>>

ResetMap(w) ==
  /\ write[w].at = "reset"
  /\ held' = [held EXCEPT ![write[w].n] = <<>>]
  /\ write' = [write EXCEPT ![w].at = "expose", ![w].n = @ + 1]
  /\ UNCHANGED <<allMetrics, aggregated, trackAllPaths, slow, shown, stage, current, counted, epoch, entangled>>

ReturnNil(w) ==
  /\ write[w].at = "expose" /\ write[w].n > Len(allMetrics)
  /\ write' = [write EXCEPT ![w].at = "nil"]
  /\ epoch' = epoch + 1
  /\ UNCHANGED <<allMetrics, aggregated, trackAllPaths, slow, held, shown, stage, current, counted, entangled>>

InMaps(w) == write[w].at \in {"record", "expose", "reset"}

\* The runtime may notice that two writes use a map at the same time.
MapsRaced ==
  /\ \E i \in DOMAIN allMetrics : ~Bypasses(allMetrics[i])
  /\ \E w, v \in DOMAIN write : w # v /\ InMaps(w) /\ InMaps(v)
  /\ stage' = "dead"
  /\ UNCHANGED <<allMetrics, aggregated, trackAllPaths, slow, held, shown, write, current, counted, epoch, entangled>>

MetricsNext ==
  \/ InitMetrics
  \/ /\ stage \in {"idle", "writing"}
     /\ \/ StartScrape \/ ScrapeDone \/ ScrapeDeadline \/ MapsRaced
        \/ \E w \in DOMAIN write :
             \/ ContextOver(w) \/ ProcessRecord(w)
             \/ Expose(w) \/ ResetMap(w) \/ ReturnNil(w)

-----------------------------------------------------------------------------
(* Properties.                                                              *)

MetricsTypeOK ==
  /\ stage \in {"new", "idle", "writing", "dead"}
  /\ stage # "new" => DOMAIN held = DOMAIN allMetrics /\ DOMAIN shown = DOMAIN allMetrics
  /\ \A w \in DOMAIN write : /\ write[w].at \in {"none", "record", "expose", "reset", "nil", "error"}
                             /\ write[w].data \in Seq(Traffic)
  /\ current \in 0 .. Len(ScrapeLengths)
  /\ epoch \in 0 .. current

\* What the records counted in epoch e give metric i under a key.
Given(i, e, key) ==
  LET of(x) == SelectSeq(Observations(allMetrics[i], x.of), LAMBDA o : JoinedBy(o.values) = key)
  IN FlattenSeq([j \in DOMAIN counted |-> IF counted[j].in = e THEN of(counted[j]) ELSE <<>>])

Times(os) == FoldLeft(LAMBDA acc, o : acc + o.time, 0, os)

\* The amounts a metric should have shown for an epoch under a key.
Expected(i, e, key) ==
  LET os == Given(i, e, key)
      m  == allMetrics[i]
  IN IF os = <<>> THEN <<>>
     ELSE IF Bypasses(m) THEN [j \in DOMAIN os |-> os[j].time]
     ELSE IF e = epoch THEN <<>>
     ELSE IF m.type = counterType THEN <<Len(os)>>
     ELSE <<Times(os) \div Len(os)>>

Keys(i) ==
  {JoinedBy(x.values) : x \in ToSet(shown[i])} \cup
  UNION {{JoinedBy(o.values) : o \in ToSet(Observations(allMetrics[i], x.of))} : x \in ToSet(counted)}

\* A metric that kills the process with some record.
Deadly(m) ==
  \E r \in Traffic : \E o \in ToSet(Observations(m, r)) : ~Fits(m, o.values)

\* Between writes that never ran next to each other, each metric has shown, for
\* each key and each hand-over, exactly the records counted since the one before,
\* those of a write that ran out of time included (Expose, prometheus.go:541-559);
\* the label values are those of a record.  The process ends only for a name used
\* twice, a metric whose labels do not fit its values, or two writes at a time.
MetricsFollow ==
  /\ MetricsTypeOK
  /\ stage \in {"idle", "writing"} /\ ~entangled /\ (\A w \in DOMAIN write : write[w].at \notin {"expose", "reset"}) =>
       \A i \in DOMAIN allMetrics : \A key \in Keys(i) :
         LET mine == SelectSeq(shown[i], LAMBDA x : JoinedBy(x.values) = key)
         IN /\ [j \in DOMAIN mine |-> mine[j].amount] = FlattenSeq([e \in 1 .. epoch + 1 |-> Expected(i, e - 1, key)])
            /\ \A x \in ToSet(mine) : \E n \in DOMAIN counted :
                 x.values \in {o.values : o \in ToSet(Observations(allMetrics[i], counted[n].of))}
  /\ stage = "dead" =>
       \/ \E i, j \in DOMAIN allMetrics : i # j /\ allMetrics[i].name = allMetrics[j].name
       \/ \E i \in DOMAIN allMetrics : Deadly(allMetrics[i])
       \/ entangled
=============================================================================
