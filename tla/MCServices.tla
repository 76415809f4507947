----------------------------- MODULE MCServices -----------------------------
(* The smaller components around the pumps, one of them per behaviour: what *)
(* they have in common is a field, a variable, a channel or an array that   *)
(* several goroutines or handlers use without a lock.                       *)
EXTENDS Hybrid, TemporalStorage, StatsdSink, SharedTags, Metrics, Filters

VARIABLE part   \* the component this behaviour is about

vars == <<part, hybridVars, storageVars, sinkVars, tagVars, metricVars, filterVars>>

MCPayload  == {{"api", "mcp"}, {"nil", "unmapped"}, {"api", "unmappedMCP"}}
\* A pump that sends the records as they are does not look at them: one slice will do.
MCRawSlices == mode = "raw" => \A c \in 2 .. Len(calls') : calls'[c].payload = {"api", "mcp"}
MCHandlers == <<FALSE, TRUE, FALSE>>
MCLengths  == {<<2, 4>>}
MCExcluded == [s \in SplunkPump |-> IF s = CHOOSE p \in SplunkPump : TRUE
                                     THEN <<{"x1", "x2"}, {"y1"}>> ELSE <<{"x1", "x2"}, Tag>>]
MCTagLists == {<<"x1", "x2", "k1">>, <<"k1", "x1", "y1">>, <<"x1", "k1">>}

MCNames    == {CreateBasicMetrics[i].name : i \in DOMAIN CreateBasicMetrics}

MCMetric(name, type, labels, mcpOnly) ==
  [name |-> name, type |-> type, labels |-> labels, mcpOnly |-> mcpOnly, obfuscate |-> TRUE]
MCSettings ==
  {[disabled |-> MCNames \ {"tyk_latency"}, custom |-> <<>>]} \cup
  {[disabled |-> MCNames \ IF m.name = "tyk_latency" THEN {m.name} ELSE {}, custom |-> <<m>>] : m \in
    { MCMetric("paths", "counter", <<"alias", "path">>, FALSE),
      MCMetric("keys", "counter", <<"key">>, TRUE),
      MCMetric("unknown", "counter", <<"colour">>, FALSE),
      MCMetric("aliases", "histogram", <<"alias", "type">>, FALSE),
      MCMetric("waits", "histogram", <<"key", "alias">>, FALSE),
      MCMetric("gauges", "gauge", <<"key">>, FALSE),
      MCMetric("tyk_latency", "counter", <<"code">>, FALSE) } }

MCRecord(mcp, tracked, total, alias, path, key) ==
  [mcp |-> mcp, tracked |-> tracked, total |-> total, upstream |-> total - 1, gateway |-> 1,
   value |-> [l \in {"code", "api", "path", "method", "key", "client_id", "alias"} |->
                CASE l = "alias" -> alias [] l = "path" -> path [] l = "key" -> key
                  [] l = "code" -> <<"200">> [] OTHER -> <<l>>]]
MCTraffic ==
  { MCRecord(FALSE, TRUE, 5, <<"total", "--", "b">>, <<"c">>, <<"k", "4567">>),
    MCRecord(TRUE, FALSE, 8, <<"total">>, <<"b", "--", "c">>, <<"s">>) }
MCScrapes == <<2, 1>>

MCOption ==
  [skipAPIs |-> {}, skipOrgs |-> {}, skipCodes |-> {}, APIs |-> {}, orgs |-> {}, codes |-> {}, omit |-> FALSE,
   size |-> 0, ignore |-> {}, decodeRequest |-> FALSE, decodeResponse |-> FALSE]
MCOptions ==
  << {MCOption, [MCOption EXCEPT !.decodeRequest = TRUE, !.APIs = {"x"}]},
     {[MCOption EXCEPT !.skipCodes = {500}, !.omit = TRUE],
      [MCOption EXCEPT !.orgs = {"o"}, !.ignore = {"org_id", "raw_request"}, !.decodeRequest = TRUE]},
     {[MCOption EXCEPT !.size = 8, !.decodeResponse = TRUE, !.skipAPIs = {"y"}],
      [MCOption EXCEPT !.size = 5, !.decodeResponse = TRUE, !.codes = {200}],
      [MCOption EXCEPT !.skipOrgs = {"o"}, !.ignore = {"code"}]} >>
MCKey(api, org, code, length) ==
  [api_id |-> api, org_id |-> org, code |-> code, raw_request |-> [form |-> "base64", length |-> length],
   raw_response |-> [form |-> IF code = 500 THEN "plain" ELSE "base64", length |-> 12]]
MCKeyLists == {<<MCKey("x", "o", 200, 4), MCKey("y", "o", 500, 6), MCKey("x", "", 200, 8)>>,
               <<MCKey("y", "o", 200, 8), MCKey("x", "o", 500, 4), MCKey("y", "", 500, 4)>>}

MCInit ==
  /\ part \in {"hybrid", "storage", "sink", "tags", "metrics", "filters"}
  /\ HybridInit  /\ (part # "hybrid" => mode = "raw")
  /\ StorageInit
  /\ SinkInit
  /\ TagsInit /\ (part # "tags" => Len(array) = 2)
  /\ MetricsInit /\ (IF part = "metrics" THEN trackAllPaths = aggregated ELSE ~(aggregated \/ trackAllPaths \/ slow))
  /\ FiltersInit /\ (part # "filters" => decoded[1].api_id = "x" /\ \A s \in FilterPump : option[s] = CHOOSE o \in Options[s] : TRUE)

MCNext ==
  /\ UNCHANGED part
  /\ \/ part = "hybrid"  /\ HybridNext /\ MCRawSlices /\ UNCHANGED <<storageVars, sinkVars, tagVars, metricVars, filterVars>>
     \/ part = "storage" /\ StorageNext /\ UNCHANGED <<hybridVars, sinkVars, tagVars, metricVars, filterVars>>
     \/ part = "sink"    /\ SinkNext    /\ UNCHANGED <<hybridVars, storageVars, tagVars, metricVars, filterVars>>
     \/ part = "tags"    /\ TagsNext    /\ UNCHANGED <<hybridVars, storageVars, sinkVars, metricVars, filterVars>>
     \/ part = "metrics" /\ MetricsNext /\ UNCHANGED <<hybridVars, storageVars, sinkVars, tagVars, filterVars>>
     \/ part = "filters" /\ FiltersNext /\ UNCHANGED <<hybridVars, storageVars, sinkVars, tagVars, metricVars>>

Spec == MCInit /\ [][MCNext]_vars /\ (part = "sink" => SinkFairness)
=============================================================================
