---------------------------- MODULE MCAggregation ----------------------------
(* Values for TLC: of every kind a success, an error, a record without a    *)
(* hit, and what else its aggregation tells apart.                          *)
EXTENDS Aggregation

CONSTANTS a, b, x, y, k, v, p, None

Rec(kind, code, latency) ==
  [kind |-> kind, org |-> a, api |-> x, code |-> code, latency |-> latency, bytes |-> 0,
   attr |-> {}, tags |-> <<>>, path |-> p, tracked |-> FALSE, extra |-> {}, graphErrors |-> FALSE]

Traffic1(kind) == [Rec(kind, -1, 0) EXCEPT !.bytes = 1]

Type   == <<"types", "Query">>
Method == <<"methods", "call">>

MCRecord ==
  { [Rec("rest", 200, 2) EXCEPT !.attr = {<<"versions", v>>, <<"apikeys", k>>},
                                !.tags = <<"t", "t.", "key-1">>, !.tracked = TRUE],
    Rec("rest", 404, 1),
    [Rec("rest", 302, 1) EXCEPT !.org = b, !.api = None, !.attr = {<<"geo", v>>}],
    Traffic1("rest"),
    [Rec("graph", 200, 1) EXCEPT !.extra = {Type}, !.graphErrors = TRUE],
    [Rec("graph", 302, 2) EXCEPT !.extra = {Type, <<"operation", "query">>}],
    [Rec("graph", 404, 1) EXCEPT !.extra = {Type}, !.api = y],
    [Traffic1("graph") EXCEPT !.extra = {Type}],
    [Rec("mcp", 200, 2) EXCEPT !.extra = {Method, <<"names", "tool">>}],
    [Rec("mcp", 404, 1) EXCEPT !.extra = {Method}],
    [Traffic1("mcp") EXCEPT !.extra = {Method}],
    Rec("uptime", 200, 2),
    Rec("uptime", 404, 1),
    Rec("uptime", 302, 1),
    Rec("uptime", -1, 0),
    [Rec("uptime", 200, 1) EXCEPT !.org = None] }

MCForeign == {Rec("rest", 404, 1), [Rec("graph", 404, 1) EXCEPT !.extra = {Type}, !.api = y]}

MCTrimmed == "t" :> "t" @@ "t." :> "t" @@ "key-1" :> "key-1"
MCLengths == <<2, 1>>
=============================================================================
