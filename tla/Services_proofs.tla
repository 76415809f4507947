---------------------------- MODULE Services_proofs ----------------------------
(* Theorems about the temporal storage, for any handlers, about the hybrid   *)
(* pump, for any slices, retries and failures, about the filters, for any    *)
(* pumps, options and records, about the Resurface pump, for any capacity of *)
(* its queue and any number of chunks, calls left behind and flushes, about  *)
(* the sink of the instrumentation, for any callers, metrics, channel and    *)
(* size of a datagram, and about the filters of shared tags, for any tags    *)
(* and pumps and any entries of their lists.                                 *)
EXTENDS Hybrid, TemporalStorage, Filters, Resurface, StatsdSink, SharedTags, DataFacts, FiniteSetTheorems, TLAPS

-----------------------------------------------------------------------------
(* The temporal storage.                                                     *)

StorageTypes ==
  /\ StorageTypeOK
  /\ view \in [Handler -> [kv : Nat, list : Nat]]
  /\ inits \in [Handler -> {"new", "ok", "error"}]
  /\ operation \in [Handler -> {"none", "connecting", "ready", "ok", "error", "panic"}]

(* How far each handler has come.                                            *)
HandlerInv ==
  \A h \in Handler :
    /\ inits[h] = "new" => view[h] = NoView /\ operation[h] = "none"
    /\ inits[h] = "ok" => view[h].kv # 0 /\ view[h].list # 0
    /\ operation[h] = "panic" => inits[h] = "error"

(* The connector in the variable is a live one, unless everybody was cut off *)
(* from it.                                                                  *)
ConnectorInv ==
  /\ singleton = 0 => live = <<>>
  /\ singleton # 0 => live[singleton] \/ replaced = Handler
  /\ replaced # {} => \E g \in Handler : Handlers[g] /\ inits[g] # "new"

ServedInv ==
  \A h \in Handler : inits[h] = "ok" => Serves(h) \/ h \in replaced

StorageInv == StorageTypes /\ HandlerInv /\ ConnectorInv /\ ServedInv

LEMMA StorageFacts ==
  ASSUME StorageInv
  PROVE  /\ live \in Seq(BOOLEAN) /\ Len(live) \in Nat /\ singleton \in 0 .. Len(live)
         /\ Disconnected \in Seq(BOOLEAN) /\ Len(Disconnected) = Len(live)
         /\ \A k \in 1 .. Len(live) : Disconnected[k] = (live[k] /\ k # singleton)
         /\ \A h \in Handler : view[h].kv \in 0 .. Len(live) /\ view[h].list \in 0 .. Len(live)
         /\ MaxFailures \in Nat /\ failures \in 0 .. MaxFailures /\ replaced \subseteq Handler
         /\ \A h \in Handler : Handlers[h] \in BOOLEAN
<1>1. live \in Seq(BOOLEAN) /\ Len(live) \in Nat /\ DOMAIN live = 1 .. Len(live)
  BY DEF StorageInv, StorageTypes, StorageTypeOK
<1>2. \A k \in 1 .. Len(live) : live[k] \in BOOLEAN
  BY <1>1
<1>3. Disconnected \in [1 .. Len(live) -> BOOLEAN]
  BY <1>1, <1>2 DEF Disconnected
<1>4. Disconnected \in Seq(BOOLEAN) /\ Len(Disconnected) = Len(live)
  BY <1>1, <1>3
<1>5. \A k \in 1 .. Len(live) : Disconnected[k] = (live[k] /\ k # singleton)
  BY <1>1 DEF Disconnected
<1> QED
  BY <1>1, <1>4, <1>5, HandlersAssumption DEF StorageInv, StorageTypes, StorageTypeOK, Handler

(* What connect does, to the connectors and to the views, also where it      *)
(* fails.                                                                    *)
ConnectKeeps(h) ==
  /\ live' \in Seq(BOOLEAN) /\ singleton' \in 0 .. Len(live')
  /\ failures' \in 0 .. MaxFailures /\ replaced' \subseteq Handler
  /\ view' \in [Handler -> [kv : Nat, list : Nat]]
  /\ \A g \in Handler : view'[g].kv \in 0 .. Len(live') /\ view'[g].list \in 0 .. Len(live')
  /\ singleton' = 0 => live' = <<>>
  /\ singleton' # 0 => live'[singleton'] \/ replaced' = Handler
  /\ replaced' # {} => replaced # {} \/ Handlers[h]
  /\ \A g \in Handler \ {h} :
       /\ view'[g] = view[g]
       /\ inits[g] = "ok" => Serves(g)' \/ g \in replaced'
  /\ inits[h] = "ok" \/ (Connect(h) /\ inits[h] = "new") =>
       /\ view'[h].kv # 0 /\ view'[h].list # 0
       /\ Serves(h)' \/ h \in replaced'

LEMMA AppendTrue ==
  ASSUME NEW s \in Seq(BOOLEAN)
  PROVE  /\ Append(s, TRUE) \in Seq(BOOLEAN)
         /\ Len(Append(s, TRUE)) = Len(s) + 1
         /\ \A k \in 1 .. Len(s) : Append(s, TRUE)[k] = s[k]
         /\ Append(s, TRUE)[Len(s) + 1] = TRUE
<1> DEFINE S == BOOLEAN
           t == TRUE
<1>1. s \in Seq(S) /\ t \in S
  OBVIOUS
<1> HIDE DEF S, t
<1>2. /\ Append(s, t) \in Seq(S)
      /\ Len(Append(s, t)) = Len(s) + 1
      /\ \A k \in 1 .. Len(s) : Append(s, t)[k] = s[k]
      /\ Append(s, t)[Len(s) + 1] = t
  BY <1>1, AppendFacts
<1> QED
  BY <1>2 DEF S, t

LEMMA ResetKeeps ==
  ASSUME StorageInv, NEW h \in Handler, Reset(h)
  PROVE  ConnectKeeps(h)
<1> DEFINE n == Len(live) + 1
<1>1. /\ live' \in Seq(BOOLEAN) /\ Len(live') = n /\ live'[n] = TRUE
      /\ \A k \in 1 .. Len(live) : live'[k] = Disconnected[k]
  <2>1. Disconnected \in Seq(BOOLEAN) /\ Len(Disconnected) = Len(live) /\ TRUE \in BOOLEAN
    BY StorageFacts
  <2>2. live' = Append(Disconnected, TRUE)
    BY DEF Reset
  <2>3. /\ Append(Disconnected, TRUE) \in Seq(BOOLEAN)
        /\ Len(Append(Disconnected, TRUE)) = Len(Disconnected) + 1
        /\ \A k \in 1 .. Len(Disconnected) : Append(Disconnected, TRUE)[k] = Disconnected[k]
        /\ Append(Disconnected, TRUE)[Len(Disconnected) + 1] = TRUE
    BY <2>1, AppendTrue
  <2> QED
    BY <2>1, <2>2, <2>3
<1>2. n \in Nat /\ n # 0 /\ singleton' = n /\ failures' = failures
  BY StorageFacts DEF Reset
<1>3. /\ view' \in [Handler -> [kv : Nat, list : Nat]]
      /\ view'[h].kv = n /\ view'[h].list = n
      /\ \A g \in Handler \ {h} : view'[g] = view[g]
  BY <1>2 DEF Reset, StorageInv, StorageTypes
<1>4. replaced' = {g \in Handler \ {h} : view[g] # NoView}
  BY DEF Reset
<1>5. ASSUME ~Handlers[h], NEW g \in Handler
      PROVE  view[g] = NoView
  <2>1. live = <<>> /\ Len(live) = 0
    BY <1>5, StorageFacts DEF Reset, Resets, StorageInv, ConnectorInv
  <2>2. view[g].kv = 0 /\ view[g].list = 0
    BY <2>1, StorageFacts
  <2>3. view[g] \in [kv : Nat, list : Nat]
    BY DEF StorageInv, StorageTypes
  <2> QED
    BY <2>2, <2>3 DEF NoView
<1>6. ASSUME NEW g \in Handler \ {h}, inits[g] = "ok"
      PROVE  g \in replaced'
  BY <1>4, <1>6 DEF StorageInv, HandlerInv, NoView
<1>7. Serves(h)'
  BY <1>1, <1>2, <1>3 DEF Serves
<1>8. \A g \in Handler : view'[g].kv \in 0 .. n /\ view'[g].list \in 0 .. n
  BY <1>2, <1>3, StorageFacts
<1> QED
  BY <1>1, <1>2, <1>3, <1>4, <1>5, <1>6, <1>7, <1>8, StorageFacts DEF ConnectKeeps

LEMMA ResetFailsKeeps ==
  ASSUME StorageInv, NEW h \in Handler, ResetFails(h), ~Connect(h)
  PROVE  ConnectKeeps(h)
<1>1. UNCHANGED <<singleton, view>> /\ failures' = failures + 1 /\ failures < MaxFailures
  BY DEF ResetFails, FailOnce
<1>2. CASE live' = live
  <2>1. replaced' = replaced
    BY <1>2 DEF ResetFails
  <2>2. \A g \in Handler : Serves(g)' <=> Serves(g)
    BY <1>1, <1>2 DEF Serves
  <2>3. ASSUME NEW g \in Handler, inits[g] = "ok"
        PROVE  view[g].kv # 0 /\ view[g].list # 0 /\ (Serves(g)' \/ g \in replaced')
    BY <2>1, <2>2, <2>3 DEF StorageInv, HandlerInv, ServedInv
  <2>4. failures' \in 0 .. MaxFailures /\ view' \in [Handler -> [kv : Nat, list : Nat]]
    BY <1>1, StorageFacts DEF StorageInv, StorageTypes
  <2> QED
    BY <1>1, <1>2, <2>1, <2>3, <2>4, StorageFacts DEF ConnectKeeps, StorageInv, ConnectorInv
<1>3. CASE live' # live
  <2>1. live' = Disconnected /\ replaced' = Handler
    BY <1>3 DEF ResetFails
  <2>2. singleton # 0
    <3>1. CASE singleton = 0
      <4>1. live = <<>> /\ Len(Disconnected) = 0 /\ Disconnected \in Seq(BOOLEAN)
        BY <3>1, StorageFacts DEF StorageInv, ConnectorInv
      <4> QED
        BY <1>3, <2>1, <4>1
    <3> QED
      BY <3>1
  <2>3. Handlers[h]
    BY <2>2 DEF ResetFails, Resets
  <2> QED
    BY <1>1, <2>1, <2>2, <2>3, StorageFacts
    DEF ConnectKeeps, StorageInv, StorageTypes, HandlerInv
<1> QED
  BY <1>2, <1>3

LEMMA TakeViewsKeeps ==
  ASSUME StorageInv, NEW h \in Handler, TakeViews(h)
  PROVE  ConnectKeeps(h)
<1>1. UNCHANGED <<singleton, live, failures, replaced>> /\ singleton # 0
  BY DEF TakeViews, Resets
<1>2. /\ view' \in [Handler -> [kv : Nat, list : Nat]]
      /\ \A g \in Handler \ {h} : view'[g] = view[g]
      /\ view'[h] = IF 0 \in {view[h].kv, view[h].list}
                    THEN [kv |-> singleton, list |-> singleton] ELSE view[h]
  BY StorageFacts DEF TakeViews, StorageInv, StorageTypes
<1>0. ASSUME NEW g \in Handler, view'[g] = view[g], inits[g] = "ok"
      PROVE  Serves(g)' \/ g \in replaced'
  BY <1>0, <1>1 DEF StorageInv, ServedInv, Serves
<1>3. CASE view'[h] = view[h] /\ view[h].kv # 0 /\ view[h].list # 0
  <2>1. inits[h] # "new"
    BY <1>3 DEF StorageInv, HandlerInv, NoView
  <2>2. \A g \in Handler : view'[g] = view[g]
    BY <1>2, <1>3
  <2> QED
    BY <1>0, <1>1, <1>2, <1>3, <2>1, <2>2, StorageFacts DEF ConnectKeeps, StorageInv, ConnectorInv
<1>4. CASE view'[h] = [kv |-> singleton, list |-> singleton] /\ 0 \in {view[h].kv, view[h].list}
  <2>1. Serves(h)' \/ h \in replaced'
    BY <1>1, <1>4 DEF Serves, StorageInv, ConnectorInv
  <2>2. view'[h].kv = singleton /\ view'[h].list = singleton
    BY <1>4
  <2>3. \A g \in Handler : view'[g].kv \in 0 .. Len(live) /\ view'[g].list \in 0 .. Len(live)
    BY <1>2, <2>2, StorageFacts
  <2> QED
    BY <1>0, <1>1, <1>2, <2>1, <2>2, <2>3, StorageFacts
    DEF ConnectKeeps, StorageInv, ConnectorInv
<1> QED
  BY <1>2, <1>3, <1>4

LEMMA TakeViewsFailsKeeps ==
  ASSUME StorageInv, NEW h \in Handler, TakeViewsFails(h), ~Connect(h)
  PROVE  ConnectKeeps(h)
<1>1. /\ UNCHANGED <<singleton, live, replaced>> /\ failures' = failures + 1
      /\ failures < MaxFailures /\ 0 \in {view[h].kv, view[h].list}
  BY DEF TakeViewsFails, FailOnce
<1>2. PICK kv \in {0, singleton} : view' = [view EXCEPT ![h].kv = kv]
  BY DEF TakeViewsFails
<1>3. /\ view' \in [Handler -> [kv : Nat, list : Nat]]
      /\ \A g \in Handler \ {h} : view'[g] = view[g]
      /\ view'[h].kv = kv /\ view'[h].list = view[h].list
  BY <1>2, StorageFacts DEF StorageInv, StorageTypes
<1>4. inits[h] # "ok"
  BY <1>1 DEF StorageInv, HandlerInv
<1> QED
  BY <1>1, <1>2, <1>3, <1>4, StorageFacts
  DEF ConnectKeeps, StorageInv, ConnectorInv, ServedInv, Serves

LEMMA ConnectStep ==
  ASSUME StorageInv, NEW h \in Handler, Connect(h) \/ ConnectFails(h)
  PROVE  ConnectKeeps(h)
<1>1. CASE Connect(h)
  BY <1>1, ResetKeeps, TakeViewsKeeps DEF Connect
<1>2. CASE ~Connect(h)
  BY <1>2, ResetFailsKeeps, TakeViewsFailsKeeps DEF ConnectFails
<1> QED
  BY <1>1, <1>2

(* Init and ensureConnection, which go through connect.                      *)
LEMMA StorageConnectStep ==
  ASSUME StorageInv, NEW h \in Handler, Init(h) \/ ensureConnection(h)
  PROVE  StorageInv'
<1>1. ConnectKeeps(h)
  BY ConnectStep DEF Init, ensureConnection
<1>2. /\ inits' \in [Handler -> {"new", "ok", "error"}]
      /\ operation' \in [Handler -> {"none", "connecting", "ready", "ok", "error", "panic"}]
      /\ \A g \in Handler \ {h} : inits'[g] = inits[g] /\ operation'[g] = operation[g]
      /\ inits'[h] # "new"
      /\ operation'[h] = "panic" => operation[h] = "panic" /\ inits'[h] = inits[h]
      /\ inits'[h] = "ok" => inits[h] = "ok" \/ (Connect(h) /\ inits[h] = "new")
  <2>1. CASE Init(h)
    BY <2>1 DEF Init, StorageInv, StorageTypes, HandlerInv
  <2>2. CASE ensureConnection(h)
    BY <2>2 DEF ensureConnection, StorageInv, StorageTypes, HandlerInv
  <2> QED
    BY <2>1, <2>2
<1>3. StorageTypes'
  BY <1>1, <1>2 DEF ConnectKeeps, StorageTypes, StorageTypeOK
<1>4. HandlerInv'
  BY <1>1, <1>2 DEF ConnectKeeps, StorageInv, HandlerInv
<1>5. ConnectorInv'
  BY <1>1, <1>2 DEF ConnectKeeps, StorageInv, ConnectorInv
<1>6. ServedInv'
  BY <1>1, <1>2 DEF ConnectKeeps, ServedInv
<1> QED
  BY <1>3, <1>4, <1>5, <1>6 DEF StorageInv

(* The operations of a handler that is connected.                            *)
LEMMA StorageOperateStep ==
  ASSUME StorageInv, NEW h \in Handler, Operate(h) \/ Answer(h)
  PROVE  StorageInv'
<1>1. UNCHANGED <<singleton, live, view, inits, replaced>>
  BY DEF Operate, Answer
<1>2. failures' \in 0 .. MaxFailures
  BY StorageFacts DEF Operate, Answer, FailOnce
<1>3. /\ operation' \in [Handler -> {"none", "connecting", "ready", "ok", "error", "panic"}]
      /\ \A g \in Handler \ {h} : operation'[g] = operation[g]
      /\ operation'[h] = "panic" => 0 \in {view[h].kv, view[h].list}
      /\ inits[h] # "new"
  <2>1. CASE Operate(h)
    BY <2>1 DEF Operate, StorageInv, StorageTypes
  <2>2. CASE Answer(h)
    BY <2>2 DEF Answer, StorageInv, StorageTypes, HandlerInv
  <2> QED
    BY <2>1, <2>2
<1>4. StorageTypes'
  BY <1>1, <1>2, <1>3 DEF StorageInv, StorageTypes, StorageTypeOK
<1>5. HandlerInv'
  <2>1. inits[h] \in {"new", "ok", "error"}
    BY DEF StorageInv, StorageTypes
  <2> QED
    BY <1>1, <1>3, <2>1 DEF StorageInv, HandlerInv
<1> QED
  BY <1>1, <1>4, <1>5 DEF StorageInv, ConnectorInv, ServedInv, Serves

(* The invariant of the temporal storage: the variable names a live          *)
(* connector unless a forced handler broke it for everybody, and a handler   *)
(* without a view has not got through connect.                               *)
THEOREM StorageInductive == StorageSpec => []StorageInv
<1>1. StorageInit => StorageInv
  <2>1. ASSUME StorageInit
        PROVE  StorageInv
    <3>1. 0 \in 0 .. MaxFailures /\ Len(<<>>) = 0
      BY HandlersAssumption
    <3> QED
      BY <2>1, <3>1
      DEF StorageInit, StorageInv, StorageTypes, StorageTypeOK, HandlerInv, ConnectorInv,
          ServedInv, NoView
  <2> QED
    BY <2>1
<1>2. StorageInv /\ [StorageNext]_storageVars => StorageInv'
  <2>1. CASE UNCHANGED storageVars
    BY <2>1
    DEF storageVars, StorageInv, StorageTypes, StorageTypeOK, HandlerInv, ConnectorInv, ServedInv,
        Serves
  <2> QED
    BY <2>1, StorageConnectStep, StorageOperateStep DEF StorageNext
<1> QED
  BY <1>1, <1>2, PTL DEF StorageSpec

(* Whatever the handlers do to the connector they share, one whose Init      *)
(* succeeded reaches the storage, unless a forced reconnection cut it off,   *)
(* and GetAndDeleteSet and SetKey do not die on a missing view.              *)
THEOREM StorageStaysReachable == StorageSpec => []StorageReachable
<1>1. StorageInv => StorageReachable
  BY DEF StorageInv, StorageTypes, HandlerInv, ConnectorInv, ServedInv, StorageReachable
<1> QED
  BY <1>1, StorageInductive, PTL

-----------------------------------------------------------------------------
(* The hybrid pump.                                                          *)

Results == {"none", "nil", "error"}
CallRec == [payload : SUBSET RecordKinds, step : Steps, tries : 0 .. Retries,
            behind : BOOLEAN, result : Results]
Taken   == [rpc : Rpcs, allowed : BOOLEAN]

HybridTypes ==
  /\ mode \in {"raw", "aggregated", "mcp"} /\ hybrid \in {"up", "shut", "dead"}
  /\ calls \in Seq(CallRec) /\ 1 \in DOMAIN calls
  /\ accepted \in Seq(Seq(Taken)) /\ Len(accepted) = Len(calls)
  /\ clients \in Seq({"new", "started", "stopped"})
  /\ rpcClient \in 0 .. Len(clients) /\ funcClient \in 0 .. Len(clients)
  /\ connected \in BOOLEAN /\ linked \subseteq DOMAIN clients /\ loggedIn \subseteq DOMAIN clients

(* Which calls there are, and where they can be.                             *)
CallsInv ==
  /\ \A c \in DOMAIN calls : calls[c].result = "none" <=> Running(c)
  /\ calls[1].payload = {} /\ calls[1].step \notin {"check", "login", "send", "sendMCP"}
  /\ Len(calls) > 1 => calls[1].result = "nil"

(* What MDCB has of a call, and has to get.                                  *)
DueLen(c) == IF calls[c].payload = {} THEN 0
             ELSE IF mode = "mcp" /\ HasMCP(c) THEN 2 ELSE 1
DueAt(i)  == IF mode = "raw" THEN "PurgeAnalyticsData"
             ELSE IF i = 1 THEN "PurgeAnalyticsDataAggregated"
             ELSE "PurgeAnalyticsDataMCPAggregated"

ProgressInv ==
  \A c \in DOMAIN calls :
    /\ Len(accepted[c]) <= DueLen(c)
    /\ \A i \in 1 .. Len(accepted[c]) : accepted[c][i].rpc = DueAt(i)
    /\ calls[c].step \notin {"sendMCP", "returned"} => Len(accepted[c]) = 0
    /\ calls[c].step = "send" => DueLen(c) > 0
    /\ calls[c].step = "sendMCP" => Len(accepted[c]) = 1 /\ DueLen(c) = 2
    /\ Running(c) /\ c # 1 => DueLen(c) > 0
    /\ calls[c].result = "nil" => Len(accepted[c]) = DueLen(c)

(* With no call left behind one call runs, and the fields are as it left     *)
(* them.                                                                     *)
AloneInv ==
  ~Overlap =>
    /\ \A c, d \in DOMAIN calls : Running(c) /\ Running(d) => c = d
    /\ hybrid = "shut" => \A c \in DOMAIN calls : ~Running(c)
    /\ hybrid = "dead" => \E c \in DOMAIN calls : Running(c) /\ ~Aggregates(c)
    /\ hybrid = "up" /\ calls[1].result = "nil" => funcClient # 0
    /\ hybrid = "up" => \A c \in DOMAIN calls :
         /\ calls[c].step = "start" => rpcClient # 0 /\ clients[rpcClient] = "new"
         /\ calls[c].step = "dispatch" => rpcClient # 0
         /\ calls[c].step \in {"ping", "recheck", "relogin"} => funcClient # 0
         /\ calls[c].step \in {"send", "sendMCP"} => funcClient \in loggedIn
    /\ \A c \in DOMAIN calls : \A i \in DOMAIN accepted[c] : accepted[c][i].allowed

HybridInv == HybridTypes /\ CallsInv /\ ProgressInv /\ AloneInv

-----------------------------------------------------------------------------
(* The steps of a call.                                                      *)

(* Call c comes to a step, or to a result, and nothing else of the calls     *)
(* changes.                                                                  *)
Moved(c, step, result) ==
  /\ calls' \in Seq(CallRec) /\ Len(calls') = Len(calls) /\ DOMAIN calls' = DOMAIN calls
  /\ \A d \in DOMAIN calls \ {c} : calls'[d] = calls[d]
  /\ calls'[c].step = step /\ calls'[c].result = result
  /\ calls'[c].payload = calls[c].payload /\ calls'[c].behind = calls[c].behind

LEMMA UpdateFacts ==
  ASSUME NEW S, NEW s \in Seq(S), NEW k \in DOMAIN s, NEW e \in S
  PROVE  /\ [s EXCEPT ![k] = e] \in Seq(S) /\ Len([s EXCEPT ![k] = e]) = Len(s)
         /\ DOMAIN [s EXCEPT ![k] = e] = DOMAIN s
         /\ \A i \in DOMAIN s \ {k} : [s EXCEPT ![k] = e][i] = s[i]
         /\ [s EXCEPT ![k] = e][k] = e
OBVIOUS

LEMMA MovedIf ==
  ASSUME HybridTypes, NEW c \in DOMAIN calls, NEW e \in CallRec, calls' = [calls EXCEPT ![c] = e],
         e.payload = calls[c].payload, e.behind = calls[c].behind
  PROVE  Moved(c, e.step, e.result)
<1>1. calls \in Seq(CallRec)
  BY DEF HybridTypes
<1>2. /\ [calls EXCEPT ![c] = e] \in Seq(CallRec) /\ Len([calls EXCEPT ![c] = e]) = Len(calls)
      /\ DOMAIN [calls EXCEPT ![c] = e] = DOMAIN calls
      /\ \A i \in DOMAIN calls \ {c} : [calls EXCEPT ![c] = e][i] = calls[i]
      /\ [calls EXCEPT ![c] = e][c] = e
  <2> HIDE DEF CallRec
  <2> QED
    BY <1>1, UpdateFacts
<1> QED
  BY <1>2 DEF Moved

LEMMA StepMoves ==
  ASSUME HybridTypes, NEW c \in DOMAIN calls, NEW s \in Steps
  PROVE  /\ calls' = [calls EXCEPT ![c].step = s] => Moved(c, s, calls[c].result)
         /\ Goto(c, s) => Moved(c, s, calls[c].result)
<1>1. calls[c] \in CallRec /\ 0 \in 0 .. Retries
  BY HybridAssumption DEF HybridTypes
<1>2. CASE calls' = [calls EXCEPT ![c].step = s]
  <2> DEFINE e == [calls[c] EXCEPT !.step = s]
  <2>1. e \in CallRec /\ e.step = s /\ e.result = calls[c].result /\ e.payload = calls[c].payload
        /\ e.behind = calls[c].behind
    BY <1>1 DEF CallRec
  <2>2. calls' = [calls EXCEPT ![c] = e]
    BY <1>2
  <2> QED
    BY <2>1, <2>2, MovedIf
<1>3. CASE Goto(c, s)
  <2> DEFINE e == [calls[c] EXCEPT !.step = s, !.tries = 0]
  <2>1. e \in CallRec /\ e.step = s /\ e.result = calls[c].result /\ e.payload = calls[c].payload
        /\ e.behind = calls[c].behind
    BY <1>1 DEF CallRec
  <2>2. calls' = [calls EXCEPT ![c] = e]
    BY <1>3 DEF Goto
  <2> QED
    BY <2>1, <2>2, MovedIf
<1> QED
  BY <1>2, <1>3

LEMMA FinishMoves ==
  ASSUME HybridTypes, NEW c \in DOMAIN calls, NEW r \in Results, Finish(c, r)
  PROVE  Moved(c, "returned", r)
<1> DEFINE e == [calls[c] EXCEPT !.step = "returned", !.result = r]
<1>1. e \in CallRec /\ e.step = "returned" /\ e.result = r /\ e.payload = calls[c].payload
      /\ e.behind = calls[c].behind
  <2>1. calls[c] \in CallRec
    BY DEF HybridTypes
  <2> QED
    BY <2>1 DEF CallRec, Steps
<1>2. calls' = [calls EXCEPT ![c] = e]
  BY DEF Finish
<1> QED
  BY <1>1, <1>2, MovedIf

LEMMA FailsMoves ==
  ASSUME HybridTypes, NEW c \in DOMAIN calls, NEW from \in Steps, Fails(c, from)
  PROVE  Moved(c, "returned", "error") \/ (c = 1 /\ Moved(c, from, calls[c].result))
<1>1. CASE c = 1 /\ calls[c].tries < Retries
  <2> DEFINE e == [calls[c] EXCEPT !.step = from, !.tries = @ + 1]
  <2>1. e \in CallRec /\ e.step = from /\ e.result = calls[c].result /\ e.payload = calls[c].payload
        /\ e.behind = calls[c].behind
    <3>0. calls[c] \in CallRec
      BY DEF HybridTypes
    <3>1. calls[c] \in CallRec /\ calls[c].tries + 1 \in 0 .. Retries
      BY <1>1, <3>0, HybridAssumption DEF CallRec
    <3> QED
      BY <3>1 DEF CallRec
  <2>2. calls' = [calls EXCEPT ![c] = e]
    BY <1>1 DEF Fails
  <2> QED
    BY <1>1, <2>1, <2>2, MovedIf
<1>2. CASE ~(c = 1 /\ calls[c].tries < Retries)
  BY <1>2, FinishMoves DEF Fails, Results
<1> QED
  BY <1>1, <1>2

(* The steps of a call before it sends.                                      *)
BeforeSend(c) ==
  \/ ConnectRPC(c) \/ StartClient(c) \/ startDispatcher(c) \/ Ping(c) \/ CheckConnected(c)
  \/ LoginAccepted(c) \/ LoginRefused(c) \/ LoginFails(c)

LEMMA BeforeSendMoves ==
  ASSUME HybridTypes, CallsInv, NEW c \in DOMAIN calls, BeforeSend(c)
  PROVE  /\ UNCHANGED <<mode, accepted, hybrid>>
         /\ calls[c].step \notin {"send", "sendMCP", "returned"}
         /\ \E s \in Steps \ {"sendMCP"}, r \in Results :
              /\ Moved(c, s, r)
              /\ c = 1 => s \notin {"check", "login", "send"}
              /\ r = "none" <=> s # "returned"
              /\ r = "nil" => c = 1
<1>1. /\ UNCHANGED <<mode, accepted, hybrid>>
      /\ calls[c].step \notin {"send", "sendMCP", "returned"}
  BY DEF BeforeSend, ConnectRPC, StartClient, startDispatcher, Ping, CheckConnected,
         LoginAccepted, LoginRefused, LoginFails
<1>2. calls[c].result = "none" /\ (c = 1 => calls[c].step \notin {"check", "login", "send"})
  BY <1>1 DEF CallsInv, Running
<1>3. ASSUME Fails(c, "connect") \/ Fails(c, "recheck")
      PROVE  Moved(c, "returned", "error") \/ (c = 1 /\ Moved(c, "connect", "none"))
               \/ (c = 1 /\ Moved(c, "recheck", "none"))
  BY <1>2, <1>3, FailsMoves DEF Steps
<1>4. ASSUME AfterLogin(c)
      PROVE  (c = 1 /\ Moved(c, "returned", "nil")) \/ (c # 1 /\ Moved(c, "send", "none"))
  BY <1>2, <1>4, FinishMoves, StepMoves DEF AfterLogin, Steps, Results
<1>5. \/ \E s \in {"start", "dispatch", "ping", "recheck", "relogin", "connect"} : Moved(c, s, "none")
      \/ Moved(c, "returned", "error")
      \/ c = 1 /\ Moved(c, "returned", "nil")
      \/ c # 1 /\ Moved(c, "send", "none")
      \/ c # 1 /\ Moved(c, "login", "none")
  <2>1. CASE ConnectRPC(c) \/ StartClient(c) \/ startDispatcher(c)
    BY <1>2, <2>1, StepMoves DEF ConnectRPC, StartClient, startDispatcher, Steps
  <2>2. CASE Ping(c)
    BY <1>2, <1>3, <2>2, StepMoves DEF Ping, Steps
  <2>3. CASE CheckConnected(c)
    BY <1>2, <1>3, <2>3, StepMoves DEF CheckConnected, Steps
  <2>4. CASE LoginAccepted(c)
    BY <1>4, <2>4 DEF LoginAccepted
  <2>5. CASE LoginRefused(c)
    BY <1>2, <1>3, <2>5, FinishMoves DEF LoginRefused, Results
  <2>6. CASE LoginFails(c)
    BY <1>2, <1>3, <2>6, StepMoves DEF LoginFails, Steps
  <2> QED
    BY <2>1, <2>2, <2>3, <2>4, <2>5, <2>6 DEF BeforeSend
<1> QED
  BY <1>1, <1>5 DEF Steps, Results

LEMMA SendMoves ==
  ASSUME HybridTypes, CallsInv, NEW c \in DOMAIN calls, Send(c)
  PROVE  /\ UNCHANGED <<mode, rpcClient, funcClient, clients, connected, linked, loggedIn, hybrid>>
         /\ calls[c].step \in {"send", "sendMCP"} /\ c # 1
         /\ \/ accepted' = accepted /\ Moved(c, "returned", "error")
            \/ Take(c) /\ Moved(c, "returned", "error")
            \/ /\ Take(c) /\ Moved(c, "sendMCP", "none")
               /\ calls[c].step = "send" /\ mode = "mcp" /\ HasMCP(c)
            \/ /\ Take(c) /\ Moved(c, "returned", "nil")
               /\ ~(calls[c].step = "send" /\ mode = "mcp" /\ HasMCP(c))
<1>1. calls[c].step \in {"send", "sendMCP"} /\ calls[c].result = "none"
  BY DEF Send, CallsInv, Running
<1>2. ASSUME NEW r \in Results, Finish(c, r)
      PROVE  Moved(c, "returned", r)
  BY <1>2, FinishMoves
<1>3. Goto(c, "sendMCP") => Moved(c, "sendMCP", "none")
  BY <1>1, StepMoves DEF Steps
<1>4. AfterSend(c) =>
        \/ /\ Moved(c, "sendMCP", "none")
           /\ calls[c].step = "send" /\ mode = "mcp" /\ HasMCP(c)
        \/ /\ Moved(c, "returned", "nil")
           /\ ~(calls[c].step = "send" /\ mode = "mcp" /\ HasMCP(c))
  BY <1>2, <1>3 DEF AfterSend, Results
<1> QED
  BY <1>1, <1>2, <1>4 DEF Send, CallsInv, Results

LEMMA TakeFacts ==
  ASSUME HybridTypes, NEW c \in DOMAIN calls, calls[c].step \in {"send", "sendMCP"}, Take(c)
  PROVE  /\ accepted' \in Seq(Seq(Taken)) /\ Len(accepted') = Len(accepted)
         /\ \A d \in DOMAIN calls \ {c} : accepted'[d] = accepted[d]
         /\ Len(accepted[c]) \in Nat /\ Len(accepted'[c]) = Len(accepted[c]) + 1
         /\ DOMAIN accepted'[c] = 1 .. Len(accepted[c]) + 1
         /\ \A i \in 1 .. Len(accepted[c]) : accepted'[c][i] = accepted[c][i]
         /\ accepted'[c][Len(accepted[c]) + 1].rpc = Request(c)
         /\ accepted'[c][Len(accepted[c]) + 1].allowed = (funcClient \in loggedIn)
<1> DEFINE e == [rpc |-> Request(c), allowed |-> funcClient \in loggedIn]
           q == Append(accepted[c], e)
<1>1. e \in Taken /\ e.rpc = Request(c) /\ e.allowed = (funcClient \in loggedIn)
  BY DEF Taken, Request, Rpcs
<1>2. accepted \in Seq(Seq(Taken)) /\ c \in DOMAIN accepted /\ DOMAIN accepted = DOMAIN calls
  BY DEF HybridTypes
<1>3. accepted[c] \in Seq(Taken) /\ Len(accepted[c]) \in Nat
  BY <1>2
<1>4. /\ q \in Seq(Taken) /\ Len(q) = Len(accepted[c]) + 1 /\ DOMAIN q = 1 .. Len(accepted[c]) + 1
      /\ \A i \in 1 .. Len(accepted[c]) : q[i] = accepted[c][i]
      /\ q[Len(accepted[c]) + 1] = e
  <2> HIDE DEF e, Taken
  <2> QED
    BY <1>1, <1>3, AppendFacts
<1>5. accepted' = [accepted EXCEPT ![c] = q]
  BY DEF Take
<1>6. /\ accepted' \in Seq(Seq(Taken)) /\ Len(accepted') = Len(accepted) /\ accepted'[c] = q
      /\ \A d \in DOMAIN accepted \ {c} : accepted'[d] = accepted[d]
  <2> HIDE DEF q, Taken
  <2> QED
    BY <1>2, <1>4, <1>5, UpdateFacts
<1> QED
  <2> HIDE DEF q, e
  <2> QED
    BY <1>1, <1>2, <1>3, <1>4, <1>6

-----------------------------------------------------------------------------
(* Types of the hybrid pump.                                                 *)

LEMMA WriteDataFacts ==
  ASSUME HybridTypes, NEW payload \in Payload, WriteData(payload)
  PROVE  /\ UNCHANGED <<mode, rpcClient, funcClient, clients, connected, linked, loggedIn, hybrid>>
         /\ hybrid = "up" /\ calls[1].result = "nil"
         /\ \A c \in DOMAIN calls : Running(c) => calls[c].behind
         /\ Len(calls) \in Nat /\ DOMAIN calls = 1 .. Len(calls)
         /\ calls' \in Seq(CallRec) /\ Len(calls') = Len(calls) + 1
         /\ DOMAIN calls' = 1 .. Len(calls) + 1
         /\ \A c \in DOMAIN calls : calls'[c] = calls[c] /\ accepted'[c] = accepted[c]
         /\ accepted' \in Seq(Seq(Taken)) /\ Len(accepted') = Len(calls) + 1
         /\ \A c : c = Len(calls) + 1 =>
              /\ accepted'[c] = <<>> /\ ~calls'[c].behind
              /\ \/ /\ calls'[c].payload = {} /\ calls'[c].step = "returned"
                    /\ calls'[c].result = "nil"
                 \/ /\ calls'[c].payload # {} /\ calls'[c].step = "check"
                    /\ calls'[c].result = "none"
<1>1. /\ UNCHANGED <<mode, rpcClient, funcClient, clients, connected, linked, loggedIn, hybrid>>
      /\ hybrid = "up" /\ calls[1].result = "nil"
      /\ \A c \in DOMAIN calls : Running(c) => calls[c].behind
  BY DEF WriteData, CanWrite
<1>2. PICK e \in CallRec :
        /\ calls' = Append(calls, e) /\ ~e.behind
        /\ \/ e.payload = {} /\ e.step = "returned" /\ e.result = "nil"
           \/ e.payload # {} /\ e.step = "check" /\ e.result = "none"
  <2> DEFINE e == IF payload = {} THEN [Write({}) EXCEPT !.step = "returned", !.result = "nil"]
                                  ELSE Write(payload)
  <2>0. payload \subseteq RecordKinds /\ 0 \in 0 .. Retries
    BY HybridAssumption
  <2>1. e \in CallRec /\ ~e.behind
    <3>1. CASE payload = {}
      <4>1. e = [payload |-> {}, step |-> "returned", tries |-> 0, behind |-> FALSE, result |-> "nil"]
        BY <3>1 DEF Write
      <4> HIDE DEF e
      <4> QED
        BY <2>0, <4>1 DEF CallRec, Steps, Results
    <3>2. CASE payload # {}
      <4>1. e = [payload |-> payload, step |-> "check", tries |-> 0, behind |-> FALSE, result |-> "none"]
        BY <3>2 DEF Write
      <4> HIDE DEF e
      <4> QED
        BY <2>0, <4>1 DEF CallRec, Steps, Results
    <3> QED
      BY <3>1, <3>2
  <2>2. \/ e.payload = {} /\ e.step = "returned" /\ e.result = "nil"
        \/ e.payload # {} /\ e.step = "check" /\ e.result = "none"
    BY DEF Write
  <2>3. calls' = Append(calls, e)
    BY DEF WriteData
  <2> QED
    BY <2>1, <2>2, <2>3
<1>3. /\ calls \in Seq(CallRec) /\ Len(calls) \in Nat /\ DOMAIN calls = 1 .. Len(calls)
      /\ accepted \in Seq(Seq(Taken)) /\ Len(accepted) = Len(calls)
  BY DEF HybridTypes
<1>4. /\ calls' \in Seq(CallRec) /\ Len(calls') = Len(calls) + 1 /\ DOMAIN calls' = 1 .. Len(calls) + 1
      /\ \A c \in 1 .. Len(calls) : calls'[c] = calls[c]
      /\ calls'[Len(calls) + 1] = e
  <2> HIDE DEF CallRec
  <2> QED
    BY <1>2, <1>3, AppendFacts
<1>5. /\ accepted' \in Seq(Seq(Taken)) /\ Len(accepted') = Len(accepted) + 1
      /\ \A c \in 1 .. Len(accepted) : accepted'[c] = accepted[c]
      /\ accepted'[Len(accepted) + 1] = <<>>
  <2>1. <<>> \in Seq(Taken)
    OBVIOUS
  <2>2. accepted' = Append(accepted, <<>>)
    BY DEF WriteData
  <2> HIDE DEF Taken
  <2> QED
    BY <1>3, <2>1, <2>2, AppendFacts
<1> QED
  BY <1>1, <1>2, <1>3, <1>4, <1>5

LEMMA LeaveBehindFacts ==
  ASSUME HybridTypes, NEW c \in DOMAIN calls, LeaveBehind(c)
  PROVE  /\ UNCHANGED <<mode, rpcClient, funcClient, clients, connected, linked, loggedIn, accepted,
                        hybrid>>
         /\ calls' \in Seq(CallRec) /\ Len(calls') = Len(calls) /\ DOMAIN calls' = DOMAIN calls
         /\ \A d \in DOMAIN calls : /\ calls'[d].step = calls[d].step
                                    /\ calls'[d].result = calls[d].result
                                    /\ calls'[d].payload = calls[d].payload
         /\ calls'[c].behind
<1> DEFINE e == [calls[c] EXCEPT !.behind = TRUE]
<1>1. /\ e \in CallRec /\ e.step = calls[c].step /\ e.result = calls[c].result
      /\ e.payload = calls[c].payload /\ e.behind
  <2>1. calls[c] \in CallRec
    BY DEF HybridTypes
  <2> QED
    BY <2>1 DEF CallRec
<1>2. calls' = [calls EXCEPT ![c] = e] /\ calls \in Seq(CallRec)
  BY DEF LeaveBehind, HybridTypes
<1>3. /\ calls' \in Seq(CallRec) /\ Len(calls') = Len(calls) /\ DOMAIN calls' = DOMAIN calls
      /\ \A d \in DOMAIN calls \ {c} : calls'[d] = calls[d]
      /\ calls'[c] = e
  <2> HIDE DEF e, CallRec
  <2> QED
    BY <1>1, <1>2, UpdateFacts
<1> QED
  BY <1>1, <1>3 DEF LeaveBehind

LEMMA ClientFacts ==
  ASSUME HybridTypes
  PROVE  /\ clients \in Seq({"new", "started", "stopped"}) /\ Len(clients) \in Nat
         /\ DOMAIN clients = 1 .. Len(clients)
         /\ funcClient # 0 => funcClient \in DOMAIN clients
         /\ \A k \in DOMAIN clients, s \in {"new", "started", "stopped"} :
              /\ [clients EXCEPT ![k] = s] \in Seq({"new", "started", "stopped"})
              /\ Len([clients EXCEPT ![k] = s]) = Len(clients)
         /\ /\ Append(clients, "new") \in Seq({"new", "started", "stopped"})
            /\ Len(Append(clients, "new")) = Len(clients) + 1
            /\ Append(clients, "new")[Len(clients) + 1] = "new"
<1>1. /\ clients \in Seq({"new", "started", "stopped"}) /\ Len(clients) \in Nat
      /\ DOMAIN clients = 1 .. Len(clients) /\ funcClient \in 0 .. Len(clients)
  BY DEF HybridTypes
<1>2. ASSUME NEW k \in DOMAIN clients, NEW s \in {"new", "started", "stopped"}
      PROVE  /\ [clients EXCEPT ![k] = s] \in Seq({"new", "started", "stopped"})
             /\ Len([clients EXCEPT ![k] = s]) = Len(clients)
  BY <1>1, UpdateFacts
<1>3. /\ Append(clients, "new") \in Seq({"new", "started", "stopped"})
      /\ Len(Append(clients, "new")) = Len(clients) + 1
      /\ Append(clients, "new")[Len(clients) + 1] = "new"
  BY <1>1, AppendFacts
<1> QED
  BY <1>1, <1>2, <1>3

LEMMA HybridTypesStep ==
  ASSUME HybridTypes, CallsInv, [HybridNext]_hybridVars
  PROVE  HybridTypes'
<1>1. ASSUME NEW c \in DOMAIN calls, BeforeSend(c)
      PROVE  HybridTypes'
  <2>1. /\ UNCHANGED <<mode, accepted, hybrid>>
        /\ calls' \in Seq(CallRec) /\ Len(calls') = Len(calls) /\ DOMAIN calls' = DOMAIN calls
    BY <1>1, BeforeSendMoves DEF Moved
  <2>2. /\ clients' \in Seq({"new", "started", "stopped"}) /\ Len(clients) <= Len(clients')
        /\ Len(clients') \in Nat /\ rpcClient' \in 0 .. Len(clients')
    <3>1. CASE ConnectRPC(c)
      BY <3>1, ClientFacts DEF ConnectRPC
    <3>2. CASE StartClient(c)
      <4>1. rpcClient \in DOMAIN clients /\ rpcClient \in 0 .. Len(clients)
        BY <3>2, ClientFacts DEF StartClient, HybridTypes
      <4> QED
        BY <3>2, <4>1, ClientFacts DEF StartClient
    <3>3. CASE ~ConnectRPC(c) /\ ~StartClient(c)
      <4>1. clients' = clients /\ rpcClient' = rpcClient
        BY <1>1, <3>3
        DEF BeforeSend, startDispatcher, Ping, CheckConnected, LoginAccepted, LoginRefused, LoginFails
      <4> QED
        BY <4>1, ClientFacts DEF HybridTypes
    <3> QED
      BY <3>1, <3>2, <3>3
  <2>3. /\ funcClient' \in {funcClient, rpcClient} /\ UNCHANGED <<connected, linked>>
    BY <1>1
    DEF BeforeSend, ConnectRPC, StartClient, startDispatcher, Ping, CheckConnected, LoginAccepted,
        LoginRefused, LoginFails
  <2>4. loggedIn' \subseteq DOMAIN clients
    <3>1. CASE LoginAccepted(c)
      BY <3>1, ClientFacts DEF LoginAccepted, callRPCFn, Usable, HybridTypes
    <3>2. CASE ~LoginAccepted(c)
      BY <1>1, <3>2
      DEF BeforeSend, ConnectRPC, StartClient, startDispatcher, Ping, CheckConnected, LoginRefused,
          LoginFails, HybridTypes
    <3> QED
      BY <3>1, <3>2
  <2>5. DOMAIN clients \subseteq DOMAIN clients' /\ funcClient' \in 0 .. Len(clients')
    BY <2>2, <2>3, ClientFacts DEF HybridTypes
  <2> QED
    BY <2>1, <2>2, <2>3, <2>4, <2>5 DEF HybridTypes
<1>2. ASSUME NEW c \in DOMAIN calls, Send(c)
      PROVE  HybridTypes'
  <2>1. /\ UNCHANGED <<mode, rpcClient, funcClient, clients, connected, linked, loggedIn, hybrid>>
        /\ calls' \in Seq(CallRec) /\ Len(calls') = Len(calls) /\ DOMAIN calls' = DOMAIN calls
        /\ accepted' = accepted \/ Take(c)
        /\ calls[c].step \in {"send", "sendMCP"}
    BY <1>2, SendMoves DEF Moved
  <2>2. accepted' \in Seq(Seq(Taken)) /\ Len(accepted') = Len(accepted)
    BY <2>1, TakeFacts DEF HybridTypes
  <2> QED
    BY <2>1, <2>2 DEF HybridTypes
<1>3. ASSUME NEW payload \in Payload, WriteData(payload)
      PROVE  HybridTypes'
  BY <1>3, WriteDataFacts DEF HybridTypes
<1>4. ASSUME NEW c \in DOMAIN calls, LeaveBehind(c)
      PROVE  HybridTypes'
  BY <1>4, LeaveBehindFacts DEF HybridTypes
<1>5. CASE Shutdown
  <2>1. /\ clients' \in Seq({"new", "started", "stopped"}) /\ Len(clients') = Len(clients)
        /\ DOMAIN clients' = DOMAIN clients
    <3>1. CASE rpcClient \in DOMAIN clients
      BY <1>5, <3>1, ClientFacts DEF Shutdown
    <3>2. CASE rpcClient \notin DOMAIN clients
      <4>1. clients' = clients
        BY <1>5, <3>2, ClientFacts DEF Shutdown
      <4> QED
        BY <4>1, ClientFacts
    <3> QED
      BY <3>1, <3>2
  <2>2. 0 \in 0 .. Len(clients)
    BY ClientFacts
  <2> QED
    BY <1>5, <2>1, <2>2 DEF Shutdown, HybridTypes
<1>6. ASSUME NEW k \in DOMAIN clients, onConnectFunc(k)
      PROVE  HybridTypes'
  BY <1>6 DEF onConnectFunc, HybridTypes
<1>7. CASE Die
  BY <1>7 DEF Die, HybridTypes
<1>8. CASE UNCHANGED hybridVars
  BY <1>8 DEF hybridVars, HybridTypes
<1> QED
  BY <1>1, <1>2, <1>3, <1>4, <1>5, <1>6, <1>7, <1>8
  DEF HybridNext, BeforeSend, StartPanics, AggregatePanics, NilClientPanics

-----------------------------------------------------------------------------
(* What MDCB has of each call.                                               *)

LEMMA CallsInvStep ==
  ASSUME HybridTypes, CallsInv, [HybridNext]_hybridVars
  PROVE  CallsInv'
<1>0. 1 \in DOMAIN calls /\ calls[1].step \notin {"check", "login", "send", "sendMCP"}
      /\ Len(calls) \in Nat /\ DOMAIN calls = 1 .. Len(calls)
  BY DEF HybridTypes, CallsInv
<1>1. ASSUME NEW c \in DOMAIN calls, NEW s \in Steps, NEW r \in Results, Moved(c, s, r),
             c = 1 => s \notin {"check", "login", "send", "sendMCP"},
             r = "none" <=> s # "returned",
             calls[c].step # "returned"
      PROVE  CallsInv'
  <2>1. ASSUME NEW d \in DOMAIN calls
        PROVE  calls'[d].result = "none" <=> calls'[d].step # "returned"
    BY <1>1 DEF Moved, CallsInv, Running
  <2>2. c = 1 => Len(calls) = 1
    BY <1>0, <1>1 DEF CallsInv, Running
  <2> QED
    BY <1>0, <1>1, <2>1, <2>2 DEF Moved, CallsInv, Running
<1>2. ASSUME NEW c \in DOMAIN calls, BeforeSend(c)
      PROVE  CallsInv'
  <2>1. PICK s \in Steps \ {"sendMCP"}, r \in Results :
              /\ Moved(c, s, r)
              /\ c = 1 => s \notin {"check", "login", "send"}
              /\ r = "none" <=> s # "returned"
    BY <1>2, BeforeSendMoves
  <2>2. calls[c].step # "returned"
    BY <1>2, BeforeSendMoves
  <2> QED
    BY <1>1, <2>1, <2>2
<1>3. ASSUME NEW c \in DOMAIN calls, Send(c)
      PROVE  CallsInv'
  <2>1. /\ c # 1 /\ calls[c].step # "returned"
        /\ Moved(c, "returned", "error") \/ Moved(c, "sendMCP", "none") \/ Moved(c, "returned", "nil")
    BY <1>3, SendMoves
  <2> QED
    BY <1>1, <2>1 DEF Steps, Results
<1>4. ASSUME NEW payload \in Payload, WriteData(payload)
      PROVE  CallsInv'
  <2>1. ASSUME NEW d \in DOMAIN calls'
        PROVE  calls'[d].result = "none" <=> calls'[d].step # "returned"
    <3>1. CASE d \in DOMAIN calls
      BY <1>4, <3>1, WriteDataFacts DEF CallsInv, Running
    <3>2. CASE d = Len(calls) + 1
      BY <1>4, <3>2, WriteDataFacts
    <3> QED
      BY <1>0, <1>4, <3>1, <3>2, WriteDataFacts
  <2>2. calls'[1] = calls[1] /\ calls[1].result = "nil"
    BY <1>0, <1>4, WriteDataFacts
  <2> QED
    BY <2>1, <2>2 DEF CallsInv, Running
<1>5. ASSUME NEW c \in DOMAIN calls, LeaveBehind(c)
      PROVE  CallsInv'
  BY <1>0, <1>5, LeaveBehindFacts DEF CallsInv, Running
<1>6. CASE UNCHANGED calls
  BY <1>6 DEF CallsInv, Running
<1>7. CASE Shutdown \/ (\E k \in DOMAIN clients : onConnectFunc(k)) \/ Die \/ UNCHANGED hybridVars
  BY <1>6, <1>7 DEF Shutdown, onConnectFunc, Die, hybridVars
<1> QED
  BY <1>2, <1>3, <1>4, <1>5, <1>7
  DEF HybridNext, BeforeSend, StartPanics, AggregatePanics, NilClientPanics

LEMMA ProgressStep ==
  ASSUME HybridTypes, CallsInv, ProgressInv, [HybridNext]_hybridVars
  PROVE  ProgressInv'
<1> DEFINE Fits(c) ==
      /\ Len(accepted[c]) <= DueLen(c)
      /\ \A i \in 1 .. Len(accepted[c]) : accepted[c][i].rpc = DueAt(i)
      /\ calls[c].step \notin {"sendMCP", "returned"} => Len(accepted[c]) = 0
      /\ calls[c].step = "send" => DueLen(c) > 0
      /\ calls[c].step = "sendMCP" => Len(accepted[c]) = 1 /\ DueLen(c) = 2
      /\ Running(c) /\ c # 1 => DueLen(c) > 0
      /\ calls[c].result = "nil" => Len(accepted[c]) = DueLen(c)
<1>0. /\ \A c \in DOMAIN calls : Fits(c)
      /\ Len(calls) \in Nat /\ DOMAIN calls = 1 .. Len(calls)
  BY DEF ProgressInv, HybridTypes
<1>1. ASSUME NEW c \in DOMAIN calls, NEW d \in DOMAIN calls, mode' = mode,
             accepted'[d] = accepted[d], calls'[d].payload = calls[d].payload,
             calls'[d].step = calls[d].step, calls'[d].result = calls[d].result
      PROVE  Fits(d)'
  BY <1>0, <1>1 DEF DueLen, DueAt, HasMCP, Running
<1>2. ASSUME NEW c \in DOMAIN calls, BeforeSend(c)
      PROVE  ProgressInv'
  <2>1. PICK s \in Steps \ {"sendMCP"}, r \in Results :
              /\ Moved(c, s, r)
              /\ c = 1 => s \notin {"check", "login", "send"}
              /\ r = "none" <=> s # "returned"
              /\ r = "nil" => c = 1
    BY <1>2, BeforeSendMoves
  <2>2. UNCHANGED <<mode, accepted>> /\ calls[c].step \notin {"send", "sendMCP", "returned"}
    BY <1>2, BeforeSendMoves
  <2>3. Fits(c)'
    <3>1. Len(accepted[c]) = 0 /\ (c # 1 => DueLen(c) > 0) /\ DueLen(c)' = DueLen(c)
      BY <1>0, <2>1, <2>2 DEF Running, Moved, DueLen, HasMCP
    <3>2. c = 1 => DueLen(c) = 0
      BY DEF CallsInv, DueLen
    <3>3. DueLen(c) \in {0, 1, 2}
      BY DEF DueLen
    <3> QED
      BY <2>1, <2>2, <3>1, <3>2, <3>3 DEF Moved, Running
  <2>4. ASSUME NEW d \in DOMAIN calls, d # c
        PROVE  Fits(d)'
    BY <1>1, <2>1, <2>2, <2>4 DEF Moved
  <2> QED
    BY <2>1, <2>3, <2>4 DEF ProgressInv, Moved
<1>3. ASSUME NEW c \in DOMAIN calls, Send(c)
      PROVE  ProgressInv'
  <2>1. /\ mode' = mode /\ calls[c].step \in {"send", "sendMCP"} /\ c # 1
        /\ calls'[c].payload = calls[c].payload
        /\ DOMAIN calls' = DOMAIN calls /\ \A d \in DOMAIN calls \ {c} : calls'[d] = calls[d]
    BY <1>3, SendMoves DEF Moved
  <2>2. DueLen(c)' = DueLen(c) /\ \A i : DueAt(i)' = DueAt(i)
    BY <2>1 DEF DueLen, DueAt, HasMCP
  <2>3. ASSUME NEW d \in DOMAIN calls, d # c
        PROVE  Fits(d)'
    <3>1. accepted'[d] = accepted[d]
      BY <1>3, <2>1, <2>3, SendMoves, TakeFacts
    <3> QED
      BY <1>1, <2>1, <2>3, <3>1
  <2>4. CASE accepted' = accepted /\ Moved(c, "returned", "error")
    <3>1. Fits(c)'
      BY <1>0, <2>2, <2>4 DEF Moved, Running
    <3> QED
      BY <2>1, <2>3, <3>1 DEF ProgressInv
  <2>5. CASE Take(c)
    <3>1. /\ Len(accepted[c]) \in Nat /\ Len(accepted'[c]) = Len(accepted[c]) + 1
          /\ \A i \in 1 .. Len(accepted[c]) : accepted'[c][i] = accepted[c][i]
          /\ accepted'[c][Len(accepted[c]) + 1].rpc = Request(c)
      BY <2>1, <2>5, TakeFacts
    <3>2. /\ calls[c].step = "send" => Len(accepted[c]) = 0 /\ DueLen(c) > 0
          /\ calls[c].step = "sendMCP" => Len(accepted[c]) = 1 /\ DueLen(c) = 2
          /\ DueLen(c) \in {0, 1, 2}
      BY <1>0, <2>1 DEF DueLen
    <3>3. Request(c) = DueAt(Len(accepted[c]) + 1)
      <4>1. CASE calls[c].step = "send"
        BY <3>2, <4>1 DEF Request, DueAt
      <4>2. CASE calls[c].step = "sendMCP"
        <5>1. mode = "mcp"
          BY <3>2, <4>2 DEF DueLen
        <5>2. Len(accepted[c]) = 1
          BY <3>2, <4>2
        <5>3. Len(accepted[c]) + 1 = 2
          BY <5>2
        <5> QED
          BY <4>2, <5>1, <5>3 DEF Request, DueAt
      <4> QED
        BY <2>1, <4>1, <4>2
    <3>4. ASSUME NEW i \in 1 .. Len(accepted'[c])
          PROVE  accepted'[c][i].rpc = DueAt(i)
      <4>1. CASE i \in 1 .. Len(accepted[c])
        BY <1>0, <3>1, <4>1
      <4>2. CASE i = Len(accepted[c]) + 1
        BY <3>1, <3>3, <4>2
      <4> QED
        BY <3>1, <4>1, <4>2
    <3>5. Len(accepted'[c]) <= DueLen(c) /\ Len(accepted'[c]) \in Nat
      BY <2>1, <3>1, <3>2
    <3>6. /\ calls'[c].step \in {"returned", "sendMCP"}
          /\ calls'[c].step = "sendMCP" => Len(accepted'[c]) = 1 /\ DueLen(c) = 2
          /\ calls'[c].result = "nil" => Len(accepted'[c]) = DueLen(c)
      <4>1. CASE Moved(c, "returned", "error")
        BY <4>1 DEF Moved
      <4>2. CASE /\ Moved(c, "sendMCP", "none")
                 /\ calls[c].step = "send" /\ mode = "mcp" /\ HasMCP(c)
        BY <3>1, <3>2, <4>2 DEF Moved, DueLen
      <4>3. CASE /\ Moved(c, "returned", "nil")
                 /\ ~(calls[c].step = "send" /\ mode = "mcp" /\ HasMCP(c))
        <5>1. CASE calls[c].step = "send"
          <6>1. DueLen(c) = 1
            BY <3>2, <4>3, <5>1 DEF DueLen
          <6> QED
            BY <3>1, <3>2, <4>3, <5>1, <6>1 DEF Moved
        <5>2. CASE calls[c].step = "sendMCP"
          <6>1. Len(accepted[c]) = 1 /\ DueLen(c) = 2
            BY <3>2, <5>2
          <6>2. Len(accepted'[c]) = 2
            BY <3>1, <6>1
          <6> QED
            BY <4>3, <6>1, <6>2 DEF Moved
        <5> QED
          BY <2>1, <5>1, <5>2
      <4>4. CASE accepted' = accepted
        BY <3>1, <4>4
      <4> QED
        BY <1>3, <4>1, <4>2, <4>3, <4>4, SendMoves
    <3>7. Fits(c)'
      BY <2>1, <2>2, <3>2, <3>4, <3>5, <3>6 DEF Running
    <3> QED
      BY <2>1, <2>3, <3>7 DEF ProgressInv
  <2> QED
    BY <1>3, <2>4, <2>5, SendMoves
<1>4. ASSUME NEW payload \in Payload, WriteData(payload)
      PROVE  ProgressInv'
  <2>1. mode' = mode /\ DOMAIN calls' = 1 .. Len(calls) + 1
    BY <1>4, WriteDataFacts
  <2>2. ASSUME NEW d \in DOMAIN calls
        PROVE  Fits(d)'
    BY <1>1, <1>4, <2>2, WriteDataFacts
  <2>3. ASSUME NEW d, d = Len(calls) + 1
        PROVE  Fits(d)'
    <3>1. accepted'[d] = <<>> /\ Len(accepted'[d]) = 0 /\ 1 .. Len(accepted'[d]) = {}
      BY <1>4, <2>3, WriteDataFacts
    <3>2. \/ /\ calls'[d].payload = {} /\ calls'[d].step = "returned" /\ calls'[d].result = "nil"
          \/ /\ calls'[d].payload # {} /\ calls'[d].step = "check" /\ calls'[d].result = "none"
      BY <1>4, <2>3, WriteDataFacts
    <3>3. /\ calls'[d].payload = {} => DueLen(d)' = 0
          /\ calls'[d].payload # {} => DueLen(d)' \in {1, 2}
      BY DEF DueLen
    <3> QED
      BY <3>1, <3>2, <3>3 DEF Running
  <2>4. \A d \in DOMAIN calls' : d \in DOMAIN calls \/ d = Len(calls) + 1
    BY <1>0, <2>1
  <2> QED
    BY <2>2, <2>3, <2>4 DEF ProgressInv
<1>5. ASSUME NEW c \in DOMAIN calls, LeaveBehind(c)
      PROVE  ProgressInv'
  BY <1>1, <1>5, LeaveBehindFacts DEF ProgressInv
<1>6. CASE UNCHANGED <<mode, calls, accepted>>
  BY <1>1, <1>6 DEF ProgressInv
<1>7. CASE Shutdown \/ (\E k \in DOMAIN clients : onConnectFunc(k)) \/ Die \/ UNCHANGED hybridVars
  BY <1>6, <1>7 DEF Shutdown, onConnectFunc, Die, hybridVars
<1> QED
  BY <1>2, <1>3, <1>4, <1>5, <1>7
  DEF HybridNext, BeforeSend, StartPanics, AggregatePanics, NilClientPanics

-----------------------------------------------------------------------------
(* No call left behind.                                                      *)

LEMMA OverlapStays ==
  ASSUME HybridTypes, CallsInv, [HybridNext]_hybridVars, ~Overlap'
  PROVE  ~Overlap
<1>1. ASSUME NEW c \in DOMAIN calls, BeforeSend(c) \/ Send(c)
      PROVE  ~Overlap
  <2>1. /\ \A d \in DOMAIN calls \ {c} : calls'[d] = calls[d]
        /\ calls'[c].behind = calls[c].behind /\ DOMAIN calls' = DOMAIN calls
    BY <1>1, BeforeSendMoves, SendMoves DEF Moved
  <2> QED
    BY <2>1 DEF Overlap
<1>2. ASSUME NEW payload \in Payload, WriteData(payload)
      PROVE  ~Overlap
  <2>1. \A d \in DOMAIN calls : d \in DOMAIN calls' /\ calls'[d] = calls[d]
    BY <1>2, WriteDataFacts
  <2>2. \A d \in DOMAIN calls' : ~calls'[d].behind
    BY DEF Overlap
  <2>3. \A d \in DOMAIN calls : ~calls[d].behind
    BY <2>1, <2>2
  <2> QED
    BY <2>3 DEF Overlap
<1>3. ASSUME NEW c \in DOMAIN calls, LeaveBehind(c)
      PROVE  FALSE
  BY <1>3, LeaveBehindFacts DEF Overlap
<1>4. CASE Shutdown \/ (\E k \in DOMAIN clients : onConnectFunc(k)) \/ Die \/ UNCHANGED hybridVars
  BY <1>4 DEF Shutdown, onConnectFunc, Die, hybridVars, Overlap
<1> QED
  BY <1>1, <1>2, <1>3, <1>4
  DEF HybridNext, BeforeSend, StartPanics, AggregatePanics, NilClientPanics

(* The fields of the pump are as call c, at a step, needs them.              *)
Ready(step) ==
  /\ step = "start" => rpcClient # 0 /\ clients[rpcClient] = "new"
  /\ step = "dispatch" => rpcClient # 0
  /\ step \in {"ping", "recheck", "relogin"} => funcClient # 0
  /\ step \in {"send", "sendMCP"} => funcClient \in loggedIn

(* The one call that runs takes a step that leaves the fields as it needs    *)
(* them.                                                                     *)
LEMMA AloneMoves ==
  ASSUME HybridTypes, CallsInv, AloneInv, ~Overlap, hybrid = "up", hybrid' = "up",
         NEW c \in DOMAIN calls, Running(c), NEW s \in Steps, NEW r \in Results,
         Moved(c, s, r), Ready(s)',
         funcClient # 0 => funcClient' # 0,
         c = 1 /\ r = "nil" => funcClient' # 0,
         \A d \in DOMAIN calls : \A i \in DOMAIN accepted'[d] : accepted'[d][i].allowed
  PROVE  AloneInv'
<1>1. \A d \in DOMAIN calls : d # c => calls[d].step = "returned" /\ calls'[d].step = "returned"
  BY DEF AloneInv, Running, Moved
<1>2. \A d \in DOMAIN calls' : d # c => calls'[d].step = "returned"
  BY <1>1 DEF Moved
<1>3. \A d, e \in DOMAIN calls' : calls'[d].step # "returned" /\ calls'[e].step # "returned" => d = e
  BY <1>2
<1>4. calls'[1].result = "nil" => funcClient' # 0
  <2>1. CASE c = 1
    BY <2>1 DEF Moved
  <2>2. CASE c # 1
    BY <2>2 DEF Moved, AloneInv, HybridTypes
  <2> QED
    BY <2>1, <2>2
<1>5. ASSUME NEW d \in DOMAIN calls'
      PROVE  /\ calls'[d].step = "start" => rpcClient' # 0 /\ clients'[rpcClient'] = "new"
             /\ calls'[d].step = "dispatch" => rpcClient' # 0
             /\ calls'[d].step \in {"ping", "recheck", "relogin"} => funcClient' # 0
             /\ calls'[d].step \in {"send", "sendMCP"} => funcClient' \in loggedIn'
  <2>1. CASE d = c
    BY <2>1 DEF Moved, Ready
  <2>2. CASE d # c
    BY <1>2, <2>2
  <2> QED
    BY <2>1, <2>2
<1>6. \A d \in DOMAIN calls' : \A i \in DOMAIN accepted'[d] : accepted'[d][i].allowed
  BY DEF Moved
<1> QED
  BY <1>3, <1>4, <1>5, <1>6 DEF AloneInv, Running

LEMMA AloneBeforeSend ==
  ASSUME HybridTypes, CallsInv, AloneInv, ~Overlap, hybrid = "up", NEW c \in DOMAIN calls, BeforeSend(c)
  PROVE  AloneInv'
<1>1. /\ accepted' = accepted /\ hybrid' = "up" /\ Running(c) /\ calls[c].result = "none"
  BY BeforeSendMoves DEF Running, CallsInv
<1>2. \A d \in DOMAIN calls : \A i \in DOMAIN accepted'[d] : accepted'[d][i].allowed
  BY <1>1 DEF AloneInv
<1>3. /\ calls[c].step = "start" => rpcClient # 0 /\ clients[rpcClient] = "new"
      /\ calls[c].step = "dispatch" => rpcClient # 0
      /\ calls[c].step \in {"ping", "recheck", "relogin"} => funcClient # 0
  BY DEF AloneInv
<1>4. ASSUME NEW s \in Steps, NEW r \in Results, Moved(c, s, r), Ready(s)',
             funcClient # 0 => funcClient' # 0, c = 1 /\ r = "nil" => funcClient' # 0
      PROVE  AloneInv'
  BY <1>1, <1>2, <1>4, AloneMoves
<1>5. CASE ConnectRPC(c)
  <2>1. Moved(c, "start", "none") /\ funcClient' = funcClient
    BY <1>1, <1>5, StepMoves DEF ConnectRPC, Steps
  <2>2. rpcClient' # 0 /\ clients'[rpcClient'] = "new"
    BY <1>5, ClientFacts DEF ConnectRPC
  <2>3. Ready("start")'
    BY <2>2 DEF Ready
  <2> QED
    BY <1>4, <2>1, <2>3 DEF Steps, Results
<1>6. CASE StartClient(c)
  <2>1. Moved(c, "dispatch", "none") /\ UNCHANGED <<rpcClient, funcClient>> /\ rpcClient # 0
    BY <1>1, <1>6, StepMoves DEF StartClient, Steps
  <2>2. Ready("dispatch")'
    BY <2>1 DEF Ready
  <2> QED
    BY <1>4, <2>1, <2>2 DEF Steps, Results
<1>7. CASE startDispatcher(c)
  <2>1. Moved(c, "ping", "none") /\ funcClient' = rpcClient /\ rpcClient # 0
    BY <1>1, <1>3, <1>7, StepMoves DEF startDispatcher, Steps
  <2>2. Ready("ping")'
    BY <2>1 DEF Ready
  <2> QED
    BY <1>4, <2>1, <2>2 DEF Steps, Results
<1>8. ASSUME funcClient' = funcClient, funcClient # 0 \/ calls[c].step = "check",
             \/ Moved(c, "connect", "none") \/ Moved(c, "login", "none")
             \/ calls[c].step # "check" /\ Moved(c, "recheck", "none")
             \/ calls[c].step # "check" /\ Moved(c, "relogin", "none")
             \/ Moved(c, "returned", "error")
             \/ calls[c].step # "check" /\ Moved(c, "returned", "nil")
             \/ funcClient \in loggedIn' /\ Moved(c, "send", "none")
      PROVE  AloneInv'
  <2>1. Ready("connect")' /\ Ready("login")' /\ Ready("returned")'
    BY DEF Ready
  <2>2. calls[c].step # "check" => Ready("recheck")' /\ Ready("relogin")'
    BY <1>8 DEF Ready
  <2>3. funcClient \in loggedIn' => Ready("send")'
    BY <1>8 DEF Ready
  <2> QED
    BY <1>4, <1>8, <2>1, <2>2, <2>3 DEF Steps, Results
<1>9. ASSUME Fails(c, "connect") \/ Fails(c, "recheck")
      PROVE  \/ Moved(c, "returned", "error") \/ Moved(c, "connect", "none")
             \/ Moved(c, "recheck", "none")
  BY <1>1, <1>9, FailsMoves DEF Steps
<1>10. CASE Ping(c)
  <2>1. funcClient' = funcClient /\ calls[c].step = "ping" /\ funcClient # 0
    BY <1>10, <1>3 DEF Ping
  <2>2. Goto(c, "recheck") \/ Fails(c, "connect")
    BY <1>10 DEF Ping
  <2>3. Goto(c, "recheck") => Moved(c, "recheck", "none")
    BY <1>1, StepMoves DEF Steps
  <2> QED
    BY <1>8, <1>9, <2>1, <2>2, <2>3
<1>11. CASE CheckConnected(c)
  <2>1. funcClient' = funcClient
    BY <1>11 DEF CheckConnected
  <2>2. CASE calls[c].step = "check"
    <3>1. Moved(c, "login", "none") \/ Moved(c, "connect", "none")
      BY <1>1, <1>11, <2>2, StepMoves DEF CheckConnected, Steps
    <3> QED
      BY <1>8, <2>1, <2>2, <3>1
  <2>3. CASE calls[c].step # "check"
    <3>1. calls[c].step = "recheck" /\ funcClient # 0
      BY <1>3, <1>11, <2>3 DEF CheckConnected
    <3>2. Moved(c, "relogin", "none") \/ Fails(c, "recheck")
      BY <1>1, <1>11, <2>3, StepMoves DEF CheckConnected, Steps
    <3> QED
      BY <1>8, <1>9, <2>1, <2>3, <3>1, <3>2
  <2> QED
    BY <2>2, <2>3
<1>12. CASE LoginAccepted(c)
  <2>1. /\ funcClient' = funcClient /\ funcClient # 0 /\ funcClient \in loggedIn'
        /\ calls[c].step # "check"
    BY <1>12 DEF LoginAccepted, callRPCFn, Usable
  <2>2. Moved(c, "returned", "nil") \/ Moved(c, "send", "none")
    BY <1>1, <1>12, FinishMoves, StepMoves DEF LoginAccepted, AfterLogin, Steps, Results
  <2> QED
    BY <1>8, <2>1, <2>2
<1>13. CASE LoginRefused(c) \/ LoginFails(c)
  <2>1. funcClient' = funcClient /\ funcClient # 0 /\ calls[c].step # "check"
    BY <1>13 DEF LoginRefused, LoginFails, callRPCFnFails, Usable
  <2>2. Finish(c, "error") \/ Goto(c, "connect") \/ Fails(c, "recheck")
    BY <1>13 DEF LoginRefused, LoginFails
  <2>3. /\ Finish(c, "error") => Moved(c, "returned", "error")
        /\ Goto(c, "connect") => Moved(c, "connect", "none")
    BY <1>1, FinishMoves, StepMoves DEF Steps, Results
  <2> QED
    BY <1>8, <1>9, <2>1, <2>2, <2>3
<1> QED
  BY <1>5, <1>6, <1>7, <1>10, <1>11, <1>12, <1>13 DEF BeforeSend

LEMMA AloneSend ==
  ASSUME HybridTypes, CallsInv, AloneInv, ~Overlap, hybrid = "up", NEW c \in DOMAIN calls, Send(c)
  PROVE  AloneInv'
<1>1. /\ UNCHANGED <<rpcClient, funcClient, clients, loggedIn, hybrid>>
      /\ calls[c].step \in {"send", "sendMCP"} /\ c # 1 /\ Running(c)
      /\ accepted' = accepted \/ Take(c)
      /\ \/ Moved(c, "returned", "error") \/ Moved(c, "sendMCP", "none")
         \/ Moved(c, "returned", "nil")
  BY SendMoves DEF Running
<1>2. funcClient \in loggedIn
  BY <1>1 DEF AloneInv
<1>3. Ready("returned")' /\ Ready("sendMCP")'
  BY <1>1, <1>2 DEF Ready
<1>4. ASSUME NEW d \in DOMAIN calls, NEW i \in DOMAIN accepted'[d]
      PROVE  accepted'[d][i].allowed
  <2>1. CASE accepted'[d] = accepted[d]
    BY <1>4, <2>1 DEF AloneInv
  <2>2. CASE d = c /\ Take(c)
    <3>1. /\ Len(accepted[c]) \in Nat
          /\ i \in 1 .. Len(accepted[c]) + 1
          /\ \A n \in 1 .. Len(accepted[c]) : accepted'[c][n] = accepted[c][n]
          /\ accepted'[c][Len(accepted[c]) + 1].allowed
      BY <1>1, <1>2, <1>4, <2>2, TakeFacts
    <3>2. DOMAIN accepted[c] = 1 .. Len(accepted[c])
      BY DEF HybridTypes
    <3>3. CASE i \in 1 .. Len(accepted[c])
      BY <2>2, <3>1, <3>2, <3>3 DEF AloneInv
    <3>4. CASE i = Len(accepted[c]) + 1
      BY <2>2, <3>1, <3>4
    <3> QED
      BY <3>1, <3>3, <3>4
  <2> QED
    BY <1>1, <2>1, <2>2, TakeFacts
<1> QED
  BY <1>1, <1>3, <1>4, AloneMoves DEF Steps, Results

LEMMA AloneStep ==
  ASSUME HybridTypes, CallsInv, AloneInv, [HybridNext]_hybridVars
  PROVE  AloneInv'
<1> SUFFICES ASSUME ~Overlap'
             PROVE  AloneInv'
  BY DEF AloneInv
<1>0. ~Overlap
  BY OverlapStays
<1>1. CASE UNCHANGED hybridVars
  BY <1>1 DEF hybridVars, AloneInv, Running, Overlap, Aggregates
<1>2. ASSUME HybridNext
      PROVE  hybrid = "up" \/ (hybrid = "shut" /\ \A c \in DOMAIN calls : calls[c].step = "returned")
  BY <1>0, <1>2 DEF HybridNext, AloneInv, Running, HybridTypes
<1>3. ASSUME HybridNext, NEW c \in DOMAIN calls, calls[c].step # "returned"
      PROVE  hybrid = "up"
  BY <1>2, <1>3
<1>4. ASSUME HybridNext, NEW c \in DOMAIN calls, BeforeSend(c) \/ Send(c)
      PROVE  AloneInv'
  <2>1. calls[c].step # "returned"
    BY <1>4, BeforeSendMoves, SendMoves
  <2> QED
    BY <1>0, <1>3, <1>4, <2>1, AloneBeforeSend, AloneSend
<1>5. ASSUME NEW payload \in Payload, WriteData(payload)
      PROVE  AloneInv'
  <2>1. \A c \in DOMAIN calls : calls[c].step = "returned"
    BY <1>0, <1>5, WriteDataFacts DEF Overlap, Running
  <2>2. /\ hybrid = "up" /\ calls[1].result = "nil"
        /\ UNCHANGED <<rpcClient, funcClient, clients, loggedIn, hybrid>>
        /\ Len(calls) \in Nat /\ DOMAIN calls = 1 .. Len(calls) /\ DOMAIN calls' = 1 .. Len(calls) + 1
        /\ \A c \in DOMAIN calls : calls'[c] = calls[c] /\ accepted'[c] = accepted[c]
    BY <1>5, WriteDataFacts
  <2>3. \A c : c = Len(calls) + 1 => /\ calls'[c].step \in {"check", "returned"}
                                     /\ accepted'[c] = <<>>
    BY <1>5, WriteDataFacts
  <2>4. \A c \in DOMAIN calls' : /\ c \in DOMAIN calls => calls'[c].step = "returned"
                                 /\ c \notin DOMAIN calls => c = Len(calls) + 1
    BY <2>1, <2>2
  <2>5. \A c \in DOMAIN calls' : calls'[c].step \in {"check", "returned"}
    BY <2>3, <2>4
  <2>6. \A c, d \in DOMAIN calls' : calls'[c].step # "returned" /\ calls'[d].step # "returned" => c = d
    BY <2>4
  <2>7. ASSUME NEW c \in DOMAIN calls', NEW i \in DOMAIN accepted'[c]
        PROVE  accepted'[c][i].allowed
    <3>1. CASE c \in DOMAIN calls
      BY <1>0, <2>2, <2>7, <3>1 DEF AloneInv
    <3>2. CASE c = Len(calls) + 1
      <4>1. DOMAIN accepted'[c] = {}
        BY <2>3, <3>2
      <4> QED
        BY <2>7, <4>1
    <3> QED
      BY <2>4, <3>1, <3>2
  <2>8. funcClient' # 0
    BY <1>0, <2>2 DEF AloneInv
  <2> QED
    BY <2>2, <2>5, <2>6, <2>7, <2>8 DEF AloneInv, Running
<1>6. CASE Shutdown
  <2>1. \A c \in DOMAIN calls : calls[c].step = "returned"
    BY <1>0, <1>6 DEF Shutdown, CanWrite, Overlap, Running
  <2>2. UNCHANGED <<calls, accepted>> /\ hybrid' = "shut"
    BY <1>6 DEF Shutdown
  <2> QED
    BY <1>0, <2>1, <2>2 DEF AloneInv, Running
<1>7. ASSUME NEW k \in DOMAIN clients, onConnectFunc(k)
      PROVE  AloneInv'
  BY <1>0, <1>7 DEF onConnectFunc, AloneInv, Running, Aggregates
<1>8. ASSUME HybridNext, NEW c \in DOMAIN calls, StartPanics(c) \/ NilClientPanics(c)
      PROVE  FALSE
  <2>1. hybrid = "up"
    BY <1>3, <1>8 DEF StartPanics, NilClientPanics
  <2>2. CASE StartPanics(c)
    BY <1>0, <2>1, <2>2 DEF StartPanics, AloneInv
  <2>3. CASE NilClientPanics(c)
    <3>1. funcClient = 0 /\ calls[c].step \in {"login", "send", "sendMCP"}
      BY <1>0, <2>1, <2>3 DEF NilClientPanics, AloneInv
    <3>2. c # 1
      BY <3>1 DEF CallsInv
    <3>3. Len(calls) > 1
      BY <3>2 DEF HybridTypes
    <3> QED
      BY <1>0, <2>1, <3>1, <3>3 DEF CallsInv, AloneInv
  <2> QED
    BY <1>8, <2>2, <2>3
<1>9. ASSUME HybridNext, NEW c \in DOMAIN calls, AggregatePanics(c)
      PROVE  AloneInv'
  <2>1. /\ hybrid' = "dead" /\ calls[c].step \in {"send", "sendMCP"} /\ ~Aggregates(c)
        /\ UNCHANGED <<mode, calls, accepted>>
    BY <1>9 DEF AggregatePanics, Die, Aggregates
  <2> QED
    BY <1>0, <2>1 DEF AloneInv, Running, Aggregates
<1>10. ASSUME NEW c \in DOMAIN calls, LeaveBehind(c)
       PROVE  FALSE
  BY <1>10, LeaveBehindFacts DEF Overlap
<1> QED
  BY <1>1, <1>4, <1>5, <1>6, <1>7, <1>8, <1>9, <1>10 DEF HybridNext, BeforeSend

-----------------------------------------------------------------------------
(* The theorems about the hybrid pump.                                       *)

(* The invariant of the hybrid pump: a call that has not come to its request *)
(* has nothing taken by MDCB, one between its requests has the first taken,  *)
(* and, with no call left behind, the fields hold the client that the one    *)
(* call that runs has made and logged in.                                    *)
THEOREM HybridInductive == HybridSpec => []HybridInv
<1>1. ASSUME HybridInit
      PROVE  HybridInv
  <2>1. InitCall = [payload |-> {}, step |-> "connect", tries |-> 0, behind |-> FALSE,
                    result |-> "none"]
    <3>1. Write({}) = [payload |-> {}, step |-> "check", tries |-> 0, behind |-> FALSE,
                       result |-> "none"]
      BY Zenon DEF Write
    <3>2. InitCall = [Write({}) EXCEPT !.step = "connect"]
      BY Zenon DEF InitCall
    <3>3. InitCall = [[payload |-> {}, step |-> "check", tries |-> 0, behind |-> FALSE,
                       result |-> "none"] EXCEPT !.step = "connect"]
      BY Zenon, <3>1, <3>2
    <3> QED
      BY <3>3
  <2>2. InitCall \in CallRec
    BY <2>1, HybridAssumption DEF CallRec, Steps, Results
  <2>3. /\ calls \in Seq(CallRec) /\ Len(calls) = 1 /\ DOMAIN calls = {1} /\ calls[1] = InitCall
        /\ accepted \in Seq(Seq(Taken)) /\ Len(accepted) = 1 /\ accepted[1] = <<>>
    BY <1>1, <2>2 DEF HybridInit
  <2>4. HybridTypes
    <3>1. clients = <<>> /\ Len(clients) = 0 /\ linked = {} /\ loggedIn = {} /\ lost = 0
      BY <1>1 DEF HybridInit
    <3>2. 1 \in DOMAIN calls /\ Len(accepted) = Len(calls) /\ clients \in Seq({"new", "started", "stopped"})
      BY <2>3, <3>1
    <3>3. rpcClient \in 0 .. Len(clients) /\ funcClient \in 0 .. Len(clients)
      BY <1>1, <3>1 DEF HybridInit
    <3> QED
      BY <1>1, <2>3, <3>1, <3>2, <3>3 DEF HybridInit, HybridTypes
  <2>5. CallsInv
    BY <2>1, <2>3 DEF CallsInv, Running
  <2>6. ProgressInv
    BY <2>1, <2>3 DEF ProgressInv, DueLen, Running
  <2>7. AloneInv
    BY <1>1, <2>1, <2>3 DEF AloneInv, HybridInit, Running
  <2> QED
    BY <2>4, <2>5, <2>6, <2>7 DEF HybridInv
<1>2. HybridInv /\ [HybridNext]_hybridVars => HybridInv'
  BY HybridTypesStep, CallsInvStep, ProgressStep, AloneStep DEF HybridInv
<1> QED
  BY <1>1, <1>2, PTL DEF HybridSpec

LEMMA DueFacts ==
  ASSUME HybridTypes, NEW c \in DOMAIN calls
  PROVE  /\ Due(c) \in Seq(Rpcs) /\ Len(Due(c)) = DueLen(c)
         /\ \A i \in 1 .. DueLen(c) : Due(c)[i] = DueAt(i)
<1>1. Due(c) \in Seq(Rpcs)
  <2>1. CASE calls[c].payload = {}
    BY <2>1 DEF Due
  <2>2. CASE calls[c].payload # {} /\ mode = "raw"
    <3>1. Due(c) = <<"PurgeAnalyticsData">>
      BY <2>2 DEF Due
    <3> QED
      BY <3>1 DEF Rpcs
  <2>3. CASE calls[c].payload # {} /\ mode # "raw"
    <3> DEFINE first  == <<"PurgeAnalyticsDataAggregated">>
               second == IF mode = "mcp" /\ HasMCP(c)
                         THEN <<"PurgeAnalyticsDataMCPAggregated">> ELSE <<>>
    <3>0. second = <<"PurgeAnalyticsDataMCPAggregated">> \/ second = <<>>
      BY Zenon
    <3>1. first \in Seq(Rpcs) /\ second \in Seq(Rpcs)
      <4>1. <<"PurgeAnalyticsDataMCPAggregated">> \in Seq(Rpcs) /\ <<>> \in Seq(Rpcs)
        BY DEF Rpcs
      <4>2. first \in Seq(Rpcs)
        BY DEF Rpcs
      <4> HIDE DEF first, second
      <4> QED
        BY <3>0, <4>1, <4>2
    <3>2. Due(c) = first \o second
      BY <2>3 DEF Due
    <3> HIDE DEF first, second
    <3> QED
      BY <3>1, <3>2
  <2> QED
    BY <2>1, <2>2, <2>3
<1>2. Len(Due(c)) = DueLen(c) /\ \A i \in 1 .. DueLen(c) : Due(c)[i] = DueAt(i)
  BY DEF Due, DueLen, DueAt
<1> QED
  BY <1>1, <1>2

(* WriteData returns nil exactly when MDCB has every request of the slice,   *)
(* the records' aggregates before those of the MCP records; a call that      *)
(* failed or is going on left a beginning of that, each request once,        *)
(* whatever was refused, lost or replaced by another call.                   *)
THEOREM HonestToMDCB == HybridSpec => []HybridHonest
<1>1. ASSUME HybridInv
      PROVE  HybridHonest
  <2> USE <1>1 DEF HybridInv
  <2>1. HybridTypeOK
    <3>1. \A c \in DOMAIN calls : calls[c] \in CallRec
      BY DEF HybridTypes
    <3>2. \A c \in DOMAIN calls : accepted[c] \in Seq(Taken)
      BY DEF HybridTypes
    <3>3. \A c \in DOMAIN calls : \A i \in DOMAIN accepted[c] : accepted[c][i] \in Taken
      BY <3>2
    <3> QED
      BY <3>1, <3>3 DEF HybridTypes, HybridTypeOK, CallRec, Taken, Results
  <2>2. ASSUME NEW c \in DOMAIN calls
        PROVE  IsPrefix(RpcsOf(c), Due(c)) /\ (calls[c].result = "nil" => RpcsOf(c) = Due(c))
    <3> DEFINE n == Len(accepted[c])
    <3>1. accepted[c] \in Seq(Taken) /\ n \in Nat /\ DOMAIN accepted[c] = 1 .. n
      BY DEF HybridTypes
    <3>2. /\ n <= DueLen(c) /\ \A i \in 1 .. n : accepted[c][i].rpc = DueAt(i)
          /\ calls[c].result = "nil" => n = DueLen(c)
          /\ DueLen(c) \in Nat
      BY DEF ProgressInv, DueLen
    <3>3. /\ Due(c) \in Seq(Rpcs) /\ Len(Due(c)) = DueLen(c)
          /\ \A i \in 1 .. DueLen(c) : Due(c)[i] = DueAt(i)
      BY DueFacts
    <3>4. RpcsOf(c) \in Seq(Rpcs) /\ Len(RpcsOf(c)) = n /\ \A i \in 1 .. n : RpcsOf(c)[i] = Due(c)[i]
      BY <3>1, <3>2, <3>3 DEF RpcsOf, Taken
    <3>5. SubSeq(RpcsOf(c), 1, n) = SubSeq(Due(c), 1, n)
      BY <3>1, <3>2, <3>3, <3>4
    <3>6. n = DueLen(c) => RpcsOf(c) = Due(c)
      BY <3>1, <3>3, <3>4
    <3> QED
      BY <3>2, <3>3, <3>4, <3>5, <3>6 DEF IsPrefix
  <2> QED
    BY <2>1, <2>2 DEF HybridHonest
<1> QED
  BY <1>1, HybridInductive, PTL

(* While no call of WriteData has been left behind by its time-out, only a   *)
(* slice that cannot be aggregated (a nil record, an error counted without   *)
(* an error map) kills the process, and MDCB is sent data only over a client *)
(* that is logged in, whatever Init, the logins and the connections went     *)
(* through.                                                                  *)
THEOREM AloneIsSafe == HybridSpec => []SafeAlone
<1>1. HybridInv => SafeAlone
  BY DEF HybridInv, AloneInv, SafeAlone
<1> QED
  BY <1>1, HybridInductive, PTL

-----------------------------------------------------------------------------
(* The filters.                                                              *)

(* A record without some of its fields is still a record.                    *)
FilteredKey == [api_id : STRING \cup {""}, org_id : STRING \cup {""}, code : Int,
                raw_request : RawData, raw_response : RawData]

FilterTypes ==
  /\ decoded \in Seq(DecodedKey)
  /\ option \in [FilterPump -> Configuration]
  /\ arrays \in [FilterPump \cup {Shared} -> Seq(FilteredKey)]
  /\ filtering \in [FilterPump -> [step : {"new", "range", "return"}, array : FilterPump \cup {Shared},
                                   key : Nat, length : Nat]]

(* Pump s has an array of its own, with what it is to get of the first k     *)
(* records at its beginning.                                                 *)
FilteredUpTo(s, k) ==
  LET o == option[s]
  IN  /\ filtering[s].array = s /\ Len(arrays[s]) = Len(decoded)
      /\ filtering[s].length = Cardinality(Passing(o, k))
      /\ \A j \in Passing(o, k) : arrays[s][Cardinality(Passing(o, j))] = Changed(o, decoded[j])

FilterProgress(s) ==
  LET f == filtering[s]
  IN  /\ f.step = "new" => f = [step |-> "new", array |-> Shared, key |-> 1, length |-> 0] /\ arrays[s] = <<>>
      /\ f.step = "range" => f.key \in 1 .. Len(decoded) + 1 /\ FilteredUpTo(s, f.key - 1)
      /\ f.step = "return" => \/ FilteredUpTo(s, Len(decoded))
                              \/ /\ PassesAll(option[s]) /\ f.array = Shared /\ f.length = Len(decoded)
                                 /\ arrays[s] = <<>>

(* The shared slice is as it was decoded.                                    *)
FilterInv ==
  /\ FilterTypes
  /\ arrays[Shared] = decoded
  /\ \A s \in FilterPump : FilterProgress(s)

(* What trimming and decoding do to raw data.                                *)
LEMMA RawFacts ==
  /\ Empty \in RawData /\ Empty.length = 0 /\ Base64Decoded(Empty) = Empty
  /\ \A raw \in RawData :
       /\ raw.length \in Nat
       /\ Base64Decoded(raw) \in RawData /\ Base64Decoded(raw).length <= raw.length
       /\ \A size \in Nat : Trimmed(size, raw) \in RawData /\ Trimmed(size, raw).length <= size
<1>1. Empty \in RawData /\ Empty.length = 0 /\ Base64Decoded(Empty) = Empty
  <2>1. Empty = [form |-> "plain", length |-> 0]
    BY DEF Empty
  <2>2. Empty.form = "plain" /\ Empty.length = 0
    BY <2>1
  <2> QED
    BY <2>1, <2>2 DEF RawData, Base64Decoded
<1>2. ASSUME NEW raw \in RawData
      PROVE  /\ raw.length \in Nat
             /\ Base64Decoded(raw) \in RawData /\ Base64Decoded(raw).length <= raw.length
  <2>1. raw.length \in Nat
    BY DEF RawData
  <2> DEFINE q == raw.length \div 4
             e == raw.length % 4
  <2>2. q \in Int /\ e \in 0 .. 3 /\ raw.length = 4 * q + e
    <3>1. 4 \in Nat \ {0}
      OBVIOUS
    <3> DEFINE n == raw.length
    <3>2. n \in Nat
      BY <2>1
    <3> HIDE DEF n
    <3>3. n \div 4 \in Int /\ (n % 4) \in 0 .. 3 /\ n = 4 * (n \div 4) + (n % 4)
      BY <3>1, <3>2, Quotient
    <3> QED
      BY <3>3 DEF n
  <2> HIDE DEF q, e
  <2>3. 3 * q \in Nat /\ 3 * q <= raw.length
    BY <2>1, <2>2
  <2>4. [form |-> "plain", length |-> 3 * q] \in RawData
    BY <2>3 DEF RawData
  <2>5. Base64Decoded(raw) \in {raw, [form |-> "plain", length |-> 3 * q]}
    BY DEF Base64Decoded, q
  <2> QED
    BY <2>1, <2>3, <2>4, <2>5
<1>3. ASSUME NEW raw \in RawData, NEW size \in Nat
      PROVE  Trimmed(size, raw) \in RawData /\ Trimmed(size, raw).length <= size
  BY DEF Trimmed, RawData
<1> QED
  BY <1>1, <1>2, <1>3

(* A record is judged as the gateway sent it, trimmed or not.                *)
LEMMA Judged ==
  ASSUME NEW o \in Configuration, NEW r \in DecodedKey
  PROVE  /\ OmitOrTrim(o, r) \in DecodedKey
         /\ OmitOrTrim(o, r).api_id = r.api_id /\ OmitOrTrim(o, r).org_id = r.org_id
         /\ OmitOrTrim(o, r).code = r.code
         /\ ShouldFilter(o, OmitOrTrim(o, r)) <=> ~Allowed(o, r)
<1>1. r.raw_request \in RawData /\ r.raw_response \in RawData
  BY DEF DecodedKey
<1>2. o.size \in Nat /\ MaxRecordSize \in Nat
  BY FiltersAssumption DEF Configuration
<1> DEFINE size == IF o.size # 0 THEN o.size ELSE MaxRecordSize
<1>3. size \in Nat
  BY <1>2
<1>4. OmitOrTrim(o, r) \in {r, [r EXCEPT !.raw_request = Empty, !.raw_response = Empty],
                            [r EXCEPT !.raw_request = Trimmed(size, @), !.raw_response = Trimmed(size, @)]}
  BY DEF OmitOrTrim
<1> HIDE DEF size
<1>5. /\ Trimmed(size, r.raw_request) \in RawData /\ Trimmed(size, r.raw_response) \in RawData
      /\ Empty \in RawData
  BY <1>1, <1>3, RawFacts
<1>6. /\ OmitOrTrim(o, r) \in DecodedKey
      /\ OmitOrTrim(o, r).api_id = r.api_id /\ OmitOrTrim(o, r).org_id = r.org_id
      /\ OmitOrTrim(o, r).code = r.code
  BY <1>4, <1>5 DEF DecodedKey
<1> QED
  BY <1>6 DEF ShouldFilter, Allowed

LEMMA ChangedFacts ==
  ASSUME NEW o \in Configuration, NEW r \in DecodedKey
  PROVE  /\ Changed(o, r) \in FilteredKey
         /\ \A f \in {"api_id", "org_id", "code"} :
              Changed(o, r)[f] = IF f \in o.ignore THEN ZeroOf(f) ELSE r[f]
         /\ \A f \in {"raw_request", "raw_response"} : Admissible(o, f, Changed(o, r)[f], r[f])
<1> DEFINE t == OmitOrTrim(o, r)
           k == RemoveIgnoredFields(o, t)
           Decodes(f) == IF f = "raw_request" THEN o.decodeRequest ELSE o.decodeResponse
           field == {"api_id", "org_id", "code", "raw_request", "raw_response"}
<1>1. /\ t \in DecodedKey /\ t.api_id = r.api_id /\ t.org_id = r.org_id /\ t.code = r.code
  BY Judged
<1>2. /\ DOMAIN t = field
      /\ t.api_id \in STRING /\ t.org_id \in STRING /\ t.code \in Int
      /\ t.raw_request \in RawData /\ t.raw_response \in RawData
      /\ r.raw_request \in RawData /\ r.raw_response \in RawData
  BY <1>1 DEF DecodedKey
<1>3. o.size \in Nat /\ MaxRecordSize \in Nat /\ o.omit \in BOOLEAN
  BY FiltersAssumption DEF Configuration
<1>4. /\ o.omit => t.raw_request = Empty /\ t.raw_response = Empty
      /\ ~o.omit /\ ~shouldTrim(o) => t.raw_request = r.raw_request /\ t.raw_response = r.raw_response
      /\ o.size > 0 => t.raw_request.length <= o.size /\ t.raw_response.length <= o.size
      /\ o.size = 0 /\ MaxRecordSize > 0 =>
           t.raw_request.length <= MaxRecordSize /\ t.raw_response.length <= MaxRecordSize
  <2>1. CASE o.omit
    <3>1. t.raw_request = Empty /\ t.raw_response = Empty
      BY <2>1 DEF OmitOrTrim, DecodedKey
    <3> QED
      BY <1>3, <2>1, <3>1, RawFacts
  <2>2. CASE ~o.omit /\ ~shouldTrim(o)
    <3>1. t = r
      BY <2>2 DEF OmitOrTrim
    <3>2. o.size = 0 /\ MaxRecordSize = 0
      BY <2>2 DEF shouldTrim
    <3> QED
      BY <2>2, <3>1, <3>2
  <2>3. CASE ~o.omit /\ shouldTrim(o)
    <3> DEFINE size == IF o.size # 0 THEN o.size ELSE MaxRecordSize
    <3>1. t = [r EXCEPT !.raw_request = Trimmed(size, @), !.raw_response = Trimmed(size, @)]
      BY <2>3 DEF OmitOrTrim
    <3>2. size \in Nat /\ (o.size > 0 => size = o.size) /\ (o.size = 0 => size = MaxRecordSize)
      BY <1>3
    <3> HIDE DEF size, t
    <3>3. t.raw_request = Trimmed(size, r.raw_request) /\ t.raw_response = Trimmed(size, r.raw_response)
      BY <3>1 DEF DecodedKey
    <3>4. t.raw_request.length <= size /\ t.raw_response.length <= size
      BY <1>2, <3>2, <3>3, RawFacts
    <3> QED
      BY <2>3, <3>2, <3>4
  <2> QED
    BY <2>1, <2>2, <2>3
<1> HIDE DEF t
<1>5. \A f \in field : k[f] = IF f \in o.ignore THEN ZeroOf(f) ELSE t[f]
  BY <1>2 DEF RemoveIgnoredFields
<1>6. /\ ZeroOf("api_id") = "" /\ ZeroOf("org_id") = "" /\ ZeroOf("code") = 0
      /\ ZeroOf("raw_request") = Empty /\ ZeroOf("raw_response") = Empty
  BY DEF ZeroOf
<1>7. k \in FilteredKey
  <2>1. k = [f \in field |-> IF f \in o.ignore THEN ZeroOf(f) ELSE t[f]]
    BY <1>2 DEF RemoveIgnoredFields
  <2>2. /\ k.api_id \in STRING \cup {""} /\ k.org_id \in STRING \cup {""} /\ k.code \in Int
        /\ k.raw_request \in RawData /\ k.raw_response \in RawData
    <3>1. k.api_id \in {t.api_id, ""} /\ k.org_id \in {t.org_id, ""} /\ k.code \in {t.code, 0}
      BY <1>5, <1>6
    <3>2. k.raw_request \in {t.raw_request, Empty} /\ k.raw_response \in {t.raw_response, Empty}
      BY <1>5, <1>6
    <3> HIDE DEF k
    <3>3. k.raw_request \in RawData /\ k.raw_response \in RawData
      BY <1>2, <3>2, RawFacts
    <3>4. k.code \in Int
      <4>1. t.code \in Int /\ 0 \in Int
        BY <1>2
      <4>2. k.code \in {t.code, 0}
        BY <3>1
      <4> QED
        BY <4>1, <4>2
    <3>5. k.api_id \in STRING \cup {""} /\ k.org_id \in STRING \cup {""}
      BY <1>2, <3>1
    <3> QED
      BY <3>3, <3>4, <3>5
  <2> HIDE DEF k
  <2>3. k = [api_id |-> k.api_id, org_id |-> k.org_id, code |-> k.code,
             raw_request |-> k.raw_request, raw_response |-> k.raw_response]
    BY <2>1
  <2> QED
    BY <2>2, <2>3 DEF FilteredKey
<1> DEFINE c == Changed(o, r)
<1>8. c = [k EXCEPT !.raw_request  = IF o.decodeRequest THEN Base64Decoded(@) ELSE @,
                    !.raw_response = IF o.decodeResponse THEN Base64Decoded(@) ELSE @]
  BY DEF Changed, t
<1> HIDE DEF k, c
<1>9. /\ k.raw_request \in RawData /\ k.raw_response \in RawData
  BY <1>7 DEF FilteredKey
<1>10. /\ c.raw_request = IF o.decodeRequest THEN Base64Decoded(k.raw_request) ELSE k.raw_request
       /\ c.raw_response = IF o.decodeResponse THEN Base64Decoded(k.raw_response) ELSE k.raw_response
       /\ c.api_id = k.api_id /\ c.org_id = k.org_id /\ c.code = k.code
  BY <1>7, <1>8 DEF FilteredKey
<1>11. c \in FilteredKey
  <2>1. c.raw_request \in RawData /\ c.raw_response \in RawData
    BY <1>9, <1>10, RawFacts
  <2> QED
    BY <1>7, <1>8, <1>10, <2>1 DEF FilteredKey
<1>12. \A f \in {"api_id", "org_id", "code"} : c[f] = IF f \in o.ignore THEN ZeroOf(f) ELSE r[f]
  BY <1>1, <1>5, <1>10
<1>13. ASSUME NEW f \in {"raw_request", "raw_response"}
       PROVE  Admissible(o, f, c[f], r[f])
  <2>1. /\ c[f] = IF Decodes(f) THEN Base64Decoded(k[f]) ELSE k[f]
        /\ k[f] = IF f \in o.ignore THEN Empty ELSE t[f]
        /\ t[f] \in RawData /\ k[f] \in RawData /\ r[f] \in RawData
    BY <1>2, <1>5, <1>6, <1>9, <1>10
  <2>2. /\ o.omit => t[f] = Empty
        /\ ~o.omit /\ ~shouldTrim(o) => t[f] = r[f]
        /\ o.size > 0 => t[f].length <= o.size
        /\ o.size = 0 /\ MaxRecordSize > 0 => t[f].length <= MaxRecordSize
    BY <1>4
  <2>3. o.omit \/ f \in o.ignore => c[f] = Empty
    BY <2>1, <2>2, RawFacts
  <2>4. c[f].length <= k[f].length /\ c[f].length \in Nat /\ k[f].length \in Nat /\ t[f].length \in Nat
    BY <2>1, RawFacts
  <2>5. k[f].length <= t[f].length
    BY <2>1, <2>4, RawFacts
  <2>6. ~(o.omit \/ shouldTrim(o) \/ f \in o.ignore) =>
          c[f] \in {r[f], IF Decodes(f) THEN Base64Decoded(r[f]) ELSE r[f]}
    BY <2>1, <2>2
  <2> QED
    BY <1>3, <2>2, <2>3, <2>4, <2>5, <2>6 DEF Admissible
<1> QED
  BY <1>11, <1>12, <1>13 DEF c

(* A record that passes has the next place in what the pump gets.            *)
LEMMA Ranks ==
  ASSUME NEW o, NEW k \in Nat
  PROVE  /\ IsFiniteSet(Passing(o, k)) /\ Cardinality(Passing(o, k)) \in 0 .. k
         /\ \A j \in Passing(o, k) : j \in 1 .. k /\ Cardinality(Passing(o, j)) \in 1 .. Cardinality(Passing(o, k))
         /\ IF Allowed(o, decoded[k + 1])
            THEN /\ Passing(o, k + 1) = Passing(o, k) \cup {k + 1}
                 /\ Cardinality(Passing(o, k + 1)) = Cardinality(Passing(o, k)) + 1
            ELSE Passing(o, k + 1) = Passing(o, k)
<1>1. \A m \in Nat : IsFiniteSet(Passing(o, m)) /\ Cardinality(Passing(o, m)) \in 0 .. m
  <2>1. SUFFICES ASSUME NEW m \in Nat
                 PROVE  IsFiniteSet(Passing(o, m)) /\ Cardinality(Passing(o, m)) \in 0 .. m
    OBVIOUS
  <2>2. IsFiniteSet(1 .. m) /\ Cardinality(1 .. m) = m
    BY UpTo
  <2>3. Passing(o, m) \subseteq 1 .. m
    BY DEF Passing
  <2>4. IsFiniteSet(Passing(o, m)) /\ Cardinality(Passing(o, m)) <= m
    BY <2>2, <2>3, FS_Subset
  <2>5. Cardinality(Passing(o, m)) \in Nat
    BY <2>4, FS_CardinalityType
  <2> QED
    BY <2>4, <2>5
<1>2. ASSUME NEW j \in Passing(o, k)
      PROVE  j \in 1 .. k /\ Cardinality(Passing(o, j)) \in 1 .. Cardinality(Passing(o, k))
  <2>1. j \in 1 .. k /\ j \in Passing(o, j) /\ Passing(o, j) \subseteq Passing(o, k)
    BY DEF Passing
  <2>2. IsFiniteSet(Passing(o, j)) /\ Cardinality(Passing(o, j)) \in Nat /\ Cardinality(Passing(o, k)) \in Nat
    BY <1>1, <2>1
  <2>3. Cardinality(Passing(o, j)) <= Cardinality(Passing(o, k))
    BY <1>1, <2>1, FS_Subset
  <2>4. Cardinality(Passing(o, j)) # 0
    BY <2>1, <2>2, FS_EmptySet
  <2> QED
    BY <2>1, <2>2, <2>3, <2>4
<1>3. CASE Allowed(o, decoded[k + 1])
  <2>1. Passing(o, k + 1) = Passing(o, k) \cup {k + 1} /\ k + 1 \notin Passing(o, k)
    BY <1>3 DEF Passing
  <2>2. Cardinality(Passing(o, k + 1)) = Cardinality(Passing(o, k)) + 1
    BY <1>1, <2>1, FS_AddElement
  <2> QED
    BY <1>1, <1>2, <1>3, <2>1, <2>2
<1>4. CASE ~Allowed(o, decoded[k + 1])
  <2>1. Passing(o, k + 1) = Passing(o, k)
    BY <1>4 DEF Passing
  <2> QED
    BY <1>1, <1>2, <1>4, <2>1
<1> QED
  BY <1>3, <1>4

(* A pump without options is given everything, unchanged.                    *)
LEMMA Everything ==
  ASSUME NEW o \in Configuration, PassesAll(o)
  PROVE  /\ \A r \in DecodedKey :
              /\ Allowed(o, r)
              /\ \A f \in {"raw_request", "raw_response"} : Admissible(o, f, r[f], r[f])
         /\ o.ignore = {}
         /\ \A k \in Nat : decoded \in Seq(DecodedKey) /\ k <= Len(decoded) =>
              Passing(o, k) = 1 .. k /\ Cardinality(Passing(o, k)) = k
<1>1. /\ o.APIs = {} /\ o.orgs = {} /\ o.codes = {}
      /\ o.skipAPIs = {} /\ o.skipOrgs = {} /\ o.skipCodes = {}
      /\ o.ignore = {} /\ ~o.omit /\ o.size = 0 /\ MaxRecordSize = 0
  BY DEF PassesAll, HasFilter, shouldTrim, Configuration
<1>2. \A r \in DecodedKey : Allowed(o, r)
  BY <1>1 DEF Allowed
<1>3. \A r \in DecodedKey : \A f \in {"raw_request", "raw_response"} : Admissible(o, f, r[f], r[f])
  BY <1>1 DEF Admissible
<1>4. ASSUME NEW k \in Nat, decoded \in Seq(DecodedKey), k <= Len(decoded)
      PROVE  Passing(o, k) = 1 .. k /\ Cardinality(Passing(o, k)) = k
  <2>1. \A j \in 1 .. k : decoded[j] \in DecodedKey
    BY <1>4
  <2>2. Passing(o, k) = 1 .. k
    BY <1>2, <2>1 DEF Passing
  <2> QED
    BY <2>2, UpTo
<1> QED
  BY <1>1, <1>2, <1>3, <1>4

(* What another pump does is not seen by pump p.                             *)
LEMMA ProgressKept ==
  ASSUME NEW p \in FilterPump, FilterProgress(p), UNCHANGED <<decoded, option>>,
         filtering'[p] = filtering[p], arrays'[p] = arrays[p]
  PROVE  FilterProgress(p)'
<1>1. \A o, k : Passing(o, k)' = Passing(o, k)
  BY DEF Passing
<1>2. \A k : FilteredUpTo(p, k)' <=> FilteredUpTo(p, k)
  BY <1>1 DEF FilteredUpTo
<1> QED
  BY <1>2 DEF FilterProgress

(* A step of pump s on its own array.                                        *)
LEMMA OwnArray ==
  ASSUME FilterInv, NEW s \in FilterPump, UNCHANGED <<decoded, option>>,
         NEW a \in Seq(FilteredKey), arrays' = [arrays EXCEPT ![s] = a],
         filtering' \in [FilterPump -> [step : {"new", "range", "return"}, array : FilterPump \cup {Shared},
                                        key : Nat, length : Nat]],
         \A p \in FilterPump \ {s} : filtering'[p] = filtering[p],
         FilterProgress(s)'
  PROVE  FilterInv'
<1>1. s # Shared
  BY FiltersAssumption DEF FilterPump, Shared
<1>2. FilterTypes'
  BY DEF FilterInv, FilterTypes
<1>3. /\ arrays'[Shared] = decoded'
      /\ \A p \in FilterPump \ {s} : arrays'[p] = arrays[p]
  BY <1>1 DEF FilterInv, FilterTypes
<1>4. \A p \in FilterPump \ {s} : FilterProgress(p)'
  BY <1>3, ProgressKept DEF FilterInv
<1> QED
  BY <1>2, <1>3, <1>4 DEF FilterInv

LEMMA FiltersInitially ==
  ASSUME FiltersInit
  PROVE  FilterInv
<1>1. decoded \in Seq(DecodedKey)
  BY FiltersAssumption DEF FiltersInit
<1>2. option \in [FilterPump -> Configuration]
  <2>1. /\ option \in [FilterPump -> UNION {Options[s] : s \in FilterPump}]
        /\ \A s \in FilterPump : option[s] \in Options[s]
    BY DEF FiltersInit
  <2>2. \A s \in FilterPump : option[s] \in Configuration
    BY <2>1, FiltersAssumption DEF FilterPump
  <2> QED
    BY <2>1, <2>2
<1>3. decoded \in Seq(FilteredKey)
  BY <1>1, SeqOfSubset DEF DecodedKey, FilteredKey
<1>4. /\ <<>> \in Seq(FilteredKey)
      /\ arrays = [a \in FilterPump \cup {Shared} |-> IF a = Shared THEN decoded ELSE <<>>]
      /\ filtering = [s \in FilterPump |-> [step |-> "new", array |-> Shared, key |-> 1, length |-> 0]]
  BY DEF FiltersInit
<1>5. arrays \in [FilterPump \cup {Shared} -> Seq(FilteredKey)]
  BY <1>3, <1>4
<1>6. arrays[Shared] = decoded /\ \A s \in FilterPump : arrays[s] = <<>>
  BY <1>4, FiltersAssumption DEF FilterPump, Shared
<1>7. FilterTypes
  BY <1>1, <1>2, <1>4, <1>5 DEF FilterTypes
<1>8. \A s \in FilterPump : FilterProgress(s)
  BY <1>4, <1>6 DEF FilterProgress
<1> QED
  BY <1>6, <1>7, <1>8 DEF FilterInv

LEMMA FiltersStep ==
  ASSUME FilterInv, [FiltersNext]_filterVars
  PROVE  FilterInv'
<1> DEFINE Records == [step : {"new", "range", "return"}, array : FilterPump \cup {Shared},
                       key : Nat, length : Nat]
<1>1. /\ decoded \in Seq(DecodedKey) /\ Len(decoded) \in Nat /\ arrays[Shared] = decoded
      /\ decoded \in Seq(FilteredKey)
      /\ filtering \in [FilterPump -> Records]
      /\ arrays \in [FilterPump \cup {Shared} -> Seq(FilteredKey)]
  <2>1. DecodedKey \subseteq FilteredKey
    BY DEF DecodedKey, FilteredKey
  <2> QED
    BY <2>1, SeqOfSubset DEF FilterInv, FilterTypes
<1>2. \A s \in FilterPump : /\ filtering[s] \in Records /\ arrays[s] \in Seq(FilteredKey)
                            /\ option[s] \in Configuration /\ FilterProgress(s)
                            /\ arrays = [arrays EXCEPT ![s] = arrays[s]]
  BY <1>1 DEF FilterInv, FilterTypes
<1>3. ASSUME NEW s \in FilterPump, PassKeys(s)
      PROVE  FilterInv'
  <2>1. /\ FilterStep(s, "new") /\ PassesAll(option[s])
        /\ filtering' = [filtering EXCEPT ![s].step = "return", ![s].length = Len(decoded)]
        /\ UNCHANGED <<decoded, option, arrays>>
    BY <1>1, <1>3 DEF PassKeys
  <2>2. filtering[s] = [step |-> "new", array |-> Shared, key |-> 1, length |-> 0] /\ arrays[s] = <<>>
    BY <1>2, <2>1 DEF FilterProgress, FilterStep
  <2>3. /\ filtering'[s] = [filtering[s] EXCEPT !.step = "return", !.length = Len(decoded)]
        /\ \A p \in FilterPump \ {s} : filtering'[p] = filtering[p]
    BY <1>1, <2>1
  <2>5. filtering' \in [FilterPump -> Records]
    <3>1. filtering'[s] \in Records
      BY <1>1, <1>2, <2>3
    <3> HIDE DEF Records
    <3> QED
      BY <1>1, <2>1, <3>1
  <2>6. /\ filtering'[s].step = "return" /\ filtering'[s].array = Shared
        /\ filtering'[s].length = Len(decoded)
    <3>1. filtering[s].array = Shared
      BY <2>2
    <3> QED
      BY <1>2, <2>3, <3>1
  <2>4. FilterProgress(s)'
    BY <2>1, <2>2, <2>6 DEF FilterProgress
  <2> QED
    BY <1>2, <2>1, <2>3, <2>4, <2>5, OwnArray
<1>4. ASSUME NEW s \in FilterPump, CopyKeys(s)
      PROVE  FilterInv'
  <2>1. /\ FilterStep(s, "new") /\ ~PassesAll(option[s])
        /\ arrays' = [arrays EXCEPT ![s] = decoded]
        /\ filtering' = [filtering EXCEPT ![s].step = "range", ![s].array = s]
        /\ UNCHANGED <<decoded, option>>
    BY <1>1, <1>4 DEF CopyKeys
  <2>2. filtering[s] = [step |-> "new", array |-> Shared, key |-> 1, length |-> 0]
    BY <1>2, <2>1 DEF FilterProgress, FilterStep
  <2>3. /\ filtering'[s] = [filtering[s] EXCEPT !.step = "range", !.array = s]
        /\ \A p \in FilterPump \ {s} : filtering'[p] = filtering[p]
    BY <1>1, <2>1
  <2>7. filtering' \in [FilterPump -> Records]
    <3>1. filtering'[s] \in Records
      BY <1>1, <1>2, <2>3
    <3> HIDE DEF Records
    <3> QED
      BY <1>1, <2>1, <3>1
  <2>8. /\ filtering'[s].step = "range" /\ filtering'[s].array = s
        /\ filtering'[s].key = 1 /\ filtering'[s].length = 0
    <3>1. filtering[s].key = 1 /\ filtering[s].length = 0
      BY <2>2
    <3> QED
      BY <1>2, <2>3, <3>1
  <2>4. arrays'[s] = decoded
    BY <1>1, <2>1
  <2>5. FilteredUpTo(s, 0)'
    <3>1. \A o : Passing(o, 0)' = {}
      BY DEF Passing
    <3>2. Passing(option[s], 0)' = {} /\ Cardinality(Passing(option[s], 0))' = 0
      BY <2>1, <3>1, FS_EmptySet
    <3>3. filtering'[s].array = s /\ filtering'[s].length = 0 /\ Len(arrays'[s]) = Len(decoded')
      BY <2>1, <2>4, <2>8
    <3> QED
      BY <3>2, <3>3 DEF FilteredUpTo
  <2>6. FilterProgress(s)'
    <3>1. 1 \in 1 .. Len(decoded') + 1
      BY <1>1, <2>1
    <3> QED
      BY <2>5, <2>8, <3>1 DEF FilterProgress
  <2> QED
    BY <1>1, <2>1, <2>3, <2>6, <2>7, OwnArray
<1>5. ASSUME NEW s \in FilterPump, FilterKey(s), NEW k \in Nat, filtering[s].key = k + 1
      PROVE  FilterInv'
  <2> DEFINE f == filtering[s]
             o == option[s]
             r == decoded[f.key]
             n == Cardinality(Passing(o, k))
  <2>1. /\ f.step = "range" /\ f.key \in 1 .. Len(decoded) /\ FilteredUpTo(s, k)
        /\ o \in Configuration /\ r \in DecodedKey
        /\ UNCHANGED <<decoded, option>>
    <3>1. /\ f.step = "range" /\ f.key <= Len(decoded)
          /\ UNCHANGED <<decoded, option>>
      BY <1>1, <1>5 DEF FilterKey
    <3>2. f.key \in 1 .. Len(decoded) + 1 /\ FilteredUpTo(s, k)
      <4>1. f.key - 1 = k
        BY <1>5
      <4> QED
        BY <1>2, <3>1, <4>1 DEF FilterProgress
    <3>3. f.key \in 1 .. Len(decoded)
      BY <1>1, <3>1, <3>2
    <3>4. r \in DecodedKey
      BY <1>1, <3>3
    <3> QED
      BY <1>2, <3>1, <3>2, <3>3, <3>4
  <2>2. /\ f.array = s /\ Len(arrays[s]) = Len(decoded) /\ f.length = n
        /\ \A j \in Passing(o, k) : arrays[s][Cardinality(Passing(o, j))] = Changed(o, decoded[j])
    BY <2>1 DEF FilteredUpTo
  <2>3. /\ n \in 0 .. k
        /\ \A j \in Passing(o, k) : j \in 1 .. k /\ Cardinality(Passing(o, j)) \in 1 .. n
        /\ IF Allowed(o, decoded[k + 1])
           THEN /\ Passing(o, k + 1) = Passing(o, k) \cup {k + 1}
                /\ Cardinality(Passing(o, k + 1)) = n + 1
           ELSE Passing(o, k + 1) = Passing(o, k)
    BY <2>1, Ranks
  <2>4. f.key = k + 1 /\ r = decoded[k + 1]
    BY <1>5
  <2>5. \A c, m : Passing(c, m)' = Passing(c, m)
    BY <2>1 DEF Passing
  <2>6. f \in Records /\ f.key \in Nat /\ f.length \in Nat
    BY <1>2
  <2>7. CASE ~Allowed(o, r)
    <3>1. filtering' = [filtering EXCEPT ![s].key = @ + 1] /\ UNCHANGED arrays
      BY <1>1, <1>5, <2>1, <2>7, Judged DEF FilterKey
    <3>2. /\ filtering'[s] = [f EXCEPT !.key = @ + 1]
          /\ \A p \in FilterPump \ {s} : filtering'[p] = filtering[p]
      BY <1>1, <3>1
    <3>11. filtering' \in [FilterPump -> Records]
      <4>1. filtering'[s] \in Records
        BY <2>6, <3>2
      <4> HIDE DEF Records
      <4> QED
        BY <1>1, <3>1, <4>1
    <3>3. /\ filtering'[s].step = "range" /\ filtering'[s].array = s /\ filtering'[s].length = n
          /\ filtering'[s].key = k + 2
      BY <2>1, <2>2, <2>4, <2>6, <3>2
    <3>4. FilteredUpTo(s, k + 1)'
      BY <2>1, <2>2, <2>3, <2>4, <2>5, <2>7, <3>1, <3>3 DEF FilteredUpTo
    <3>5. FilterProgress(s)'
      <4>1. k + 2 \in 1 .. Len(decoded') + 1 /\ (k + 2) - 1 = k + 1
        BY <1>1, <2>1, <2>4
      <4> QED
        BY <3>3, <3>4, <4>1 DEF FilterProgress
    <3> QED
      BY <1>2, <2>1, <3>1, <3>2, <3>5, <3>11, OwnArray
  <2>8. CASE Allowed(o, r)
    <3> DEFINE a == [arrays[s] EXCEPT ![n + 1] = Changed(o, r)]
    <3>1. /\ filtering' = [filtering EXCEPT ![s].key = @ + 1, ![s].length = @ + 1]
          /\ arrays' = [arrays EXCEPT ![s] = a]
      BY <1>1, <1>5, <2>1, <2>2, <2>8, Judged DEF FilterKey
    <3>2. /\ filtering'[s] = [f EXCEPT !.key = @ + 1, !.length = @ + 1]
          /\ \A p \in FilterPump \ {s} : filtering'[p] = filtering[p]
      BY <1>1, <3>1
    <3>11. filtering' \in [FilterPump -> Records]
      <4>1. filtering'[s] = [f EXCEPT !.key = f.key + 1, !.length = f.length + 1]
        BY <2>6, <3>2
      <4>2. f.key + 1 \in Nat /\ f.length + 1 \in Nat
        BY <2>6
      <4> DEFINE v == f.key + 1
                 w == f.length + 1
      <4> HIDE DEF v, w, f
      <4>3. [f EXCEPT !.key = v, !.length = w] \in Records
        BY <2>6, <4>2 DEF v, w
      <4>4. filtering'[s] \in Records
        BY <4>1, <4>3 DEF v, w
      <4> HIDE DEF Records
      <4> QED
        BY <1>1, <3>1, <4>4
    <3>3. /\ filtering'[s].step = "range" /\ filtering'[s].array = s /\ filtering'[s].length = n + 1
          /\ filtering'[s].key = k + 2
      BY <2>1, <2>2, <2>4, <2>6, <3>2
    <3>4. n + 1 \in DOMAIN arrays[s]
      <4>1. n + 1 \in 1 .. Len(decoded)
        BY <1>1, <2>1, <2>3, <2>4
      <4> QED
        BY <1>2, <2>2, <4>1
    <3>5. Changed(o, r) \in FilteredKey
      BY <2>1, ChangedFacts
    <3>6. /\ a \in Seq(FilteredKey) /\ Len(a) = Len(decoded) /\ a[n + 1] = Changed(o, r)
          /\ \A i \in DOMAIN arrays[s] \ {n + 1} : a[i] = arrays[s][i]
      BY <1>2, <2>2, <3>4, <3>5, ExceptFacts
    <3>7. \A i \in 1 .. n : a[i] = arrays[s][i]
      <4>1. \A i \in 1 .. n : i \in 1 .. Len(decoded) /\ i # n + 1
        BY <1>1, <2>1, <2>3, <2>4
      <4>2. DOMAIN arrays[s] = 1 .. Len(decoded)
        BY <1>2, <2>2
      <4> QED
        BY <3>6, <4>1, <4>2
    <3>8. arrays'[s] = a
      BY <1>1, <3>1
    <3> HIDE DEF a
    <3>9. FilteredUpTo(s, k + 1)'
      <4>1. \A j \in Passing(o, k + 1) : a[Cardinality(Passing(o, j))] = Changed(o, decoded[j])
        <5>1. \A j \in Passing(o, k) : a[Cardinality(Passing(o, j))] = Changed(o, decoded[j])
          BY <2>2, <2>3, <3>7
        <5>2. a[Cardinality(Passing(o, k + 1))] = Changed(o, decoded[k + 1])
          BY <2>3, <2>4, <2>8, <3>6
        <5> QED
          BY <2>3, <2>4, <2>8, <5>1, <5>2
      <4>2. Cardinality(Passing(o, k + 1)) = n + 1
        BY <2>3, <2>4, <2>8
      <4> QED
        BY <2>1, <2>5, <3>3, <3>6, <3>8, <4>1, <4>2 DEF FilteredUpTo
    <3>10. FilterProgress(s)'
      <4>1. k + 2 \in 1 .. Len(decoded') + 1 /\ (k + 2) - 1 = k + 1
        BY <1>1, <2>1, <2>4
      <4> QED
        BY <3>3, <3>9, <4>1 DEF FilterProgress
    <3> QED
      BY <2>1, <3>1, <3>2, <3>6, <3>10, <3>11, OwnArray
  <2> QED
    BY <2>7, <2>8
<1>6. ASSUME NEW s \in FilterPump, FilteredKeys(s)
      PROVE  FilterInv'
  <2>1. /\ filtering[s].step = "range" /\ filtering[s].key > Len(decoded)
        /\ filtering' = [filtering EXCEPT ![s].step = "return"]
        /\ UNCHANGED <<decoded, option, arrays>>
    BY <1>1, <1>6 DEF FilteredKeys, FilterStep
  <2>2. filtering[s].key \in 1 .. Len(decoded) + 1 /\ FilteredUpTo(s, filtering[s].key - 1)
    BY <1>2, <2>1 DEF FilterProgress
  <2>3. filtering[s].key - 1 = Len(decoded)
    BY <1>1, <2>1, <2>2
  <2>4. /\ filtering'[s] = [filtering[s] EXCEPT !.step = "return"]
        /\ \A p \in FilterPump \ {s} : filtering'[p] = filtering[p]
        /\ filtering' \in [FilterPump -> Records]
    BY <1>1, <2>1
  <2>5. /\ filtering'[s].step = "return" /\ filtering'[s].array = filtering[s].array
        /\ filtering'[s].length = filtering[s].length
    BY <1>2, <2>4
  <2>6. \A o, k : Passing(o, k)' = Passing(o, k)
    BY <2>1 DEF Passing
  <2>7. FilteredUpTo(s, Len(decoded))'
    BY <2>1, <2>2, <2>3, <2>5, <2>6 DEF FilteredUpTo
  <2>8. FilterProgress(s)'
    BY <2>5, <2>7 DEF FilterProgress
  <2> QED
    BY <1>2, <2>1, <2>4, <2>8, OwnArray
<1>7. CASE UNCHANGED filterVars
  <2>1. FilterTypes' /\ arrays'[Shared] = decoded'
    BY <1>7 DEF filterVars, FilterInv, FilterTypes
  <2>2. \A s \in FilterPump : FilterProgress(s)'
    BY <1>2, <1>7, ProgressKept DEF filterVars
  <2> QED
    BY <2>1, <2>2 DEF FilterInv
<1>8. ASSUME NEW s \in FilterPump, FilterKey(s)
      PROVE  \E k \in Nat : filtering[s].key = k + 1
  <2>1. filtering[s].step = "range"
    BY <1>8 DEF FilterKey
  <2>2. filtering[s].key \in 1 .. Len(decoded) + 1
    BY <1>2, <2>1 DEF FilterProgress
  <2>3. filtering[s].key - 1 \in Nat /\ filtering[s].key = (filtering[s].key - 1) + 1
    BY <1>1, <2>2
  <2> QED
    BY <2>3
<1> QED
  BY <1>3, <1>4, <1>5, <1>6, <1>7, <1>8 DEF FiltersNext

LEMMA WhatPumpsGet ==
  ASSUME FilterInv
  PROVE  FiltersKeepApart
<1>1. /\ decoded \in Seq(DecodedKey) /\ Len(decoded) \in Nat /\ arrays[Shared] = decoded
      /\ DOMAIN arrays = FilterPump \cup {Shared} /\ Len(<<>>) = 0
  BY DEF FilterInv, FilterTypes
<1>2. \A s \in FilterPump :
        /\ option[s] \in Configuration /\ FilterProgress(s)
        /\ filtering[s].step \in {"new", "range", "return"}
  BY DEF FilterInv, FilterTypes
<1>3. ASSUME NEW s \in FilterPump, NEW k \in 0 .. Len(decoded), FilteredUpTo(s, k)
      PROVE  /\ filtering[s].array = s /\ filtering[s].length \in 0 .. Len(decoded)
             /\ Len(arrays[s]) = Len(decoded)
  <2>1. Cardinality(Passing(option[s], k)) \in 0 .. k
    BY <1>1, Ranks
  <2> QED
    BY <1>1, <1>3, <2>1 DEF FilteredUpTo
<1>4. ASSUME NEW s \in FilterPump
      PROVE  /\ filtering[s].array \in {Shared, s} /\ filtering[s].length \in 0 .. Len(decoded)
             /\ Len(arrays[s]) \in {0, Len(decoded)}
  <2>1. CASE filtering[s].step = "new"
    BY <1>1, <1>2, <2>1 DEF FilterProgress
  <2>2. CASE filtering[s].step = "range"
    <3>1. filtering[s].key - 1 \in 0 .. Len(decoded) /\ FilteredUpTo(s, filtering[s].key - 1)
      BY <1>1, <1>2, <2>2 DEF FilterProgress
    <3> QED
      BY <1>3, <3>1
  <2>3. CASE filtering[s].step = "return"
    <3>1. CASE FilteredUpTo(s, Len(decoded))
      BY <1>1, <1>3, <3>1
    <3>2. CASE filtering[s].array = Shared /\ filtering[s].length = Len(decoded) /\ arrays[s] = <<>>
      BY <1>1, <3>2
    <3> QED
      BY <1>2, <2>3, <3>1, <3>2 DEF FilterProgress
  <2> QED
    BY <1>2, <2>1, <2>2, <2>3
<1>5. FiltersTypeOK
  BY <1>1, <1>2, <1>4 DEF FiltersTypeOK
<1>6. ASSUME NEW s \in FilterPump, FilterStep(s, "return")
      PROVE  LET o   == option[s]
                 all == Passing(o, Len(decoded))
                 out == arrays[filtering[s].array]
             IN /\ filtering[s].length = Cardinality(all)
                /\ \A k \in all :
                     LET got  == out[Cardinality(Passing(o, k))]
                         want == decoded[k]
                     IN /\ \A f \in {"api_id", "org_id", "code"} :
                             got[f] = IF f \in o.ignore THEN ZeroOf(f) ELSE want[f]
                        /\ \A f \in {"raw_request", "raw_response"} : Admissible(o, f, got[f], want[f])
  <2> DEFINE o   == option[s]
             all == Passing(o, Len(decoded))
             out == arrays[filtering[s].array]
  <2>1. o \in Configuration /\ \A k \in all : decoded[k] \in DecodedKey
    BY <1>1, <1>2 DEF Passing
  <2>2. CASE FilteredUpTo(s, Len(decoded))
    <3>1. /\ filtering[s].length = Cardinality(all)
          /\ \A k \in all : out[Cardinality(Passing(o, k))] = Changed(o, decoded[k])
      BY <2>2 DEF FilteredUpTo
    <3> QED
      BY <2>1, <3>1, ChangedFacts
  <2>3. CASE PassesAll(o) /\ filtering[s].array = Shared /\ filtering[s].length = Len(decoded)
    <3>1. filtering[s].length = Cardinality(all) /\ all = 1 .. Len(decoded)
      BY <1>1, <2>1, <2>3, Everything
    <3>2. ASSUME NEW k \in all
          PROVE  /\ out[Cardinality(Passing(o, k))] = decoded[k]
                 /\ \A f \in {"raw_request", "raw_response"} : Admissible(o, f, decoded[k][f], decoded[k][f])
      <4>1. k \in Nat /\ k <= Len(decoded) /\ decoded[k] \in DecodedKey
        BY <1>1, <2>1, <3>1
      <4>2. Cardinality(Passing(o, k)) = k
        BY <1>1, <2>1, <2>3, <4>1, Everything
      <4>3. out = decoded
        BY <1>1, <2>3
      <4> QED
        BY <2>1, <2>3, <4>1, <4>2, <4>3, Everything
    <3>3. o.ignore = {}
      BY <2>1, <2>3, Everything
    <3> QED
      BY <3>1, <3>2, <3>3
  <2> QED
    BY <1>2, <1>6, <2>2, <2>3 DEF FilterProgress, FilterStep
<1> QED
  BY <1>5, <1>6 DEF FiltersKeepApart

(* At every moment the slice that all pumps were given is as it was decoded, *)
(* and a pump with options has an array of its own that begins with what it  *)
(* is to get of the records it has judged, each at the place its rank gives  *)
(* it (filterData, main.go:379-433).                                         *)
THEOREM FiltersInductive == FiltersSpec => []FilterInv
<1>1. FiltersInit => FilterInv
  BY FiltersInitially
<1>2. FilterInv /\ [FiltersNext]_filterVars => FilterInv'
  BY FiltersStep
<1> QED
  BY <1>1, <1>2, PTL DEF FiltersSpec

(* However many pumps filter at once, whatever their options and the records *)
(* are, every pump is handed the records its own filters allow, all of them, *)
(* in their order, without the fields it ignores and within its limit, and a *)
(* pump without options what was decoded (filterData, main.go:379-433).      *)
THEOREM PumpsFilterAlone == FiltersSpec => []FiltersKeepApart
<1>1. FilterInv => FiltersKeepApart
  BY WhatPumpsGet
<1> QED
  BY <1>1, FiltersInductive, PTL

-----------------------------------------------------------------------------
(* The Resurface pump.                                                       *)
(* Only the newest queue and its worker are in use.                          *)
WorkerInv ==
  /\ open \subseteq {gen}
  /\ \A g \in Gen :
       /\ g > gen => worker[g] = "none"
       /\ g < gen => worker[g] = "done"
       /\ g # gen => queue[g] = <<>>
       /\ held[g] # None <=> worker[g] = "busy"
  /\ worker[gen] # "none"
  /\ worker[gen] = "done" => gen \notin open /\ queue[gen] = <<>>

(* The calls of WriteData: when there is one, and what it holds.             *)
CallInv ==
  /\ enabled <=> main \in {"idle", "writing"}
  /\ main = "writing" => next # 0
  /\ main = "flushing" => gen <= MaxFlushes
  /\ \A c \in Chunk : c > next => At(c, "none")
  /\ At(Flush, "none") <=> main # "flushing"
  /\ ~At(Flush, "send")
  /\ \A c \in Caller :
       /\ call[c].peek # None <=> At(c, "putBack")
       /\ call[c].at \in {"none", "start", "peek", "close"} => call[c].q = None

BaseInv == TypeOK /\ WorkerInv /\ CallInv

(* Where a chunk is: in the queue, with the worker, with a WriteData that    *)
(* looks at the queue, or written.                                           *)
Queued(c) == c \in ToSet(queue[gen])
Peeked(c) == \E d \in Caller : call[d].peek = c

PlacesInv ==
  /\ IsInjective(queue[gen])
  /\ IsInjective(written)
  /\ \A c, d \in Caller : call[c].peek = call[d].peek /\ call[c].peek # None => c = d
  /\ \A c \in Chunk :
       /\ Queued(c) => held[gen] # c /\ ~Peeked(c) /\ c \notin Written
       /\ held[gen] = c => ~Peeked(c) /\ c \notin Written
       /\ Peeked(c) => c \notin Written
       /\ c \in Sent <=> Queued(c) \/ held[gen] = c \/ Peeked(c) \/ c \in Written
       /\ c \in Sent => At(c, "returned")

(* The n-th accepted chunk is ahead of the m-th: among the written, with the *)
(* worker, or in the queue.                                                  *)
WrittenAhead(m, n) ==
  /\ sent[n] \in Written
  /\ \A k, l \in 1 .. Len(written) :
       written[k] = sent[m] /\ written[l] = sent[n] => l <= k

HeldAhead(m, n) == sent[n] = held[gen] /\ sent[m] \notin Written

QueuedAhead(m, n) ==
  \E j \in 1 .. Len(queue[gen]) :
    /\ queue[gen][j] = sent[n]
    /\ sent[m] \notin Written
    /\ sent[m] # held[gen]
    /\ \A i \in 1 .. (j - 1) : queue[gen][i] # sent[m]

Overtakes(m, n) ==
  /\ m < n
  /\ sent[m] \notin moved
  /\ WrittenAhead(m, n) \/ HeldAhead(m, n) \/ QueuedAhead(m, n)

(* A later chunk overtakes none but those that a WriteData received.         *)
LineInv ==
  /\ \A d \in Caller : call[d].peek # None => call[d].peek \in moved
  /\ \A m, n \in 1 .. Len(sent) : ~Overtakes(m, n)

(* Without a timeout only one call runs at a time, on a queue that is open.  *)
AtOpen(c) == gen \in open /\ call[c].q \in {None, gen}

UntimedInv ==
  ~timed =>
    /\ ~panicked
    /\ \A c \in over : At(c, "returned")
    /\ \A c \in Chunk : At(c, "returned") => c \in Sent
    /\ \A c \in Chunk : call[c].at \notin {"none", "returned"} =>
         main = "writing" /\ c = next /\ call[c].at \in {"start", "send"} /\ AtOpen(c)
    /\ main # "flushing" => gen \in open
    /\ main = "flushing" /\ ~At(Flush, "returned") => AtOpen(Flush)
    /\ main = "enabling" => queue[gen] = <<>> /\ held[gen] = None

IInv == BaseInv /\ PlacesInv /\ LineInv /\ UntimedInv

-----------------------------------------------------------------------------
(* Types, and what is in use.                                                *)

LEMMA Kinds ==
  /\ Flush \in Caller /\ Flush \notin Chunk /\ None \notin Chunk /\ None \notin Gen
  /\ \A c \in Chunk : c \in Caller /\ c \in Nat
  /\ \A g \in Gen : g \in Nat /\ g # 0
  /\ 1 \in Gen
BY ResurfaceAssumption DEF Flush, Caller, Chunk, None, Gen

LEMMA BaseInit ==
  ASSUME ResurfaceInit
  PROVE  BaseInv
<1>1. TypeOK
  <2>1. <<>> \in Seq(Chunk) /\ Len(<<>>) = 0
    OBVIOUS
  <2>2. Absent \in [at : {"none", "start", "send", "peek", "putBack", "close", "returned"},
                    q : Gen \cup {None}, peek : Chunk \cup {None}]
    BY DEF Absent
  <2>3. queue \in [Gen -> Seq(Chunk)] /\ \A g \in Gen : Len(queue[g]) <= Capacity
    BY <2>1, ResurfaceAssumption DEF ResurfaceInit
  <2>4. open \subseteq 1 .. gen /\ gen \in Gen
    BY Kinds DEF ResurfaceInit
  <2> QED
    BY <2>1, <2>2, <2>3, <2>4 DEF ResurfaceInit, TypeOK
<1>2. WorkerInv
  BY Kinds DEF ResurfaceInit, WorkerInv, Gen, None
<1>3. CallInv
  BY Kinds DEF ResurfaceInit, CallInv, Absent, At
<1> QED
  BY <1>1, <1>2, <1>3 DEF BaseInv

LEMMA TypeStep ==
  ASSUME BaseInv, [Next]_vars
  PROVE  TypeOK'
<1> USE DEF config, queues, workers, history
<1>0. TypeOK
  BY DEF BaseInv
<1>1. ASSUME NEW g \in Gen, TakeChunk(g)
      PROVE  TypeOK'
  <2>1. Head(queue[g]) \in Chunk /\ Tail(queue[g]) \in Seq(Chunk)
        /\ Len(Tail(queue[g])) <= Capacity
    BY <1>0, <1>1, TailFacts, ResurfaceAssumption DEF TakeChunk, TypeOK
  <2> QED
    BY <1>0, <1>1, <2>1 DEF TakeChunk, TypeOK
<1>2. ASSUME NEW g \in Gen, FinishChunk(g)
      PROVE  TypeOK'
  <2>1. held[g] \in Chunk
    BY <1>0, <1>2 DEF FinishChunk, BaseInv, WorkerInv, TypeOK
  <2>2. Append(written, held[g]) \in Seq(Chunk)
    BY <1>0, <2>1, AppendFacts DEF TypeOK
  <2> QED
    BY <1>0, <1>2, <2>2 DEF FinishChunk, TypeOK
<1>3. ASSUME NEW g \in Gen, End(g)
      PROVE  TypeOK'
  BY <1>0, <1>3 DEF End, TypeOK
<1>4. ASSUME NEW c \in Caller, ReadEnabled(c) \/ GiveUp(c) \/ ReceiveFromClosed(c)
                               \/ NothingToReceive(c) \/ Close(c)
      PROVE  TypeOK'
  <2>1. PICK at \in {"send", "peek", "close", "returned"} : Goes(c, at)
    BY <1>4 DEF ReadEnabled, GiveUp, ReceiveFromClosed, NothingToReceive, Close
  <2>2. call' \in [Caller -> [at : {"none", "start", "send", "peek", "putBack", "close", "returned"},
                              q : Gen \cup {None}, peek : Chunk \cup {None}]]
    BY <1>0, <2>1 DEF TypeOK, Goes
  <2>3. UNCHANGED <<timed, stuck, enabled, gen, queue, worker, held, over, main, next,
                    sent, written, moved, panicked>> /\ open' \subseteq open
    BY <1>4 DEF ReadEnabled, GiveUp, ReceiveFromClosed, NothingToReceive, Close
  <2> QED
    BY <1>0, <2>2, <2>3 DEF TypeOK
<1>5. ASSUME NEW c \in Caller, Evaluate(c)
      PROVE  TypeOK'
  <2> DEFINE Rec == [at : {"none", "start", "send", "peek", "putBack", "close", "returned"},
                     q : Gen \cup {None}, peek : Chunk \cup {None}]
  <2>1. gen \in Gen /\ call \in [Caller -> Rec]
    BY <1>0 DEF TypeOK
  <2>2. call' \in [Caller -> Rec]
    <3>1. call[c] \in Rec
      BY <2>1
    <3>2. [call[c] EXCEPT !.q = gen] \in Rec
      BY <2>1, <3>1
    <3>3. call' = [call EXCEPT ![c] = [call[c] EXCEPT !.q = gen]]
      BY <1>5 DEF Evaluate
    <3> HIDE DEF Rec
    <3> QED
      BY <2>1, <3>2, <3>3
  <2>3. UNCHANGED <<timed, stuck, enabled, gen, queue, open, worker, held, over, main, next,
                    sent, written, moved, panicked>>
    BY <1>5 DEF Evaluate
  <2> QED
    BY <1>0, <2>2, <2>3 DEF TypeOK
<1>6. ASSUME NEW c \in Caller, SendChunk(c)
      PROVE  TypeOK'
  <2>1. c \in Chunk
    BY <1>6 DEF SendChunk, BaseInv, CallInv, Caller
  <2>2. call[c].q \in Gen /\ Len(queue[call[c].q]) < Capacity
    BY <1>0, <1>6 DEF SendChunk, Sendable, TypeOK, BaseInv, WorkerInv
  <2>3. Append(queue[call[c].q], c) \in Seq(Chunk) /\ Append(sent, c) \in Seq(Chunk)
        /\ Len(Append(queue[call[c].q], c)) <= Capacity
    BY <1>0, <2>1, <2>2, AppendFacts, ResurfaceAssumption DEF TypeOK
  <2>4. call' \in [Caller -> [at : {"none", "start", "send", "peek", "putBack", "close", "returned"},
                              q : Gen \cup {None}, peek : Chunk \cup {None}]]
    BY <1>0, <1>6 DEF TypeOK, SendChunk, Goes
  <2> QED
    BY <1>0, <1>6, <2>2, <2>3, <2>4 DEF SendChunk, TypeOK
<1>7. ASSUME NEW c \in Caller, SendOnClosed(c) \/ CloseClosed(c)
      PROVE  TypeOK'
  BY <1>0, <1>7 DEF SendOnClosed, CloseClosed, Panics, TypeOK
<1>8. ASSUME NEW c \in Caller, Receive(c)
      PROVE  TypeOK'
  <2>1. Head(queue[gen]) \in Chunk /\ Tail(queue[gen]) \in Seq(Chunk)
        /\ Len(Tail(queue[gen])) <= Capacity
    BY <1>0, <1>8, TailFacts, ResurfaceAssumption DEF Receive, TypeOK
  <2> QED
    BY <1>0, <1>8, <2>1 DEF Receive, TypeOK
<1>9. ASSUME NEW c \in Caller, PutBack(c)
      PROVE  TypeOK'
  <2>1. call[c].peek \in Chunk
    BY <1>0, <1>9 DEF PutBack, BaseInv, CallInv, TypeOK
  <2>2. call[c].q \in Gen /\ Len(queue[call[c].q]) < Capacity
    BY <1>0, <1>9 DEF PutBack, Sendable, TypeOK, BaseInv, WorkerInv
  <2>3. Append(queue[call[c].q], call[c].peek) \in Seq(Chunk)
        /\ Len(Append(queue[call[c].q], call[c].peek)) <= Capacity
    BY <1>0, <2>1, <2>2, AppendFacts, ResurfaceAssumption DEF TypeOK
  <2> QED
    BY <1>0, <1>9, <2>2, <2>3 DEF PutBack, TypeOK
<1>10. CASE StartWrite
  <2>1. next' \in Chunk /\ next' \in Caller /\ over \subseteq 1 .. next'
    BY <1>0, <1>10, ResurfaceAssumption DEF StartWrite, TypeOK, Chunk, Caller
  <2> QED
    BY <1>0, <1>10, <2>1 DEF StartWrite, TypeOK, Goes
<1>11. CASE Deadline \/ WriteDone
  <2>1. next \in 1 .. next
    BY <1>0, <1>11 DEF Deadline, WriteDone, BaseInv, CallInv, TypeOK, Chunk
  <2> QED
    BY <1>0, <1>11, <2>1 DEF Deadline, WriteDone, TypeOK
<1>12. CASE BeginFlush
  BY <1>0, <1>12, Kinds DEF BeginFlush, TypeOK, Goes
<1>13. CASE WorkersDone
  <2>1. gen' \in Gen /\ open' \subseteq 1 .. gen'
    BY <1>0, <1>13, ResurfaceAssumption
    DEF WorkersDone, NewWorker, BaseInv, CallInv, TypeOK, Gen
  <2> QED
    BY <1>0, <1>13, <2>1, Kinds DEF WorkersDone, NewWorker, TypeOK, Absent
<1>14. CASE Enable
  BY <1>0, <1>14 DEF Enable, TypeOK
<1>15. CASE UNCHANGED vars
  BY <1>0, <1>15 DEF vars, TypeOK
<1> QED
  BY <1>1, <1>2, <1>3, <1>4, <1>5, <1>6, <1>7, <1>8, <1>9, <1>10, <1>11, <1>12, <1>13,
     <1>14, <1>15
  DEF Next, WorkerStep, WriteDataStep, LoopStep

LEMMA WorkerInvStep ==
  ASSUME BaseInv, [Next]_vars
  PROVE  WorkerInv'
<1> USE DEF config, queues, workers, history
<1>0. TypeOK /\ WorkerInv /\ CallInv
  BY DEF BaseInv
<1>1. ASSUME NEW g \in Gen, WorkerStep(g)
      PROVE  WorkerInv'
  <2>1. CASE TakeChunk(g)
    <3>1. g = gen /\ Head(queue[g]) \in Chunk
      BY <1>0, <2>1, TailFacts DEF TakeChunk, WorkerInv, TypeOK
    <3> QED
      BY <1>0, <2>1, <3>1, Kinds DEF TakeChunk, WorkerInv, TypeOK
  <2>2. CASE FinishChunk(g)
    BY <1>0, <2>2 DEF FinishChunk, WorkerInv, TypeOK
  <2>3. CASE End(g)
    BY <1>0, <2>3, Kinds DEF End, WorkerInv, TypeOK, Gen
  <2> QED
    BY <1>1, <2>1, <2>2, <2>3 DEF WorkerStep
<1>2. ASSUME NEW c \in Caller, WriteDataStep(c)
      PROVE  WorkerInv'
  <2>1. CASE SendChunk(c)
    <3>1. call[c].q = gen /\ gen \in open
      BY <1>0, <2>1 DEF SendChunk, Sendable, WorkerInv
    <3> QED
      BY <1>0, <2>1, <3>1 DEF SendChunk, WorkerInv, TypeOK
  <2>2. CASE PutBack(c)
    <3>1. call[c].q = gen /\ gen \in open
      BY <1>0, <2>2 DEF PutBack, Sendable, WorkerInv
    <3> QED
      BY <1>0, <2>2, <3>1 DEF PutBack, WorkerInv, TypeOK
  <2>3. CASE Receive(c)
    BY <1>0, <2>3 DEF Receive, WorkerInv, TypeOK
  <2>4. CASE Close(c)
    BY <1>0, <2>4 DEF Close, WorkerInv, TypeOK
  <2>5. CASE \/ ReadEnabled(c) \/ Evaluate(c) \/ GiveUp(c) \/ SendOnClosed(c)
             \/ ReceiveFromClosed(c) \/ NothingToReceive(c) \/ CloseClosed(c)
    BY <1>0, <2>5
    DEF ReadEnabled, Evaluate, GiveUp, SendOnClosed, ReceiveFromClosed, NothingToReceive,
        CloseClosed, Panics, WorkerInv
  <2> QED
    BY <1>2, <2>1, <2>2, <2>3, <2>4, <2>5 DEF WriteDataStep
<1>3. CASE WorkersDone
  <2>1. worker[gen] = "done" /\ open = {} /\ queue[gen] = <<>>
    BY <1>0, <1>3 DEF WorkersDone, AllWorkersDone, WorkerInv, TypeOK
  <2>2. gen' = gen + 1 /\ open' = {gen'} /\ gen' \in Gen /\ UNCHANGED <<queue, held>>
    BY <1>0, <1>3, <2>1, ResurfaceAssumption DEF WorkersDone, NewWorker, CallInv, TypeOK, Gen
  <2>3. \A g \in Gen : worker'[g] = IF g = gen + 1 THEN "idle" ELSE worker[g]
    BY <1>0, <1>3, <2>2 DEF WorkersDone, NewWorker, TypeOK
  <2> QED
    BY <1>0, <2>1, <2>2, <2>3, Kinds DEF WorkerInv, TypeOK, Gen
<1>4. CASE StartWrite \/ Deadline \/ WriteDone \/ BeginFlush \/ Enable \/ UNCHANGED vars
  BY <1>0, <1>4 DEF StartWrite, Deadline, WriteDone, BeginFlush, Enable, WorkerInv, vars
<1> QED
  BY <1>1, <1>2, <1>3, <1>4 DEF Next, LoopStep

(* A WriteData goes on and is not the last of its kind to do so.             *)
LEMMA CallGoes ==
  ASSUME TypeOK, CallInv, NEW c \in Caller, ~At(c, "none"), ~At(c, "putBack"),
         NEW where \in {"send", "peek", "close", "returned"}, Goes(c, where),
         where = "send" => c # Flush,
         where \in {"peek", "close"} => call[c].q = None,
         UNCHANGED <<enabled, main, next, gen>>
  PROVE  CallInv'
<1>1. /\ call'[c].at = where /\ call'[c].q = call[c].q /\ call'[c].peek = call[c].peek
      /\ \A d \in Caller \ {c} : call'[d] = call[d]
  BY DEF Goes, TypeOK
<1>2. /\ \A d \in Chunk : d > next => At(d, "none")'
      /\ At(Flush, "none")' <=> main' # "flushing"
      /\ ~At(Flush, "send")'
  BY <1>1, Kinds DEF CallInv, At
<1>3. ASSUME NEW d \in Caller
      PROVE  /\ call'[d].peek # None <=> At(d, "putBack")'
             /\ call'[d].at \in {"none", "start", "peek", "close"} => call'[d].q = None
  BY <1>1 DEF CallInv, At
<1> QED
  BY <1>2, <1>3 DEF CallInv

LEMMA CallInvStep ==
  ASSUME BaseInv, [Next]_vars
  PROVE  CallInv'
<1> USE DEF config, queues, workers, history
<1>0. TypeOK /\ WorkerInv /\ CallInv
  BY DEF BaseInv
<1>1. ASSUME NEW g \in Gen, WorkerStep(g)
      PROVE  CallInv'
  BY <1>0, <1>1 DEF WorkerStep, TakeChunk, FinishChunk, End, CallInv, At
<1>2. ASSUME NEW c \in Caller, WriteDataStep(c)
      PROVE  CallInv'
  <2>1. CASE ReadEnabled(c)
    <3>1. /\ enabled => c # Flush
          /\ call[c].q = None
      BY <1>0, <2>1 DEF ReadEnabled, CallInv, At
    <3> QED
      BY <1>0, <2>1, <3>1, CallGoes DEF ReadEnabled, At
  <2>2. CASE Evaluate(c)
    BY <1>0, <2>2 DEF Evaluate, CallInv, At, TypeOK
  <2>3. CASE SendChunk(c) \/ GiveUp(c)
    BY <1>0, <2>3, CallGoes DEF SendChunk, GiveUp, At
  <2>4. CASE ReceiveFromClosed(c) \/ NothingToReceive(c) \/ Close(c)
    <3>1. call[c].q = None /\ ~At(c, "none") /\ ~At(c, "putBack")
      BY <1>0, <2>4 DEF ReceiveFromClosed, NothingToReceive, Close, CallInv, At
    <3> QED
      BY <1>0, <2>4, <3>1, CallGoes DEF ReceiveFromClosed, NothingToReceive, Close
  <2>5. CASE SendOnClosed(c) \/ CloseClosed(c)
    BY <1>0, <2>5 DEF SendOnClosed, CloseClosed, Panics, CallInv, At
  <2>6. CASE Receive(c)
    <3>1. Head(queue[gen]) \in Chunk
      BY <1>0, <2>6, TailFacts DEF Receive, TypeOK
    <3> QED
      BY <1>0, <2>6, <3>1, Kinds DEF Receive, CallInv, At, TypeOK
  <2>7. CASE PutBack(c)
    BY <1>0, <2>7, Kinds DEF PutBack, CallInv, At, TypeOK
  <2> QED
    BY <1>2, <2>1, <2>2, <2>3, <2>4, <2>5, <2>6, <2>7 DEF WriteDataStep
<1>3. CASE StartWrite
  <2>1. next' = next + 1 /\ next' \in Chunk /\ next' \in Caller /\ At(next', "none")
    BY <1>0, <1>3, ResurfaceAssumption DEF StartWrite, CallInv, TypeOK, Chunk, Caller
  <2>2. call' = [call EXCEPT ![next + 1].at = "start"] /\ UNCHANGED <<enabled, gen>>
        /\ main = "idle" /\ main' = "writing"
    BY <1>3, <2>1 DEF StartWrite, Goes
  <2> QED
    BY <1>0, <2>1, <2>2, Kinds DEF CallInv, At, TypeOK, Chunk
<1>4. CASE Deadline \/ WriteDone \/ Enable \/ UNCHANGED vars
  BY <1>0, <1>4 DEF Deadline, WriteDone, Enable, CallInv, At, vars
<1>5. CASE BeginFlush
  BY <1>0, <1>5, Kinds DEF BeginFlush, Goes, CallInv, At, TypeOK
<1>6. CASE WorkersDone
  BY <1>0, <1>6, Kinds DEF WorkersDone, NewWorker, Absent, CallInv, At, TypeOK
<1> QED
  BY <1>1, <1>2, <1>3, <1>4, <1>5, <1>6 DEF Next, LoopStep

LEMMA BaseStep ==
  ASSUME BaseInv, [Next]_vars
  PROVE  BaseInv'
BY TypeStep, WorkerInvStep, CallInvStep DEF BaseInv

-----------------------------------------------------------------------------
(* The steps that move a chunk.                                              *)
Moves ==
  \/ \E g \in Gen : TakeChunk(g) \/ FinishChunk(g)
  \/ \E c \in Caller : SendChunk(c) \/ Receive(c) \/ PutBack(c)

Kept ==
  /\ queue'[gen'] = queue[gen] /\ held'[gen'] = held[gen]
  /\ UNCHANGED <<written, sent, moved>>
  /\ \A d \in Caller : call'[d].peek = call[d].peek
  /\ \A c \in Chunk : At(c, "returned") => At(c, "returned")'

LEMMA OthersKeep ==
  ASSUME BaseInv, [Next]_vars, ~Moves
  PROVE  Kept
<1> USE DEF config, queues, workers, history, Kept
<1>0. TypeOK /\ WorkerInv /\ CallInv
  BY DEF BaseInv
<1>1. ASSUME NEW g \in Gen, WorkerStep(g)
      PROVE  Kept
  <2>1. End(g)
    BY <1>1 DEF WorkerStep, Moves
  <2> QED
    BY <2>1 DEF End, At
<1>2. ASSUME NEW c \in Caller, WriteDataStep(c)
      PROVE  Kept
  <2>0. ~SendChunk(c) /\ ~Receive(c) /\ ~PutBack(c)
    BY DEF Moves
  <2>1. CASE \/ ReadEnabled(c) \/ GiveUp(c)
             \/ ReceiveFromClosed(c) \/ NothingToReceive(c) \/ Close(c)
    <3>1. PICK where : Goes(c, where) /\ (where = "returned" \/ ~At(c, "returned"))
      BY <2>1 DEF ReadEnabled, GiveUp, ReceiveFromClosed, NothingToReceive, Close, At
    <3>2. /\ \A d \in Caller : call'[d].peek = call[d].peek
          /\ \A d \in Caller : At(d, "returned") => At(d, "returned")'
      BY <1>0, <3>1 DEF Goes, At, TypeOK
    <3>3. UNCHANGED <<gen, queue, held, written, sent, moved>>
      BY <2>1 DEF ReadEnabled, GiveUp, ReceiveFromClosed, NothingToReceive, Close
    <3> QED
      BY <3>2, <3>3, Kinds
  <2>2. CASE Evaluate(c)
    BY <1>0, <2>2, Kinds DEF Evaluate, At, TypeOK
  <2>3. CASE SendOnClosed(c) \/ CloseClosed(c)
    BY <2>3 DEF SendOnClosed, CloseClosed, Panics, At
  <2> QED
    BY <1>2, <2>0, <2>1, <2>2, <2>3 DEF WriteDataStep
<1>3. CASE StartWrite
  <2>1. next' \in Caller /\ At(next', "none")
    BY <1>0, <1>3, ResurfaceAssumption DEF StartWrite, CallInv, TypeOK, Chunk, Caller
  <2>2. /\ \A d \in Caller : call'[d].peek = call[d].peek
        /\ \A d \in Caller : At(d, "returned") => At(d, "returned")'
    BY <1>0, <1>3, <2>1 DEF StartWrite, Goes, At, TypeOK
  <2> QED
    BY <1>3, <2>2, Kinds DEF StartWrite
<1>4. CASE BeginFlush
  <2>1. /\ \A d \in Caller : call'[d].peek = call[d].peek
        /\ \A d \in Chunk : At(d, "returned") => At(d, "returned")'
    BY <1>0, <1>4, Kinds DEF BeginFlush, Goes, At, TypeOK
  <2> QED
    BY <1>4, <2>1 DEF BeginFlush
<1>5. CASE WorkersDone
  <2>1. /\ gen + 1 \in Gen /\ gen' = gen + 1
        /\ UNCHANGED <<queue, held, written, sent, moved>>
        /\ worker[gen] = "done" /\ worker[gen + 1] = "none"
    <3>1. gen \in Gen /\ gen + 1 \in Gen /\ gen + 1 > gen
      BY <1>0, <1>5, ResurfaceAssumption DEF WorkersDone, CallInv, TypeOK, Gen
    <3> QED
      BY <1>0, <1>5, <3>1 DEF WorkersDone, NewWorker, AllWorkersDone, WorkerInv, TypeOK
  <2>2. queue'[gen'] = queue[gen] /\ held'[gen'] = held[gen]
    BY <1>0, <2>1 DEF WorkerInv, TypeOK, Gen
  <2>3. /\ \A d \in Caller : call'[d].peek = call[d].peek
        /\ \A d \in Chunk : At(d, "returned") => At(d, "returned")'
    BY <1>0, <1>5, Kinds DEF WorkersDone, NewWorker, Absent, At, TypeOK, CallInv
  <2> QED
    BY <2>1, <2>2, <2>3
<1>6. CASE Deadline \/ WriteDone \/ Enable \/ UNCHANGED vars
  BY <1>6 DEF Deadline, WriteDone, Enable, At, vars
<1> QED
  BY <1>1, <1>2, <1>3, <1>4, <1>5, <1>6 DEF Next, LoopStep

-----------------------------------------------------------------------------
(* Every chunk is in one place.                                              *)

LEMMA TakePlaces ==
  ASSUME BaseInv, PlacesInv, NEW g \in Gen, TakeChunk(g)
  PROVE  PlacesInv'
<1> USE DEF config, queues, workers, history
<1>0. TypeOK /\ WorkerInv
  BY DEF BaseInv
<1>1. g = gen /\ held[gen] = None /\ queue[gen] # <<>> /\ queue[gen] \in Seq(Chunk)
  BY <1>0 DEF TakeChunk, WorkerInv, TypeOK
<1>2. /\ queue'[gen'] = Tail(queue[gen]) /\ held'[gen'] = Head(queue[gen])
      /\ UNCHANGED <<written, sent, call>>
  BY <1>0, <1>1 DEF TakeChunk, TypeOK
<1>3. /\ IsInjective(queue'[gen'])
      /\ ToSet(queue[gen]) = ToSet(queue'[gen']) \cup {held'[gen']}
      /\ held'[gen'] \notin ToSet(queue'[gen'])
  BY <1>1, <1>2, TailSet DEF PlacesInv
<1>4. None \notin Chunk /\ \A c : Peeked(c)' <=> Peeked(c)
  BY <1>2, Kinds DEF Peeked
<1> QED
  BY <1>1, <1>2, <1>3, <1>4 DEF PlacesInv, Queued, Sent, Written, At

LEMMA FinishPlaces ==
  ASSUME BaseInv, PlacesInv, NEW g \in Gen, FinishChunk(g)
  PROVE  PlacesInv'
<1> USE DEF config, queues, workers, history
<1>0. TypeOK /\ WorkerInv
  BY DEF BaseInv
<1>1. g = gen /\ held[gen] \in Chunk
  <2>1. worker[g] = "busy" /\ held[g] # None
    BY <1>0 DEF FinishChunk, WorkerInv
  <2>2. ~(g > gen) /\ ~(g < gen)
    BY <1>0, <2>1 DEF WorkerInv
  <2>3. g \in Int /\ gen \in Int /\ held[g] \in Chunk \cup {None}
    BY <1>0 DEF TypeOK, Gen
  <2> QED
    BY <2>1, <2>2, <2>3
<1>2. /\ written' = Append(written, held[gen]) /\ held'[gen'] = None
      /\ UNCHANGED <<gen, queue, sent, call>>
  BY <1>0, <1>1 DEF FinishChunk, TypeOK
<1>3. Written' = Written \cup {held[gen]} /\ held[gen] \notin Written
  BY <1>0, <1>1, <1>2, AppendSet DEF Written, TypeOK, PlacesInv
<1>4. IsInjective(written')
  <2>1. written \in Seq(Chunk) /\ IsInjective(written) /\ held[gen] \notin ToSet(written)
    BY <1>0, <1>3 DEF PlacesInv, Written, TypeOK
  <2>2. IsInjective(Append(written, held[gen]))
    BY <1>1, <2>1, AppendDistinct
  <2> QED
    BY <1>2, <2>2
<1>5. None \notin Chunk /\ \A c : (Peeked(c)' <=> Peeked(c)) /\ (Queued(c)' <=> Queued(c))
  BY <1>2, Kinds DEF Peeked, Queued
<1> QED
  BY <1>1, <1>2, <1>3, <1>4, <1>5 DEF PlacesInv, Sent, At

LEMMA SendPlaces ==
  ASSUME BaseInv, PlacesInv, NEW c \in Caller, SendChunk(c)
  PROVE  PlacesInv'
<1> USE DEF config, queues, workers, history
<1>0. TypeOK /\ WorkerInv
  BY DEF BaseInv
<1>1. c \in Chunk /\ call[c].q = gen /\ ~At(c, "returned")
  BY <1>0 DEF SendChunk, Sendable, BaseInv, WorkerInv, CallInv, Caller, At
<1>2. /\ queue'[gen'] = Append(queue[gen], c) /\ sent' = Append(sent, c)
      /\ UNCHANGED <<gen, held, written>>
      /\ At(c, "returned")' /\ \A d \in Caller : call'[d].peek = call[d].peek
      /\ \A d \in Caller \ {c} : call'[d] = call[d]
  BY <1>0, <1>1 DEF SendChunk, Goes, At, TypeOK
<1>3. c \notin Sent /\ ~Queued(c) /\ held[gen] # c /\ ~Peeked(c) /\ c \notin Written
  BY <1>1 DEF PlacesInv
<1>4. IsInjective(queue'[gen']) /\ \A x : Queued(x)' <=> Queued(x) \/ x = c
  <2>1. queue[gen] \in Seq(Chunk) /\ IsInjective(queue[gen]) /\ c \notin ToSet(queue[gen])
    BY <1>0, <1>3 DEF PlacesInv, Queued, TypeOK
  <2>2. /\ IsInjective(Append(queue[gen], c))
        /\ ToSet(Append(queue[gen], c)) = ToSet(queue[gen]) \cup {c}
    BY <1>1, <2>1, AppendDistinct, AppendSet
  <2> QED
    BY <1>2, <2>2 DEF Queued
<1>5. /\ Sent' = Sent \cup {c}
      /\ \A x : Peeked(x)' <=> Peeked(x)
      /\ Written' = Written
  <2>1. sent \in Seq(Chunk)
    BY <1>0 DEF TypeOK
  <2> QED
    BY <1>1, <1>2, <2>1, AppendSet DEF Sent, Peeked, Written
<1>6. \A x \in Chunk \ {c} : At(x, "returned")' <=> At(x, "returned")
  BY <1>2, Kinds DEF At
<1> QED
  BY <1>1, <1>2, <1>3, <1>4, <1>5, <1>6 DEF PlacesInv

LEMMA ReceivePlaces ==
  ASSUME BaseInv, PlacesInv, NEW c \in Caller, Receive(c)
  PROVE  PlacesInv'
<1> USE DEF config, queues, workers, history
<1>0. TypeOK /\ CallInv
  BY DEF BaseInv
<1> DEFINE h == Head(queue[gen])
<1>1. queue[gen] # <<>> /\ queue[gen] \in Seq(Chunk) /\ call[c].peek = None
  BY <1>0 DEF Receive, CallInv, At, TypeOK
<1>2. /\ queue'[gen'] = Tail(queue[gen]) /\ call'[c].peek = h
      /\ UNCHANGED <<gen, held, written, sent>>
      /\ \A d \in Caller \ {c} : call'[d] = call[d]
  BY <1>0 DEF Receive, TypeOK
<1>3. /\ IsInjective(queue'[gen'])
      /\ \A x : Queued(x) <=> Queued(x)' \/ x = h
      /\ \A x : Queued(x)' => x # h
      /\ h \in Chunk
  <2>1. IsInjective(queue[gen])
    BY DEF PlacesInv
  <2>2. /\ IsInjective(Tail(queue[gen]))
        /\ ToSet(queue[gen]) = ToSet(Tail(queue[gen])) \cup {h}
        /\ h \notin ToSet(Tail(queue[gen])) /\ h \in Chunk
    BY <1>1, <2>1, TailSet, TailFacts
  <2> HIDE DEF h
  <2> QED
    BY <1>2, <2>2 DEF Queued
<1> HIDE DEF h
<1>4. held[gen] # h /\ ~Peeked(h) /\ h \notin Written /\ h # None
  BY <1>3, Kinds DEF PlacesInv
<1>5. \A x \in Chunk : Peeked(x)' <=> Peeked(x) \/ x = h
  BY <1>1, <1>2, Kinds DEF Peeked
<1>6. \A d, e \in Caller : call'[d].peek = call'[e].peek /\ call'[d].peek # None => d = e
  BY <1>2, <1>4 DEF PlacesInv, Peeked
<1>7. \A x \in Chunk : At(x, "returned") => At(x, "returned")'
  BY <1>2, Kinds DEF At, Receive
<1>8. UNCHANGED <<Sent, Written>> /\ held'[gen'] = held[gen]
  BY <1>2 DEF Sent, Written
<1>9. ASSUME NEW x \in Chunk
      PROVE  /\ Queued(x)' => held[gen] # x /\ ~Peeked(x)' /\ x \notin Written
             /\ held[gen] = x => ~Peeked(x)' /\ x \notin Written
             /\ Peeked(x)' => x \notin Written
             /\ x \in Sent <=> Queued(x)' \/ held[gen] = x \/ Peeked(x)' \/ x \in Written
             /\ x \in Sent => At(x, "returned")'
  BY <1>3, <1>4, <1>5, <1>7 DEF PlacesInv
<1> QED
  BY <1>2, <1>3, <1>6, <1>8, <1>9 DEF PlacesInv

LEMMA PutBackPlaces ==
  ASSUME BaseInv, PlacesInv, NEW c \in Caller, PutBack(c)
  PROVE  PlacesInv'
<1> USE DEF config, queues, workers, history
<1>0. TypeOK /\ CallInv
  BY DEF BaseInv
<1> DEFINE h == call[c].peek
<1>1. h \in Chunk /\ call[c].q = gen
  BY <1>0 DEF PutBack, Sendable, BaseInv, WorkerInv, CallInv, TypeOK
<1>2. /\ queue'[gen'] = Append(queue[gen], h) /\ call'[c].peek = None
      /\ UNCHANGED <<gen, held, written, sent>>
      /\ \A d \in Caller \ {c} : call'[d] = call[d]
  BY <1>0, <1>1 DEF PutBack, TypeOK
<1>3. Peeked(h)
  BY DEF Peeked
<1>4. \A d \in Caller \ {c} : call[d].peek # h
  BY <1>1, Kinds DEF PlacesInv
<1> HIDE DEF h
<1>5. held[gen] # h /\ ~Queued(h) /\ h \notin Written /\ h # None
  BY <1>1, <1>3, Kinds DEF PlacesInv
<1>6. IsInjective(queue'[gen']) /\ \A x : Queued(x)' <=> Queued(x) \/ x = h
  <2>1. queue[gen] \in Seq(Chunk) /\ IsInjective(queue[gen]) /\ h \notin ToSet(queue[gen])
    BY <1>0, <1>5 DEF PlacesInv, Queued, TypeOK
  <2>2. /\ IsInjective(Append(queue[gen], h))
        /\ ToSet(Append(queue[gen], h)) = ToSet(queue[gen]) \cup {h}
    BY <1>1, <2>1, AppendDistinct, AppendSet
  <2> QED
    BY <1>2, <2>2 DEF Queued
<1>8. \A x \in Chunk : Peeked(x)' <=> Peeked(x) /\ x # h
  BY <1>2, <1>4, Kinds DEF Peeked, h
<1>9. \A d, e \in Caller : call'[d].peek = call'[e].peek /\ call'[d].peek # None => d = e
  BY <1>2 DEF PlacesInv
<1>10. \A x \in Chunk : At(x, "returned") => At(x, "returned")'
  BY <1>2, Kinds DEF At, PutBack
<1> QED
  BY <1>2, <1>3, <1>5, <1>6, <1>8, <1>9, <1>10, <1>1 DEF PlacesInv, Sent, Written

LEMMA PlacesStep ==
  ASSUME BaseInv, PlacesInv, [Next]_vars
  PROVE  PlacesInv'
<1>1. CASE Moves
  BY <1>1, TakePlaces, FinishPlaces, SendPlaces, ReceivePlaces, PutBackPlaces DEF Moves
<1>2. CASE ~Moves
  <2>1. Kept
    BY <1>2, OthersKeep
  <2> QED
    BY <2>1 DEF Kept, PlacesInv, Queued, Peeked, Sent, Written
<1> QED
  BY <1>1, <1>2

-----------------------------------------------------------------------------
(* The line: first in, first out.                                            *)

LEMMA AcceptedChunk ==
  ASSUME TypeOK, NEW n \in 1 .. Len(sent)
  PROVE  sent[n] \in Chunk /\ sent[n] \in Sent /\ sent[n] # None /\ n \in Nat
BY Kinds DEF TypeOK, Sent, ToSet

LEMMA TakeLine ==
  ASSUME BaseInv, LineInv, NEW g \in Gen, TakeChunk(g)
  PROVE  LineInv'
<1> USE DEF config, queues, workers, history
<1>0. TypeOK /\ WorkerInv
  BY DEF BaseInv
<1>1. g = gen /\ held[gen] = None /\ queue[gen] # <<>> /\ queue[gen] \in Seq(Chunk)
  BY <1>0 DEF TakeChunk, WorkerInv, TypeOK
<1>2. /\ queue'[gen'] = Tail(queue[gen]) /\ held'[gen'] = Head(queue[gen])
      /\ UNCHANGED <<written, sent, moved, call>>
  BY <1>0, <1>1 DEF TakeChunk, TypeOK
<1>3. /\ Len(queue[gen]) \in Nat \ {0} /\ Len(queue'[gen']) = Len(queue[gen]) - 1
      /\ held'[gen'] = queue[gen][1]
      /\ \A i \in 1 .. Len(queue[gen]) - 1 : queue'[gen'][i] = queue[gen][i + 1]
  BY <1>1, <1>2, TailFacts
<1>4. ASSUME NEW m \in 1 .. Len(sent), NEW n \in 1 .. Len(sent),
             HeldAhead(m, n)' \/ QueuedAhead(m, n)'
      PROVE  QueuedAhead(m, n)
  <2>1. sent[m] # held[gen]
    BY <1>0, <1>1, AcceptedChunk
  <2>2. CASE HeldAhead(m, n)'
    <3>1. queue[gen][1] = sent[n] /\ sent[m] \notin Written /\ 1 \in 1 .. Len(queue[gen])
      BY <1>2, <1>3, <2>2 DEF HeldAhead, Written
    <3> QED
      BY <2>1, <3>1 DEF QueuedAhead
  <2>3. CASE QueuedAhead(m, n)'
    <3>1. PICK j \in 1 .. Len(queue'[gen']) :
            /\ queue'[gen'][j] = sent[n]
            /\ sent[m] \notin Written
            /\ sent[m] # queue[gen][1]
            /\ \A i \in 1 .. (j - 1) : queue'[gen'][i] # sent[m]
      BY <1>2, <1>3, <2>3 DEF QueuedAhead, Written
    <3>2. j + 1 \in 1 .. Len(queue[gen]) /\ queue[gen][j + 1] = sent[n]
      BY <1>3, <3>1
    <3>3. ASSUME NEW i \in 1 .. ((j + 1) - 1)
          PROVE  queue[gen][i] # sent[m]
      <4>1. CASE i = 1
        BY <3>1, <4>1
      <4>2. CASE i # 1
        <5>1. i - 1 \in 1 .. (j - 1) /\ i - 1 \in 1 .. Len(queue[gen]) - 1 /\ (i - 1) + 1 = i
          BY <1>3, <3>1, <4>2
        <5> QED
          BY <1>3, <3>1, <5>1
      <4> QED
        BY <4>1, <4>2
    <3> QED
      BY <2>1, <3>1, <3>2, <3>3 DEF QueuedAhead
  <2> QED
    BY <1>4, <2>2, <2>3
<1>5. \A m, n : WrittenAhead(m, n)' <=> WrittenAhead(m, n)
  BY <1>2 DEF WrittenAhead, Written
<1> QED
  BY <1>2, <1>4, <1>5 DEF LineInv, Overtakes

LEMMA FinishLine ==
  ASSUME BaseInv, PlacesInv, LineInv, NEW g \in Gen, FinishChunk(g)
  PROVE  LineInv'
<1> USE DEF config, queues, workers, history
<1>0. TypeOK /\ WorkerInv
  BY DEF BaseInv
<1>1. g = gen /\ held[gen] \in Chunk /\ written \in Seq(Chunk) /\ Len(written) \in Nat
  BY <1>0 DEF FinishChunk, WorkerInv, TypeOK
<1>2. /\ written' = Append(written, held[gen]) /\ held'[gen'] = None
      /\ UNCHANGED <<gen, queue, sent, moved, call>>
  BY <1>0, <1>1 DEF FinishChunk, TypeOK
<1>3. Written' = Written \cup {held[gen]}
  BY <1>1, <1>2, AppendSet DEF Written
<1>4. /\ Len(written') = Len(written) + 1
      /\ \A i \in 1 .. Len(written) : written'[i] = written[i]
      /\ written'[Len(written) + 1] = held[gen]
  BY <1>1, <1>2, AppendFacts
<1>5. ASSUME NEW m \in 1 .. Len(sent), NEW n \in 1 .. Len(sent),
             WrittenAhead(m, n)' \/ HeldAhead(m, n)' \/ QueuedAhead(m, n)'
      PROVE  WrittenAhead(m, n) \/ HeldAhead(m, n) \/ QueuedAhead(m, n)
  <2>1. ~HeldAhead(m, n)'
    BY <1>0, <1>2, AcceptedChunk DEF HeldAhead
  <2>2. CASE QueuedAhead(m, n)'
    BY <1>2, <1>3, <2>2 DEF QueuedAhead
  <2>3. CASE WrittenAhead(m, n)' /\ sent[n] \in Written
    <3>1. ASSUME NEW k \in 1 .. Len(written), NEW l \in 1 .. Len(written),
                 written[k] = sent[m], written[l] = sent[n]
          PROVE  l <= k
      <4>1. k \in 1 .. Len(written') /\ l \in 1 .. Len(written')
        BY <1>1, <1>4
      <4> QED
        BY <1>2, <1>4, <2>3, <3>1, <4>1 DEF WrittenAhead
    <3> QED
      BY <2>3, <3>1 DEF WrittenAhead
  <2>4. CASE WrittenAhead(m, n)' /\ sent[n] \notin Written
    <3>1. sent[n] = held[gen]
      BY <1>2, <1>3, <2>4 DEF WrittenAhead
    <3>2. sent[m] \notin Written
      <4>1. SUFFICES ASSUME sent[m] \in Written
                     PROVE  FALSE
        OBVIOUS
      <4>2. PICK k \in 1 .. Len(written) : written[k] = sent[m]
        BY <1>1, <4>1 DEF Written, ToSet
      <4>3. /\ k \in 1 .. Len(written') /\ written'[k] = sent'[m]
            /\ Len(written) + 1 \in 1 .. Len(written')
            /\ written'[Len(written) + 1] = sent'[n]
        BY <1>1, <1>2, <1>4, <3>1, <4>2
      <4>4. Len(written) + 1 <= k
        BY <2>4, <4>3 DEF WrittenAhead
      <4> QED
        BY <1>1, <4>2, <4>4
    <3> QED
      BY <3>1, <3>2 DEF HeldAhead
  <2> QED
    BY <1>5, <2>1, <2>2, <2>3, <2>4
<1> QED
  BY <1>2, <1>5 DEF LineInv, Overtakes

LEMMA SendLine ==
  ASSUME BaseInv, PlacesInv, LineInv, NEW c \in Caller, SendChunk(c)
  PROVE  LineInv'
<1> USE DEF config, queues, workers, history
<1>0. TypeOK /\ WorkerInv
  BY DEF BaseInv
<1>1. c \in Chunk /\ call[c].q = gen /\ ~At(c, "returned")
  BY <1>0 DEF SendChunk, Sendable, BaseInv, WorkerInv, CallInv, Caller, At
<1>2. /\ queue'[gen'] = Append(queue[gen], c) /\ sent' = Append(sent, c)
      /\ UNCHANGED <<gen, held, written, moved>>
      /\ \A d \in Caller : call'[d].peek = call[d].peek
  BY <1>0, <1>1 DEF SendChunk, Goes, TypeOK
<1>3. c \notin Sent /\ ~Queued(c) /\ held[gen] # c /\ c \notin Written
  BY <1>1 DEF PlacesInv
<1> DEFINE N == Len(sent)
           L == Len(queue[gen])
<1>4. /\ N \in Nat /\ Len(sent') = N + 1
      /\ \A i \in 1 .. N : sent'[i] = sent[i]
      /\ sent'[N + 1] = c
  BY <1>0, <1>1, <1>2, AppendFacts DEF TypeOK
<1>5. /\ L \in Nat /\ Len(queue'[gen']) = L + 1
      /\ \A i \in 1 .. L : queue'[gen'][i] = queue[gen][i]
      /\ queue'[gen'][L + 1] = c
      /\ \A i \in 1 .. L : queue[gen][i] # c
  <2>1. queue[gen] \in Seq(Chunk)
    BY <1>0 DEF TypeOK
  <2> QED
    BY <1>1, <1>2, <1>3, <2>1, AppendFacts DEF Queued, ToSet
<1>6. Written' = Written /\ held'[gen'] = held[gen]
  BY <1>2 DEF Written
<1>7. ASSUME NEW m \in 1 .. N, NEW n \in 1 .. N, Overtakes(m, n)'
      PROVE  Overtakes(m, n)
  <2>1. sent'[m] = sent[m] /\ sent'[n] = sent[n] /\ sent[n] # c
    BY <1>0, <1>3, <1>4, AcceptedChunk
  <2>2. m < n /\ sent[m] \notin moved
    BY <1>2, <1>7, <2>1 DEF Overtakes
  <2>3. WrittenAhead(m, n)' => WrittenAhead(m, n)
    BY <1>2, <1>6, <2>1 DEF WrittenAhead
  <2>4. HeldAhead(m, n)' => HeldAhead(m, n)
    BY <1>6, <2>1 DEF HeldAhead
  <2>5. ASSUME QueuedAhead(m, n)'
        PROVE  QueuedAhead(m, n)
    <3>1. PICK j \in 1 .. L + 1 :
            /\ queue'[gen'][j] = sent[n]
            /\ sent[m] \notin Written
            /\ sent[m] # held[gen]
            /\ \A i \in 1 .. (j - 1) : queue'[gen'][i] # sent[m]
      BY <1>5, <1>6, <2>1, <2>5 DEF QueuedAhead
    <3>2. j \in 1 .. L
      BY <1>5, <2>1, <3>1
    <3>3. queue[gen][j] = sent[n] /\ \A i \in 1 .. (j - 1) : queue[gen][i] # sent[m]
      <4>1. queue[gen][j] = sent[n]
        BY <1>5, <3>1, <3>2
      <4>2. ASSUME NEW i \in 1 .. (j - 1)
            PROVE  queue[gen][i] # sent[m]
        <5>1. i \in 1 .. L
          BY <1>5, <3>2
        <5>2. queue'[gen'][i] = queue[gen][i]
          BY <1>5, <5>1
        <5> QED
          BY <3>1, <5>2
      <4> QED
        BY <4>1, <4>2
    <3> QED
      BY <3>1, <3>2, <3>3 DEF QueuedAhead
  <2> QED
    BY <1>7, <2>2, <2>3, <2>4, <2>5 DEF Overtakes
<1>8. ASSUME NEW m \in 1 .. N, NEW n, n = N + 1, Overtakes(m, n)'
      PROVE  FALSE
  <2>1. sent'[m] = sent[m] /\ sent[m] \in Sent /\ sent[m] \in Chunk
    BY <1>0, <1>4, AcceptedChunk
  <2>2. ~Peeked(sent[m])
    BY <1>2, <1>8, <2>1 DEF Overtakes, LineInv, Peeked, Chunk, None
  <2>3. Queued(sent[m]) \/ held[gen] = sent[m] \/ sent[m] \in Written
    BY <2>1, <2>2 DEF PlacesInv
  <2>4. QueuedAhead(m, n)'
    BY <1>3, <1>4, <1>6, <1>8 DEF Overtakes, WrittenAhead, HeldAhead
  <2>5. PICK j \in 1 .. L + 1 :
          /\ queue'[gen'][j] = c
          /\ sent[m] \notin Written
          /\ sent[m] # held[gen]
          /\ \A i \in 1 .. (j - 1) : queue'[gen'][i] # sent[m]
    BY <1>4, <1>5, <1>6, <1>8, <2>1, <2>4 DEF QueuedAhead
  <2>6. j = L + 1
    BY <1>5, <2>5
  <2>7. PICK i \in 1 .. L : queue[gen][i] = sent[m]
    <3>1. Queued(sent[m])
      BY <2>3, <2>5
    <3>2. queue[gen] \in Seq(Chunk)
      BY <1>0 DEF TypeOK
    <3> QED
      BY <3>1, <3>2 DEF Queued, ToSet
  <2> QED
    <3>1. i \in 1 .. (j - 1) /\ queue'[gen'][i] = queue[gen][i]
      BY <1>5, <2>6, <2>7
    <3> QED
      BY <2>5, <2>7, <3>1
<1>9. \A d \in Caller : call'[d].peek # None => call'[d].peek \in moved'
  BY <1>2 DEF LineInv
<1>10. ASSUME NEW m \in 1 .. N + 1, NEW n \in 1 .. N + 1, Overtakes(m, n)'
       PROVE  FALSE
  <2>1. m < n
    BY <1>10 DEF Overtakes
  <2>2. m \in 1 .. N /\ (n \in 1 .. N \/ n = N + 1)
    BY <1>4, <2>1
  <2> QED
    BY <1>7, <1>8, <1>10, <2>2 DEF LineInv
<1> HIDE DEF N
<1> QED
  BY <1>4, <1>9, <1>10 DEF LineInv

LEMMA ReceiveLine ==
  ASSUME BaseInv, PlacesInv, LineInv, NEW c \in Caller, Receive(c)
  PROVE  LineInv'
<1> USE DEF config, queues, workers, history
<1>0. TypeOK
  BY DEF BaseInv
<1>1. queue[gen] # <<>> /\ queue[gen] \in Seq(Chunk)
  BY <1>0 DEF Receive, TypeOK
<1>2. /\ queue'[gen'] = Tail(queue[gen]) /\ call'[c].peek = Head(queue[gen])
      /\ moved' = moved \cup {Head(queue[gen])}
      /\ UNCHANGED <<gen, held, written, sent>>
      /\ \A d \in Caller \ {c} : call'[d] = call[d]
  BY <1>0 DEF Receive, TypeOK
<1>3. /\ Len(queue[gen]) \in Nat \ {0} /\ Len(queue'[gen']) = Len(queue[gen]) - 1
      /\ Head(queue[gen]) = queue[gen][1]
      /\ \A i \in 1 .. Len(queue[gen]) - 1 : queue'[gen'][i] = queue[gen][i + 1]
  BY <1>1, <1>2, TailFacts
<1>4. ASSUME NEW m \in 1 .. Len(sent), NEW n \in 1 .. Len(sent),
             sent[m] \notin moved', QueuedAhead(m, n)'
      PROVE  QueuedAhead(m, n)
  <2>1. PICK j \in 1 .. Len(queue'[gen']) :
          /\ queue'[gen'][j] = sent[n]
          /\ sent[m] \notin Written
          /\ sent[m] # held[gen]
          /\ \A i \in 1 .. (j - 1) : queue'[gen'][i] # sent[m]
    BY <1>2, <1>3, <1>4 DEF QueuedAhead, Written
  <2>2. j + 1 \in 1 .. Len(queue[gen]) /\ queue[gen][j + 1] = sent[n]
    BY <1>3, <2>1
  <2>3. ASSUME NEW i \in 1 .. ((j + 1) - 1)
        PROVE  queue[gen][i] # sent[m]
    <3>1. CASE i = 1
      BY <1>2, <1>3, <1>4, <3>1
    <3>2. CASE i # 1
      <4>1. i - 1 \in 1 .. (j - 1) /\ i - 1 \in 1 .. Len(queue[gen]) - 1 /\ (i - 1) + 1 = i
        BY <1>3, <2>1, <3>2
      <4> QED
        BY <1>3, <2>1, <4>1
    <3> QED
      BY <3>1, <3>2
  <2> QED
    BY <2>1, <2>2, <2>3 DEF QueuedAhead
<1>5. \A m, n : /\ WrittenAhead(m, n)' <=> WrittenAhead(m, n)
                /\ HeldAhead(m, n)' <=> HeldAhead(m, n)
  BY <1>2 DEF WrittenAhead, HeldAhead, Written
<1>6. \A d \in Caller : call'[d].peek # None => call'[d].peek \in moved'
  BY <1>2 DEF LineInv
<1> QED
  BY <1>2, <1>4, <1>5, <1>6 DEF LineInv, Overtakes

LEMMA PutBackLine ==
  ASSUME BaseInv, PlacesInv, LineInv, NEW c \in Caller, PutBack(c)
  PROVE  LineInv'
<1> USE DEF config, queues, workers, history
<1>0. TypeOK /\ CallInv
  BY DEF BaseInv
<1>1. /\ call[c].peek \in Chunk /\ call[c].q = gen /\ call[c].peek \in moved
  BY <1>0 DEF PutBack, Sendable, BaseInv, WorkerInv, CallInv, TypeOK, LineInv
<1>2. /\ queue'[gen'] = Append(queue[gen], call[c].peek) /\ call'[c].peek = None
      /\ UNCHANGED <<gen, held, written, sent, moved>>
      /\ \A d \in Caller \ {c} : call'[d] = call[d]
  BY <1>0, <1>1 DEF PutBack, TypeOK
<1> DEFINE L == Len(queue[gen])
<1>3. /\ L \in Nat /\ Len(queue'[gen']) = L + 1
      /\ \A i \in 1 .. L : queue'[gen'][i] = queue[gen][i]
      /\ queue'[gen'][L + 1] = call[c].peek
  BY <1>0, <1>1, <1>2, AppendFacts DEF TypeOK
<1>4. ASSUME NEW m \in 1 .. Len(sent), NEW n \in 1 .. Len(sent),
             sent[m] \notin moved, QueuedAhead(m, n)'
      PROVE  QueuedAhead(m, n)
  <2>1. PICK j \in 1 .. L + 1 :
          /\ queue'[gen'][j] = sent[n]
          /\ sent[m] \notin Written
          /\ sent[m] # held[gen]
          /\ \A i \in 1 .. (j - 1) : queue'[gen'][i] # sent[m]
    BY <1>2, <1>3, <1>4 DEF QueuedAhead, Written
  <2>2. sent[m] \in Chunk /\ sent[m] \in Sent /\ ~Peeked(sent[m])
    BY <1>0, <1>4, AcceptedChunk, Kinds DEF LineInv, Peeked
  <2>3. Queued(sent[m])
    BY <2>1, <2>2 DEF PlacesInv
  <2>4. PICK i \in 1 .. L : queue[gen][i] = sent[m]
    BY <1>0, <2>3 DEF Queued, ToSet, TypeOK
  <2>5. j \in 1 .. L
    BY <1>3, <2>1, <2>4
  <2>6. queue[gen][j] = sent[n] /\ \A k \in 1 .. (j - 1) : queue[gen][k] # sent[m]
    BY <1>3, <2>1, <2>5
  <2> QED
    BY <2>1, <2>5, <2>6 DEF QueuedAhead
<1>5. \A m, n : /\ WrittenAhead(m, n)' <=> WrittenAhead(m, n)
                /\ HeldAhead(m, n)' <=> HeldAhead(m, n)
  BY <1>2 DEF WrittenAhead, HeldAhead, Written
<1>6. \A d \in Caller : call'[d].peek # None => call'[d].peek \in moved'
  BY <1>2 DEF LineInv
<1> QED
  BY <1>2, <1>4, <1>5, <1>6 DEF LineInv, Overtakes

LEMMA LineStep ==
  ASSUME BaseInv, PlacesInv, LineInv, [Next]_vars
  PROVE  LineInv'
<1>1. CASE Moves
  BY <1>1, TakeLine, FinishLine, SendLine, ReceiveLine, PutBackLine DEF Moves
<1>2. CASE ~Moves
  <2>1. Kept
    BY <1>2, OthersKeep
  <2> QED
    BY <2>1 DEF Kept, LineInv, Overtakes, WrittenAhead, HeldAhead, QueuedAhead, Written
<1> QED
  BY <1>1, <1>2

-----------------------------------------------------------------------------
(* Without a timeout.                                                        *)

LEMMA UntimedStep ==
  ASSUME BaseInv, UntimedInv, [Next]_vars, ~timed
  PROVE  UntimedInv'
<1> USE DEF config, queues, workers, history
<1>0. TypeOK /\ WorkerInv /\ CallInv
  BY DEF BaseInv
<1>u. /\ ~panicked
      /\ \A c \in over : At(c, "returned")
      /\ \A c \in Chunk : At(c, "returned") => c \in Sent
      /\ \A c \in Chunk : call[c].at \notin {"none", "returned"} =>
           main = "writing" /\ c = next /\ call[c].at \in {"start", "send"} /\ AtOpen(c)
      /\ main # "flushing" => gen \in open
      /\ main = "flushing" /\ ~At(Flush, "returned") => AtOpen(Flush)
      /\ main = "enabling" => queue[gen] = <<>> /\ held[gen] = None
  BY DEF UntimedInv
<1>o. over \subseteq Chunk /\ over \subseteq 1 .. next /\ next \in Nat
  BY <1>0, ResurfaceAssumption DEF TypeOK, Chunk
<1>1. ASSUME NEW g \in Gen, WorkerStep(g)
      PROVE  UntimedInv'
  <2>1. UNCHANGED <<panicked, over, call, sent, main, next, gen, open>>
    BY <1>1 DEF WorkerStep, TakeChunk, FinishChunk, End
  <2>2. main = "enabling" => UNCHANGED <<queue, held>>
    <3>1. CASE End(g)
      BY <3>1 DEF End
    <3>2. CASE TakeChunk(g) \/ FinishChunk(g)
      <4>1. queue[g] # <<>> \/ held[g] # None
        BY <1>0, <3>2 DEF TakeChunk, FinishChunk, WorkerInv
      <4>2. g = gen
        <5>1. gen \in Nat /\ g \in Nat
          BY <1>0, Kinds DEF TypeOK
        <5> QED
          BY <1>0, <4>1, <5>1 DEF WorkerInv
      <4> QED
        BY <1>u, <4>1, <4>2
    <3> QED
      BY <1>1, <3>1, <3>2 DEF WorkerStep
  <2> QED
    BY <1>u, <2>1, <2>2 DEF UntimedInv, At, AtOpen, Sent
<1>2. ASSUME NEW c \in Chunk, WriteDataStep(c)
      PROVE  UntimedInv'
  <2>1. call[c].at \notin {"none", "returned"}
    BY <1>2
    DEF WriteDataStep, ReadEnabled, Evaluate, SendChunk, GiveUp, SendOnClosed, Receive,
        ReceiveFromClosed, NothingToReceive, PutBack, Close, CloseClosed, At
  <2>2. /\ main = "writing" /\ c = next /\ call[c].at \in {"start", "send"} /\ AtOpen(c)
        /\ enabled /\ c \notin over /\ c \in Caller /\ ~At(c, "returned")
    BY <1>0, <1>u, <2>1, Kinds DEF CallInv, At
  <2>3. CASE ReadEnabled(c) \/ Evaluate(c)
    <3>1. UNCHANGED <<panicked, over, sent, main, next, gen, open>>
      BY <2>3 DEF ReadEnabled, Evaluate
    <3>2. /\ call'[c].at = "send" /\ call'[c].q \in {None, gen}
          /\ \A d \in Caller \ {c} : call'[d] = call[d]
      <4>1. CASE ReadEnabled(c)
        BY <1>0, <2>2, <4>1 DEF ReadEnabled, Goes, AtOpen, At, TypeOK
      <4>2. CASE Evaluate(c)
        BY <1>0, <2>2, <4>2 DEF Evaluate, At, TypeOK
      <4> QED
        BY <2>3, <4>1, <4>2
    <3>3. \A d \in over : At(d, "returned")'
      BY <1>o, <1>u, <2>2, <3>2 DEF At, Caller
    <3> QED
      BY <1>u, <2>2, <3>1, <3>2, <3>3, Kinds DEF UntimedInv, At, AtOpen, Sent
  <2>4. CASE SendChunk(c)
    <3>1. UNCHANGED <<panicked, over, main, next, gen, open>> /\ sent' = Append(sent, c)
      BY <2>4 DEF SendChunk
    <3>2. Sent' = Sent \cup {c}
      BY <1>0, <3>1, AppendSet DEF Sent, TypeOK
    <3>3. /\ call'[c].at = "returned"
          /\ \A d \in Caller \ {c} : call'[d] = call[d]
      BY <1>0, <2>2, <2>4 DEF SendChunk, Goes, TypeOK
    <3>4. \A d \in over : At(d, "returned")'
      BY <1>o, <1>u, <2>2, <3>3 DEF At, Caller
    <3> QED
      BY <1>u, <2>2, <3>1, <3>2, <3>3, <3>4, Kinds DEF UntimedInv, At, AtOpen
  <2>5. ~GiveUp(c) /\ ~SendOnClosed(c) /\ ~Receive(c) /\ ~ReceiveFromClosed(c)
        /\ ~NothingToReceive(c) /\ ~PutBack(c) /\ ~Close(c) /\ ~CloseClosed(c)
    BY <2>2
    DEF GiveUp, SendOnClosed, Receive, ReceiveFromClosed, NothingToReceive, PutBack, Close,
        CloseClosed, At, AtOpen
  <2> QED
    BY <1>2, <2>3, <2>4, <2>5 DEF WriteDataStep
<1>3. ASSUME WriteDataStep(Flush)
      PROVE  UntimedInv'
  <2>1. call[Flush].at \notin {"none", "returned", "send"} /\ Flush \in Caller
    BY <1>0, <1>3, Kinds
    DEF WriteDataStep, ReadEnabled, Evaluate, SendChunk, GiveUp, SendOnClosed, Receive,
        ReceiveFromClosed, NothingToReceive, PutBack, Close, CloseClosed, At, CallInv
  <2>2. main = "flushing" /\ AtOpen(Flush) /\ ~enabled
    BY <1>0, <1>u, <2>1 DEF At, CallInv
  <2>3. ~SendOnClosed(Flush) /\ ~ReceiveFromClosed(Flush) /\ ~CloseClosed(Flush)
        /\ ~SendChunk(Flush) /\ ~GiveUp(Flush)
    BY <2>1, <2>2
    DEF SendOnClosed, ReceiveFromClosed, CloseClosed, SendChunk, GiveUp, At, AtOpen
  <2>4. /\ UNCHANGED <<panicked, over, sent, main, next, gen>>
        /\ \A d \in Chunk : call'[d] = call[d]
    BY <1>0, <1>3, <2>3, Kinds
    DEF WriteDataStep, ReadEnabled, Evaluate, Receive, NothingToReceive, PutBack, Close, Goes,
        TypeOK
  <2>5. CASE Close(Flush)
    <3>1. call'[Flush].at = "returned"
      BY <1>0, <2>1, <2>5 DEF Close, Goes, TypeOK
    <3> QED
      BY <1>o, <1>u, <2>2, <2>4, <3>1 DEF UntimedInv, At, AtOpen, Sent
  <2>6. CASE ~Close(Flush)
    <3>1. open' = open /\ call'[Flush].q \in {None, gen}
      BY <1>0, <1>3, <2>1, <2>2, <2>3, <2>6
      DEF WriteDataStep, ReadEnabled, Evaluate, Receive, NothingToReceive, PutBack, Goes,
          TypeOK, AtOpen
    <3> QED
      BY <1>o, <1>u, <2>2, <2>4, <3>1 DEF UntimedInv, At, AtOpen, Sent
  <2> QED
    BY <2>5, <2>6
<1>4. CASE StartWrite
  <2>1. /\ next' = next + 1 /\ next' \in Chunk /\ next' \in Caller /\ At(next', "none")
        /\ main = "idle" /\ main' = "writing"
        /\ UNCHANGED <<panicked, over, sent, gen, open>>
    BY <1>0, <1>4, ResurfaceAssumption DEF StartWrite, CallInv, TypeOK, Chunk, Caller
  <2>2. /\ call'[next'].at = "start" /\ call'[next'].q = None
        /\ \A d \in Caller \ {next'} : call'[d] = call[d]
    BY <1>0, <1>4, <2>1 DEF StartWrite, Goes, At, TypeOK, CallInv
  <2>3. \A d \in over : d # next' /\ d \in Caller
    BY <1>o, <2>1 DEF Caller
  <2> QED
    BY <1>u, <2>1, <2>2, <2>3, Kinds DEF UntimedInv, At, AtOpen, Sent
<1>5. CASE WriteDone
  BY <1>0, <1>5, <1>u DEF WriteDone, UntimedInv, At, AtOpen, Sent
<1>6. CASE Deadline
  BY <1>6 DEF Deadline
<1>7. CASE BeginFlush
  <2>1. /\ call'[Flush].at = "start" /\ call'[Flush].q = None
        /\ \A d \in Chunk : call'[d] = call[d]
    BY <1>0, <1>7, Kinds DEF BeginFlush, Goes, At, TypeOK, CallInv
  <2> QED
    BY <1>o, <1>7, <1>u, <2>1 DEF BeginFlush, UntimedInv, At, AtOpen, Sent, TypeOK, Chunk
<1>8. CASE WorkersDone
  <2>1. /\ gen + 1 \in Gen /\ gen' = gen + 1 /\ gen' \in open' /\ main = "flushing"
        /\ main' = "enabling"
        /\ UNCHANGED <<panicked, over, sent, next>>
    BY <1>0, <1>8, ResurfaceAssumption DEF WorkersDone, NewWorker, CallInv, TypeOK, Gen
  <2>2. \A d \in Chunk : call'[d] = call[d]
    BY <1>0, <1>8, Kinds DEF WorkersDone, NewWorker, TypeOK
  <2>3. queue'[gen'] = <<>> /\ held'[gen'] = None
    BY <1>0, <1>8, <2>1 DEF WorkersDone, NewWorker, WorkerInv, TypeOK, Gen
  <2> QED
    BY <1>o, <1>u, <2>1, <2>2, <2>3 DEF UntimedInv, At, AtOpen, Sent
<1>9. CASE Enable
  BY <1>9, <1>u DEF Enable, UntimedInv, At, AtOpen, Sent
<1>10. CASE UNCHANGED vars
  BY <1>10, <1>u DEF vars, UntimedInv, At, AtOpen, Sent
<1> QED
  BY <1>1, <1>2, <1>3, <1>4, <1>5, <1>6, <1>7, <1>8, <1>9, <1>10
  DEF Next, LoopStep, Caller

-----------------------------------------------------------------------------
(* What follows from the inductive invariant.                                *)

LEMMA OtherInits ==
  ASSUME ResurfaceInit
  PROVE  PlacesInv /\ LineInv /\ UntimedInv
<1>1. queue[gen] = <<>> /\ held[gen] = None
  BY Kinds DEF ResurfaceInit
<1>2. \A d \in Caller : call[d].at = "none" /\ call[d].peek = None /\ call[d].q = None
  BY DEF ResurfaceInit, Absent
<1>3. /\ Sent = {} /\ Written = {} /\ \A c : ~Queued(c)
      /\ IsInjective(queue[gen]) /\ IsInjective(written)
  BY <1>1 DEF ResurfaceInit, Sent, Written, Queued, ToSet, IsInjective
<1>4. PlacesInv
  BY <1>1, <1>2, <1>3, Kinds DEF PlacesInv, Peeked
<1>5. LineInv
  BY <1>2 DEF ResurfaceInit, LineInv
<1>6. UntimedInv
  BY <1>2, Kinds DEF ResurfaceInit, UntimedInv, At
<1> QED
  BY <1>4, <1>5, <1>6

(* In every reachable state of the pump (WriteData, the worker and Flush     *)
(* interleaved in any way) the inductive invariant holds.                    *)
THEOREM ResurfaceInductive == Spec => []IInv
<1>1. ResurfaceInit => IInv
  BY BaseInit, OtherInits DEF IInv
<1>2. IInv /\ [Next]_vars => IInv'
  <2> SUFFICES ASSUME IInv, [Next]_vars
               PROVE  IInv'
    OBVIOUS
  <2>1. BaseInv' /\ PlacesInv' /\ LineInv'
    BY BaseStep, PlacesStep, LineStep DEF IInv
  <2>2. timed' = timed
    BY DEF vars, config, Next, WorkerStep, WriteDataStep, LoopStep, TakeChunk, FinishChunk, End,
           ReadEnabled, Evaluate, SendChunk, GiveUp, SendOnClosed, Receive, ReceiveFromClosed,
           NothingToReceive, PutBack, Close, CloseClosed, Panics, WriteDone, WorkersDone,
           NewWorker, Enable, StartWrite, Deadline, BeginFlush
  <2>3. UntimedInv'
    <3>1. CASE timed
      BY <2>2, <3>1 DEF UntimedInv
    <3>2. CASE ~timed
      BY <3>2, UntimedStep DEF IInv
    <3> QED
      BY <3>1, <3>2
  <2> QED
    BY <2>1, <2>3 DEF IInv
<1> QED
  BY <1>1, <1>2, PTL DEF Spec

LEMMA OnePlace ==
  ASSUME IInv, NEW c \in Chunk
  PROVE  Cardinality(InQueues(c)) + Cardinality(InHands(c)) + Cardinality(InCalls(c))
           + Cardinality({n \in DOMAIN written : written[n] = c})
         = IF c \in Sent THEN 1 ELSE 0
<1>0. TypeOK /\ WorkerInv /\ CallInv /\ PlacesInv /\ c # None
  BY Kinds DEF IInv, BaseInv
<1>1. \A g \in Gen : g # gen => queue[g] = <<>> /\ held[g] = None
  <2>1. ASSUME NEW g \in Gen, g # gen
        PROVE  held[g] = None
    <3>1. g \in Nat /\ gen \in Nat
      BY <1>0, Kinds DEF TypeOK
    <3> QED
      BY <1>0, <2>1, <3>1 DEF WorkerInv
  <2> QED
    BY <1>0, <2>1 DEF WorkerInv
<1>2. Cardinality(InQueues(c)) = IF Queued(c) THEN 1 ELSE 0
  <2>1. queue[gen] \in Seq(Chunk) /\ Len(queue[gen]) <= Capacity /\ IsInjective(queue[gen])
    BY <1>0 DEF TypeOK, PlacesInv
  <2>2. /\ \A i, j \in 1 .. Len(queue[gen]) : queue[gen][i] = c /\ queue[gen][j] = c => i = j
        /\ Queued(c) <=> \E i \in 1 .. Len(queue[gen]) : queue[gen][i] = c
    BY <2>1 DEF IsInjective, Queued, ToSet
  <2>3. ASSUME NEW p \in InQueues(c)
        PROVE  p[1] = gen /\ p[2] \in 1 .. Len(queue[gen]) /\ queue[gen][p[2]] = c
    <3>1. /\ p \in Gen \X (1 .. Capacity) /\ p[2] <= Len(queue[p[1]])
          /\ queue[p[1]][p[2]] = c
      BY DEF InQueues
    <3>2. p[1] = gen
      <4>1. p[2] >= 1 /\ p[2] \in Nat /\ p[1] \in Gen
        BY <3>1, ResurfaceAssumption
      <4>2. queue[p[1]] # <<>>
        BY <3>1, <4>1
      <4> QED
        BY <1>1, <4>1, <4>2
    <3> QED
      BY <2>1, <3>1, <3>2, ResurfaceAssumption
  <2>4. \A x, y \in InQueues(c) : x = y
    <3> SUFFICES ASSUME NEW x \in InQueues(c), NEW y \in InQueues(c)
                 PROVE  x = y
      OBVIOUS
    <3>1. x[1] = y[1] /\ x[2] = y[2]
      BY <2>2, <2>3
    <3>2. x \in Gen \X (1 .. Capacity) /\ y \in Gen \X (1 .. Capacity)
      BY DEF InQueues
    <3> QED
      BY <3>1, <3>2
  <2>5. Queued(c) <=> InQueues(c) # {}
    <3>1. ASSUME Queued(c)
          PROVE  InQueues(c) # {}
      <4>1. PICK i \in 1 .. Len(queue[gen]) : queue[gen][i] = c
        BY <2>2, <3>1
      <4>2. <<gen, i>> \in Gen \X (1 .. Capacity)
        BY <1>0, <2>1, <4>1, ResurfaceAssumption DEF TypeOK
      <4>3. <<gen, i>>[1] = gen /\ <<gen, i>>[2] = i /\ i <= Len(queue[gen])
        BY <2>1, <4>1
      <4> QED
        BY <4>1, <4>2, <4>3 DEF InQueues
    <3>2. ASSUME InQueues(c) # {}
          PROVE  Queued(c)
      BY <2>2, <2>3, <3>2
    <3> QED
      BY <3>1, <3>2
  <2> QED
    BY <2>4, <2>5, AtMostOne
<1>3. Cardinality(InHands(c)) = IF held[gen] = c THEN 1 ELSE 0
  <2>1. \A g \in InHands(c) : g = gen /\ held[gen] = c
    BY <1>0, <1>1 DEF InHands
  <2>2. held[gen] = c => gen \in InHands(c)
    BY <1>0 DEF InHands, TypeOK
  <2> QED
    BY <2>1, <2>2, AtMostOne
<1>4. Cardinality(InCalls(c)) = IF Peeked(c) THEN 1 ELSE 0
  <2>1. \A d, e \in InCalls(c) : d = e
    BY <1>0 DEF InCalls, PlacesInv
  <2>2. Peeked(c) <=> InCalls(c) # {}
    BY DEF InCalls, Peeked
  <2> QED
    BY <2>1, <2>2, AtMostOne
<1>5. Cardinality({n \in DOMAIN written : written[n] = c}) = IF c \in Written THEN 1 ELSE 0
  <2> DEFINE W == {n \in DOMAIN written : written[n] = c}
  <2>1. \A x, y \in W : x = y
    BY <1>0 DEF PlacesInv, IsInjective
  <2>2. c \in Written <=> W # {}
    BY DEF Written, ToSet
  <2> HIDE DEF W
  <2>3. Cardinality(W) = IF c \in Written THEN 1 ELSE 0
    BY <2>1, <2>2, AtMostOne
  <2> QED
    BY <2>3 DEF W
<1>6. /\ Queued(c) => held[gen] # c /\ ~Peeked(c) /\ c \notin Written
      /\ held[gen] = c => ~Peeked(c) /\ c \notin Written
      /\ Peeked(c) => c \notin Written
      /\ c \in Sent <=> Queued(c) \/ held[gen] = c \/ Peeked(c) \/ c \in Written
  BY <1>0 DEF PlacesInv
<1> QED
  BY <1>2, <1>3, <1>4, <1>5, <1>6

(* The fields of the pump, its queues and its calls have the values that     *)
(* their types allow, and no queue holds more than its capacity.             *)
THEOREM ResurfaceTyped == Spec => []TypeOK
<1>1. IInv => TypeOK
  BY DEF IInv, BaseInv
<1> QED
  BY <1>1, ResurfaceInductive, PTL

(* No chunk that WriteData sent to rp.data is lost, written twice or in two  *)
(* places, through WriteData's look at the queue, Flush and calls left       *)
(* behind; and writeData writes in the order the chunks were sent, but for   *)
(* those that WriteData took from the queue and sent back.                   *)
THEOREM ChunksConserved == Spec => []Conserved
<1>1. IInv => InOrder
  <2> SUFFICES ASSUME IInv, NEW m \in DOMAIN sent, NEW n \in DOMAIN sent,
                      m < n, sent[n] \in Written, sent[m] \notin moved
               PROVE  \E k, l \in DOMAIN written :
                        k < l /\ written[k] = sent[m] /\ written[l] = sent[n]
    BY DEF InOrder
  <2>1. /\ DOMAIN sent = 1 .. Len(sent)
        /\ DOMAIN written = 1 .. Len(written) /\ Len(written) \in Nat
    BY DEF IInv, BaseInv, TypeOK
  <2>2. ~WrittenAhead(m, n)
    BY <2>1 DEF IInv, LineInv, Overtakes
  <2>3. PICK k, l \in 1 .. Len(written) :
          written[k] = sent[m] /\ written[l] = sent[n] /\ ~(l <= k)
    BY <2>2 DEF WrittenAhead
  <2>4. k < l
    BY <2>1, <2>3
  <2> QED
    BY <2>1, <2>3, <2>4
<1>2. IInv => Conserved
  BY <1>1, OnePlace DEF Conserved, IInv, BaseInv
<1> QED
  BY <1>2, ResurfaceInductive, PTL

(* When Flush has waited for the worker nothing is left in an old queue, and *)
(* without a timeout everything accepted is written; without a timeout       *)
(* WriteData never sends to or closes a queue that is closed, and returns    *)
(* with its chunk accepted.                                                  *)
THEOREM UntimedCallsSafe == Spec => []UntimedSafe
<1>1. IInv => UntimedSafe
  <2> SUFFICES ASSUME IInv
               PROVE  UntimedSafe
    OBVIOUS
  <2>0. TypeOK /\ WorkerInv /\ CallInv /\ PlacesInv
    BY DEF IInv, BaseInv
  <2>1. \A g \in Gen \ {gen} : queue[g] = <<>> /\ held[g] = None
    <3>1. ASSUME NEW g \in Gen \ {gen}
          PROVE  held[g] = None
      <4>1. g \in Nat /\ gen \in Nat
        BY <2>0, Kinds DEF TypeOK
      <4> QED
        BY <2>0, <4>1 DEF WorkerInv
    <3> QED
      BY <2>0, <3>1 DEF WorkerInv
  <2>2. ASSUME main = "enabling", ~timed
        PROVE  Sent = Written
    <3>1. queue[gen] = <<>> /\ held[gen] = None
      BY <2>2 DEF IInv, UntimedInv
    <3>2. \A d \in Caller : ~At(d, "putBack")
      BY <2>0, <2>2 DEF IInv, UntimedInv, CallInv, At, Caller
    <3>3. \A c \in Chunk : ~Peeked(c) /\ ~Queued(c) /\ held[gen] # c
      BY <2>0, <3>1, <3>2, Kinds DEF CallInv, Peeked, Queued, ToSet
    <3>4. Sent \subseteq Chunk /\ Written \subseteq Chunk
      BY <2>0 DEF TypeOK, Sent, Written, ToSet
    <3> QED
      BY <2>0, <3>3, <3>4 DEF PlacesInv
  <2> QED
    BY <2>1, <2>2 DEF UntimedSafe, FlushDrains, IInv, UntimedInv
<1> QED
  BY <1>1, ResurfaceInductive, PTL

-----------------------------------------------------------------------------
(* The sink of the instrumentation.                                          *)

SinkSpec == SinkInit /\ [][SinkNext]_sinkVars

Metric == [id : Nat, length : Nat \ {0}]

(* Only an emit has metrics.                                                 *)
Command ==
  {cmd \in [kind : {"none", "emit", "flush", "drain", "stop"}, id : Nat, lengths : Seq(Nat \ {0})] :
     cmd.kind = "emit" \/ cmd.lengths = <<>>}

SinkTypes ==
  /\ calling \in [SinkCaller -> Command] /\ blocked \in [SinkCaller -> BOOLEAN]
  /\ \A c \in SinkCaller : calling[c].kind # "flush" /\ (blocked[c] => calling[c].kind # "none")
  /\ cmdChan \in Seq(Command) /\ Len(cmdChan) <= cmdChanBuffSize
  /\ udpBuf \in Seq(Metric) /\ datagrams \in Seq(Seq(Metric))
  /\ loop \in {"receive", "drain", "drained", "stopped", "ended"}
  /\ ncommands \in 0 .. MaxCommands
  /\ emitted \in Seq(Command) /\ due \in [SinkCaller -> Seq(Command)]
  /\ drained \in BOOLEAN /\ crossed \in BOOLEAN

(* What has been packed: no datagram is empty or too long.                   *)
WellPacked(out) ==
  /\ Bytes(out.buf) <= maxUdpBytes
  /\ \A i \in DOMAIN out.sent : Bytes(out.sent[i]) \in 1 .. maxUdpBytes

Packed(out) == FlattenSeq(out.sent) \o out.buf

OrderInv == Packed(Out) \o Of(cmdChan) = Of(emitted)

(* Where the commands whose metrics fit are.                                 *)
SomeFits(cmd)   == \E i \in DOMAIN cmd.lengths : cmd.lengths[i] <= maxUdpBytes
InHand(cmd) == \E m \in ToSet(Packed(Out)) : m.id = cmd.id

PlaceInv == \A cmd \in ToSet(emitted) : SomeFits(cmd) => (InHand(cmd) \/ cmd \in ToSet(cmdChan))

(* One Drain at a time: the loop, its command and its caller agree.          *)
IsDrain(i) == cmdChan[i].kind = "drain"

OneDrainInv ==
  /\ drained /\ loop \in {"receive", "drain", "drained"}
  /\ \A i \in DOMAIN cmdChan : cmdChan[i].kind # "stop"
  /\ \A c \in SinkCaller : calling[c].kind # "stop"
  /\ \A c, d \in SinkCaller : Waits(c) /\ Waits(d) => c = d
  /\ \A i, j \in DOMAIN cmdChan : IsDrain(i) /\ IsDrain(j) => i = j
  /\ (\E i \in DOMAIN cmdChan : IsDrain(i)) => loop = "receive"
  /\ (\E i \in DOMAIN cmdChan : IsDrain(i)) \/ loop # "receive" =>
       \E c \in SinkCaller : Waits(c) /\ ~blocked[c]

(* What a Drain waits for is in hand, or before its command.                 *)
Ahead(cmd) == \E i \in DOMAIN cmdChan : cmdChan[i] = cmd /\ \A j \in 1 .. i : ~IsDrain(j)

DueInv ==
  \A c \in SinkCaller : Waits(c) => \A cmd \in ToSet(due[c]) :
    SomeFits(cmd) => InHand(cmd) \/ (loop = "receive" /\ Ahead(cmd))

SinkInv ==
  /\ SinkTypes /\ WellPacked(Out) /\ OrderInv /\ PlaceInv
  /\ loop = "drained" => udpBuf = <<>>
  /\ crossed \/ (OneDrainInv /\ DueInv)

-----------------------------------------------------------------------------
(* The bytes of a buffer.                                                    *)

IsBytes(buf, g) ==
  g = [i \in 0 .. Len(buf) |-> IF i = 0 THEN 0 ELSE g[i - 1] + buf[i].length]

LEMMA BytesIs ==
  ASSUME NEW buf \in Seq(Metric)
  PROVE  \E g \in [0 .. Len(buf) -> Nat] : IsBytes(buf, g) /\ Bytes(buf) = g[Len(buf)]
<1> DEFINE N == Len(buf)
           step == [n \in 1 .. N |-> [x \in Nat |-> x + buf[n].length]]
<1>1. N \in Nat /\ 0 \in Nat
  OBVIOUS
<1>2. \A n \in 1 .. N : buf[n] \in Metric /\ buf[n].length \in Nat
  <2>1. \A n \in 1 .. N : buf[n] \in Metric
    OBVIOUS
  <2> QED
    BY <2>1 DEF Metric
<1>3. IsStep(N, Nat, step)
  BY <1>2 DEF IsStep
<1>4. PICK g : IsRun(N, Nat, 0, step, g)
  <2> HIDE DEF N, step
  <2> QED
    BY <1>1, <1>3, Recursion
<1>5. IsBytes(buf, g)
  <2>1. g \in [0 .. N -> Nat] /\ g[0] = 0 /\ \A n \in 1 .. N : g[n] = step[n][g[n - 1]]
    BY <1>4 DEF IsRun
  <2>2. ASSUME NEW n \in 0 .. N
        PROVE  g[n] = IF n = 0 THEN 0 ELSE g[n - 1] + buf[n].length
    <3>1. CASE n = 0
      BY <2>1, <3>1
    <3>2. CASE n # 0
      <4>1. n \in 1 .. N /\ n - 1 \in 0 .. N
        BY <3>2
      <4>2. g[n] = step[n][g[n - 1]] /\ g[n - 1] \in Nat
        BY <2>1, <4>1
      <4> QED
        BY <3>2, <4>1, <4>2
    <3> QED
      BY <3>1, <3>2
  <2> QED
    BY <2>1, <2>2 DEF IsBytes
<1> DEFINE h == CHOOSE h : IsBytes(buf, h)
<1>6. IsBytes(buf, h)
  BY <1>5
<1>7. Bytes(buf) = h[N]
  BY DEF Bytes, IsBytes
<1> HIDE DEF h
<1>8. h[0] = 0 /\ \A n \in 1 .. N : h[n] = h[n - 1] + buf[n].length
  BY <1>6 DEF IsBytes
<1>9. StepsFrom(N, Nat, 0, step, h)
  BY <1>8 DEF StepsFrom
<1>10. \A n \in 0 .. N : h[n] \in Nat
  <2> HIDE DEF N, step
  <2> QED
    BY <1>1, <1>3, <1>9, RunOf
<1>11. h \in [0 .. N -> Nat]
  BY <1>6, <1>10 DEF IsBytes
<1> QED
  BY <1>6, <1>7, <1>11

LEMMA BytesEmpty == Bytes(<<>>) = 0
<1>1. <<>> \in Seq(Metric) /\ Len(<<>>) = 0
  OBVIOUS
<1>2. PICK g \in [0 .. 0 -> Nat] : IsBytes(<<>>, g) /\ Bytes(<<>>) = g[0]
  BY <1>1, BytesIs
<1> QED
  BY <1>1, <1>2 DEF IsBytes

LEMMA BytesAppend ==
  ASSUME NEW buf \in Seq(Metric), NEW m \in Metric
  PROVE  Bytes(buf) \in Nat /\ Bytes(Append(buf, m)) = Bytes(buf) + m.length
<1> DEFINE new == Append(buf, m)
           N == Len(buf)
<1>1. /\ N \in Nat /\ new \in Seq(Metric) /\ Len(new) = N + 1 /\ new[N + 1] = m
      /\ \A i \in 1 .. N : new[i] = buf[i]
  BY AppendFacts
<1> HIDE DEF new
<1>2. PICK g \in [0 .. N -> Nat] : IsBytes(buf, g) /\ Bytes(buf) = g[N]
  BY BytesIs
<1>3. PICK h \in [0 .. N + 1 -> Nat] : IsBytes(new, h) /\ Bytes(new) = h[N + 1]
  BY <1>1, BytesIs
<1>4. g[0] = 0 /\ \A n \in 1 .. N : g[n] = g[n - 1] + buf[n].length
  BY <1>1, <1>2 DEF IsBytes
<1>5. h[0] = 0 /\ \A n \in 1 .. N + 1 : h[n] = h[n - 1] + new[n].length
  BY <1>1, <1>3 DEF IsBytes
<1> HIDE DEF N
<1> DEFINE T == {n \in Nat : n <= N => h[n] = g[n]}
<1>6. 0 \in T
  BY <1>4, <1>5
<1>7. ASSUME NEW n \in Nat, n \in T
      PROVE  n + 1 \in T
  <2> SUFFICES ASSUME n + 1 <= N
               PROVE  h[n + 1] = g[n + 1]
    OBVIOUS
  <2>1. n <= N /\ n + 1 \in 1 .. N /\ n + 1 \in 1 .. N + 1 /\ (n + 1) - 1 = n
    BY <1>1
  <2>2. h[n] = g[n] /\ g[n + 1] = g[n] + buf[n + 1].length
    BY <1>4, <1>7, <2>1
  <2>3. h[n + 1] = h[n] + new[n + 1].length
    BY <1>5, <2>1
  <2> QED
    BY <1>1, <2>1, <2>2, <2>3
<1> HIDE DEF T
<1>8. h[N] = g[N]
  <2>1. N \in T
    BY <1>1, <1>6, <1>7, InductiveSet
  <2> QED
    BY <1>1, <2>1 DEF T
<1>9. N + 1 \in 1 .. N + 1 /\ (N + 1) - 1 = N /\ N \in 0 .. N
  BY <1>1
<1>10. h[N + 1] = h[N] + m.length
  BY <1>1, <1>5, <1>9
<1> QED
  BY <1>2, <1>3, <1>8, <1>9, <1>10 DEF new

LEMMA BytesFacts ==
  ASSUME NEW buf \in Seq(Metric)
  PROVE  Bytes(buf) \in Nat /\ (buf # <<>> => Bytes(buf) > 0)
<1>1. CASE buf = <<>>
  BY <1>1, BytesEmpty
<1>2. CASE buf # <<>>
  <2>1. PICK s \in Seq(Metric), m \in Metric : buf = Append(s, m)
    BY <1>2, SequenceEmptyOrAppend
  <2>2. Bytes(s) \in Nat /\ Bytes(buf) = Bytes(s) + m.length
    BY <2>1, BytesAppend
  <2>3. m.length \in Nat \ {0}
    BY DEF Metric
  <2> QED
    BY <2>2, <2>3
<1> QED
  BY <1>1, <1>2

LEMMA BytesOne ==
  ASSUME NEW m \in Metric
  PROVE  Bytes(<<m>>) = m.length
<1>1. <<>> \in Seq(Metric) /\ <<m>> = Append(<<>>, m) /\ m.length \in Nat
  BY DEF Metric
<1>2. Bytes(Append(<<>>, m)) = Bytes(<<>>) + m.length
  BY <1>1, BytesAppend
<1> QED
  BY <1>1, <1>2, BytesEmpty

-----------------------------------------------------------------------------
(* Packing.                                                                  *)

Outs == {out \in [buf : Seq(Metric), sent : Seq(Seq(Metric))] : WellPacked(out)}

LEMMA PackedType ==
  ASSUME NEW out \in Outs
  PROVE  /\ out.buf \in Seq(Metric) /\ out.sent \in Seq(Seq(Metric)) /\ WellPacked(out)
         /\ FlattenSeq(out.sent) \in Seq(Metric) /\ Packed(out) \in Seq(Metric)
         /\ Bytes(out.buf) \in Nat
<1>1. out.buf \in Seq(Metric) /\ out.sent \in Seq(Seq(Metric)) /\ WellPacked(out)
  BY DEF Outs
<1>2. FlattenSeq(out.sent) \in Seq(Metric)
  BY <1>1, FlattenType
<1>3. Packed(out) \in Seq(Metric)
  <2> DEFINE s == FlattenSeq(out.sent)
             t == out.buf
  <2>1. s \in Seq(Metric) /\ t \in Seq(Metric) /\ Packed(out) = s \o t
    BY <1>1, <1>2 DEF Packed
  <2> HIDE DEF s, t
  <2> QED
    BY <2>1, ConcatProperties
<1> QED
  BY <1>1, <1>2, <1>3, BytesFacts

LEMMA ConcatAppend ==
  ASSUME NEW S, NEW s \in Seq(S), NEW t \in Seq(S), NEW e \in S
  PROVE  s \o Append(t, e) = Append(s \o t, e)
OBVIOUS

LEMMA SentKeeps ==
  ASSUME NEW out \in Outs, out.buf # <<>>
  PROVE  /\ Append(out.sent, out.buf) \in Seq(Seq(Metric))
         /\ FlattenSeq(Append(out.sent, out.buf)) = Packed(out)
         /\ \A i \in DOMAIN Append(out.sent, out.buf) :
              Bytes(Append(out.sent, out.buf)[i]) \in 1 .. maxUdpBytes
<1> DEFINE s == out.sent
           b == out.buf
           n == Append(s, b)
<1>1. s \in Seq(Seq(Metric)) /\ b \in Seq(Metric) /\ b # <<>> /\ WellPacked(out) /\ maxUdpBytes \in Nat
  BY PackedType, SinkAssumption
<1>2. FlattenSeq(n) = Packed(out)
  BY <1>1, FlattenAppend DEF Packed
<1>3. Bytes(b) \in 1 .. maxUdpBytes
  BY <1>1, BytesFacts DEF WellPacked
<1>4. \A i \in 1 .. Len(s) : Bytes(s[i]) \in 1 .. maxUdpBytes
  BY <1>1 DEF WellPacked
<1> HIDE DEF s, b
<1>5. /\ n \in Seq(Seq(Metric)) /\ DOMAIN n = 1 .. Len(s) + 1 /\ Len(s) \in Nat
      /\ n[Len(s) + 1] = b /\ \A i \in 1 .. Len(s) : n[i] = s[i]
  BY <1>1, AppendFacts
<1> HIDE DEF n
<1>6. ASSUME NEW i \in DOMAIN n
      PROVE  Bytes(n[i]) \in 1 .. maxUdpBytes
  <2>1. i \in 1 .. Len(s) \/ i = Len(s) + 1
    BY <1>5
  <2>2. CASE i \in 1 .. Len(s)
    <3>1. n[i] = s[i]
      BY <1>5, <2>2
    <3> QED
      BY <1>4, <2>2, <3>1
  <2>3. CASE i = Len(s) + 1
    <3>1. n[i] = b
      BY <1>5, <2>3
    <3> QED
      BY <1>3, <3>1
  <2> QED
    BY <2>1, <2>2, <2>3
<1> QED
  BY <1>2, <1>5, <1>6 DEF n, s, b

LEMMA WriteKeeps ==
  ASSUME NEW out \in Outs, NEW m \in Metric
  PROVE  /\ writeStatsDMetric(out, m) \in Outs
         /\ Packed(writeStatsDMetric(out, m)) =
              IF m.length > maxUdpBytes THEN Packed(out) ELSE Append(Packed(out), m)
<1>0. /\ out.buf \in Seq(Metric) /\ out.sent \in Seq(Seq(Metric)) /\ WellPacked(out)
      /\ FlattenSeq(out.sent) \in Seq(Metric) /\ Packed(out) \in Seq(Metric)
      /\ Bytes(out.buf) \in Nat /\ m.length \in Nat \ {0} /\ maxUdpBytes \in Nat
      /\ out \in [buf : Seq(Metric), sent : Seq(Seq(Metric))]
  BY PackedType, SinkAssumption DEF Metric, Outs
<1> DEFINE w == writeStatsDMetric(out, m)
<1>1. CASE m.length > maxUdpBytes
  BY <1>1 DEF writeStatsDMetric
<1>2. CASE ~(m.length > maxUdpBytes) /\ m.length + Bytes(out.buf) > maxUdpBytes
  <2>1. w = [buf |-> <<m>>, sent |-> Append(out.sent, out.buf)]
    BY <1>2 DEF writeStatsDMetric
  <2>2. out.buf # <<>>
    BY <1>0, <1>2, BytesEmpty
  <2> DEFINE n == Append(out.sent, out.buf)
  <2>3. /\ n \in Seq(Seq(Metric)) /\ FlattenSeq(n) = Packed(out)
        /\ \A i \in DOMAIN n : Bytes(n[i]) \in 1 .. maxUdpBytes
    BY <2>2, SentKeeps
  <2> HIDE DEF n
  <2>4. w.buf = <<m>> /\ w.sent = n /\ w = [buf |-> <<m>>, sent |-> n] /\ <<m>> \in Seq(Metric)
    BY <2>1 DEF n
  <2> HIDE DEF w
  <2>5. WellPacked(w)
    BY <1>0, <1>2, <2>3, <2>4, BytesOne DEF WellPacked
  <2>6. w \in Outs
    BY <2>3, <2>4, <2>5 DEF Outs
  <2>7. Packed(w) = Append(Packed(out), m)
    <3>1. Packed(w) = Packed(out) \o <<m>>
      BY <2>3, <2>4 DEF Packed
    <3> QED
      BY <1>0, <3>1, AppendIsConcat
  <2> QED
    BY <1>2, <2>6, <2>7 DEF w
<1>3. CASE ~(m.length > maxUdpBytes) /\ ~(m.length + Bytes(out.buf) > maxUdpBytes)
  <2>1. w = [out EXCEPT !.buf = Append(out.buf, m)]
    BY <1>3 DEF writeStatsDMetric
  <2> DEFINE b == Append(out.buf, m)
  <2>2. b \in Seq(Metric) /\ Bytes(b) = Bytes(out.buf) + m.length
    BY <1>0, BytesAppend, AppendFacts
  <2>3. FlattenSeq(out.sent) \o b = Append(Packed(out), m)
    BY <1>0, ConcatAppend DEF Packed
  <2> HIDE DEF b
  <2>4. w.buf = b /\ w.sent = out.sent /\ w \in [buf : Seq(Metric), sent : Seq(Seq(Metric))]
    BY <1>0, <2>1, <2>2 DEF b
  <2> HIDE DEF w
  <2>5. WellPacked(w)
    BY <1>0, <1>3, <2>2, <2>4 DEF WellPacked
  <2>6. w \in Outs
    BY <2>4, <2>5 DEF Outs
  <2>7. Packed(w) = Append(Packed(out), m)
    BY <2>3, <2>4 DEF Packed
  <2> QED
    BY <1>3, <2>6, <2>7 DEF w
<1> QED
  BY <1>1, <1>2, <1>3

LEMMA FlushKeeps ==
  ASSUME NEW out \in Outs
  PROVE  flush(out) \in Outs /\ flush(out).buf = <<>> /\ Packed(flush(out)) = Packed(out)
<1>0. /\ out.buf \in Seq(Metric) /\ out.sent \in Seq(Seq(Metric)) /\ WellPacked(out)
      /\ FlattenSeq(out.sent) \in Seq(Metric) /\ Packed(out) \in Seq(Metric) /\ maxUdpBytes \in Nat
  BY PackedType, SinkAssumption
<1>1. CASE out.buf = <<>>
  BY <1>1 DEF flush
<1>2. CASE out.buf # <<>>
  <2> DEFINE w == flush(out)
             n == Append(out.sent, out.buf)
  <2>1. w = [buf |-> <<>>, sent |-> n]
    BY <1>2 DEF flush
  <2>2. /\ n \in Seq(Seq(Metric)) /\ FlattenSeq(n) = Packed(out)
        /\ \A i \in DOMAIN n : Bytes(n[i]) \in 1 .. maxUdpBytes
    BY <1>2, SentKeeps
  <2> HIDE DEF n
  <2>3. w.buf = <<>> /\ w.sent = n /\ w = [buf |-> <<>>, sent |-> n] /\ <<>> \in Seq(Metric)
    BY <2>1
  <2> HIDE DEF w
  <2>4. WellPacked(w)
    BY <1>0, <2>2, <2>3, BytesEmpty DEF WellPacked
  <2>5. w \in Outs
    BY <2>2, <2>3, <2>4 DEF Outs
  <2>6. Packed(w) = Packed(out)
    <3>1. Packed(w) = Packed(out) \o <<>>
      BY <2>2, <2>3 DEF Packed
    <3> QED
      BY <1>0, <3>1, ConcatEmptySeq
  <2> QED
    BY <2>3, <2>5, <2>6 DEF w
<1> QED
  BY <1>1, <1>2

(* The metrics of a command.                                                 *)
LEMMA MetricsOf ==
  ASSUME NEW cmd \in Command
  PROVE  /\ Metrics(cmd) \in Seq(Metric) /\ Len(Metrics(cmd)) = Len(cmd.lengths)
         /\ Len(cmd.lengths) \in Nat /\ DOMAIN cmd.lengths = 1 .. Len(cmd.lengths)
         /\ cmd.kind \in {"none", "emit", "flush", "drain", "stop"}
         /\ \A i \in 1 .. Len(cmd.lengths) :
              /\ Metrics(cmd)[i] \in Metric /\ Metrics(cmd)[i].id = cmd.id
              /\ Metrics(cmd)[i].length = cmd.lengths[i]
<1>1. /\ cmd.id \in Nat /\ cmd.lengths \in Seq(Nat \ {0})
      /\ cmd.kind \in {"none", "emit", "flush", "drain", "stop"}
  BY DEF Command
<1>2. /\ Len(cmd.lengths) \in Nat /\ DOMAIN cmd.lengths = 1 .. Len(cmd.lengths)
      /\ \A i \in 1 .. Len(cmd.lengths) : cmd.lengths[i] \in Nat \ {0}
  BY <1>1
<1>3. \A i \in 1 .. Len(cmd.lengths) :
        /\ Metrics(cmd)[i] \in Metric /\ Metrics(cmd)[i].id = cmd.id
        /\ Metrics(cmd)[i].length = cmd.lengths[i]
  BY <1>1, <1>2 DEF Metrics, Metric
<1>4. Metrics(cmd) = [i \in 1 .. Len(cmd.lengths) |-> Metrics(cmd)[i]]
  BY <1>2 DEF Metrics
<1>5. Metrics(cmd) \in [1 .. Len(cmd.lengths) -> Metric]
  BY <1>3, <1>4
<1>6. Metrics(cmd) \in Seq(Metric) /\ Len(Metrics(cmd)) = Len(cmd.lengths)
  BY <1>2, <1>5
<1> QED
  BY <1>1, <1>2, <1>3, <1>6

IsKept(ms, g) ==
  g = [i \in 0 .. Len(ms) |->
         IF i = 0 THEN <<>>
         ELSE IF ms[i].length > maxUdpBytes THEN g[i - 1] ELSE Append(g[i - 1], ms[i])]

LEMMA PackableIs ==
  ASSUME NEW cmd \in Command
  PROVE  \E g : /\ \A n \in 0 .. Len(Metrics(cmd)) : g[n] \in Seq(Metric)
                /\ IsKept(Metrics(cmd), g) /\ Packable(cmd) = g[Len(Metrics(cmd))]
<1> DEFINE ms == Metrics(cmd)
           N == Len(ms)
           Q == Seq(Metric)
           step == [n \in 1 .. N |-> [x \in Q |->
                      IF ms[n].length > maxUdpBytes THEN x ELSE Append(x, ms[n])]]
<1>1. ms \in Seq(Metric)
  BY MetricsOf
<1> HIDE DEF ms
<1>2. N \in Nat /\ <<>> \in Q /\ \A n \in 1 .. N : ms[n] \in Metric
  BY <1>1
<1>3. IsStep(N, Q, step)
  <2>1. \A n \in 1 .. N : \A x \in Q : Append(x, ms[n]) \in Q
    BY <1>2, AppendFacts
  <2> HIDE DEF N, Q
  <2> QED
    BY <2>1 DEF IsStep
<1>4. PICK g : IsRun(N, Q, <<>>, step, g)
  <2> HIDE DEF N, step, Q
  <2> QED
    BY <1>2, <1>3, Recursion
<1>5. IsKept(ms, g)
  <2>1. g \in [0 .. N -> Q] /\ g[0] = <<>> /\ \A n \in 1 .. N : g[n] = step[n][g[n - 1]]
    BY <1>4 DEF IsRun
  <2>2. ASSUME NEW n \in 0 .. N
        PROVE  g[n] = IF n = 0 THEN <<>>
                      ELSE IF ms[n].length > maxUdpBytes THEN g[n - 1] ELSE Append(g[n - 1], ms[n])
    <3>1. CASE n = 0
      BY <2>1, <3>1
    <3>2. CASE n # 0
      <4>1. n \in 1 .. N /\ n - 1 \in 0 .. N
        BY <1>2, <3>2
      <4> HIDE DEF Q
      <4>2. g[n] = step[n][g[n - 1]] /\ g[n - 1] \in Q
        BY <2>1, <4>1
      <4> HIDE DEF N
      <4> QED
        BY <3>2, <4>1, <4>2
    <3> QED
      BY <3>1, <3>2
  <2> HIDE DEF Q
  <2> QED
    BY <2>1, <2>2 DEF IsKept
<1> DEFINE h == CHOOSE h : IsKept(ms, h)
<1>6. IsKept(ms, h)
  BY <1>5
<1>7. Packable(cmd) = h[N]
  BY DEF Packable, IsKept, ms
<1> HIDE DEF h
<1>8. h[0] = <<>> /\ \A n \in 1 .. N :
        h[n] = IF ms[n].length > maxUdpBytes THEN h[n - 1] ELSE Append(h[n - 1], ms[n])
  <2> HIDE DEF step, Q
  <2>1. ASSUME NEW n \in 0 .. N
        PROVE  h[n] = IF n = 0 THEN <<>>
                      ELSE IF ms[n].length > maxUdpBytes THEN h[n - 1] ELSE Append(h[n - 1], ms[n])
    BY <1>6 DEF IsKept
  <2>2. 0 \in 0 .. N /\ \A n \in 1 .. N : n \in 0 .. N /\ n # 0
    BY <1>2
  <2> HIDE DEF N
  <2>3. h[0] = <<>>
    BY <2>1, <2>2
  <2>4. ASSUME NEW n \in 1 .. N
        PROVE  h[n] = IF ms[n].length > maxUdpBytes THEN h[n - 1] ELSE Append(h[n - 1], ms[n])
    <3>1. n \in 0 .. N /\ n # 0
      BY <2>2
    <3> QED
      BY <2>1, <3>1
  <2> QED
    BY <2>3, <2>4
<1>9. StepsFrom(N, Q, <<>>, step, h)
  <2> HIDE DEF N, Q
  <2> QED
    BY <1>8 DEF StepsFrom
<1>10. \A n \in 0 .. N : h[n] \in Q
  <2> HIDE DEF N, step, Q
  <2> QED
    BY <1>2, <1>3, <1>9, RunOf
<1> QED
  BY <1>6, <1>7, <1>10 DEF ms

LEMMA KeptStep ==
  ASSUME NEW ms \in Seq(Metric), NEW g, IsKept(ms, g), NEW n \in Nat, n + 1 <= Len(ms)
  PROVE  /\ n + 1 \in 1 .. Len(ms) /\ ms[n + 1] \in Metric
         /\ g[n + 1] = IF ms[n + 1].length > maxUdpBytes THEN g[n] ELSE Append(g[n], ms[n + 1])
<1>1. n + 1 \in 1 .. Len(ms) /\ n + 1 \in 0 .. Len(ms) /\ n + 1 # 0 /\ (n + 1) - 1 = n
  OBVIOUS
<1>2. g[n + 1] = IF ms[n + 1].length > maxUdpBytes THEN g[(n + 1) - 1] ELSE Append(g[(n + 1) - 1], ms[n + 1])
  BY <1>1 DEF IsKept
<1>3. ms[n + 1] \in Metric
  BY <1>1
<1> QED
  BY <1>1, <1>2, <1>3

(* Some metric of a command that fits is kept.                               *)
LEMMA PackableFits ==
  ASSUME NEW cmd \in Command
  PROVE  /\ Packable(cmd) \in Seq(Metric)
         /\ cmd.lengths = <<>> => Packable(cmd) = <<>>
         /\ SomeFits(cmd) => \E m \in ToSet(Packable(cmd)) : m.id = cmd.id
<1> DEFINE ms == Metrics(cmd)
           N == Len(ms)
<1>1. /\ ms \in Seq(Metric) /\ N \in Nat /\ N = Len(cmd.lengths) /\ DOMAIN cmd.lengths = 1 .. N
      /\ \A i \in 1 .. N : ms[i].id = cmd.id /\ ms[i].length = cmd.lengths[i]
      /\ \A i \in 1 .. N : ms[i].length \in Nat
  BY MetricsOf DEF Metric
<1>2. PICK g : /\ \A n \in 0 .. N : g[n] \in Seq(Metric)
               /\ IsKept(ms, g) /\ Packable(cmd) = g[N]
  BY PackableIs
<1> HIDE DEF ms
<1>3. g[0] = <<>>
  BY <1>1, <1>2 DEF IsKept
<1> DEFINE T == {n \in Nat : n <= N => \A i \in 1 .. n : ms[i].length <= maxUdpBytes => ms[i] \in ToSet(g[n])}
<1>4. 0 \in T
  OBVIOUS
<1>5. ASSUME NEW n \in Nat, n \in T
      PROVE  n + 1 \in T
  <2> SUFFICES ASSUME n + 1 <= N, NEW i \in 1 .. n + 1, ms[i].length <= maxUdpBytes
               PROVE  ms[i] \in ToSet(g[n + 1])
    OBVIOUS
  <2>1. /\ n + 1 \in 1 .. Len(ms) /\ ms[n + 1] \in Metric
        /\ g[n + 1] = IF ms[n + 1].length > maxUdpBytes THEN g[n] ELSE Append(g[n], ms[n + 1])
    BY <1>1, <1>2, KeptStep
  <2>2. n <= N /\ g[n] \in Seq(Metric) /\ ms[n + 1].length \in Nat /\ maxUdpBytes \in Nat
    BY <1>1, <1>2, <2>1, SinkAssumption
  <2>3. i \in 1 .. n => ms[i] \in ToSet(g[n])
    BY <1>5, <2>2
  <2>4. i \in 1 .. n \/ i = n + 1
    OBVIOUS
  <2> HIDE DEF N
  <2>5. ToSet(Append(g[n], ms[n + 1])) = ToSet(g[n]) \cup {ms[n + 1]}
    BY <2>1, <2>2, AppendSet
  <2> QED
    BY <2>1, <2>2, <2>3, <2>4, <2>5
<1> HIDE DEF T
<1>6. N \in T
  BY <1>1, <1>4, <1>5, InductiveSet
<1>7. \A i \in 1 .. N : ms[i].length <= maxUdpBytes => ms[i] \in ToSet(g[N])
  <2> HIDE DEF N
  <2> QED
    BY <1>1, <1>6 DEF T
<1>8. Packable(cmd) \in Seq(Metric)
  BY <1>1, <1>2
<1>9. cmd.lengths = <<>> => Packable(cmd) = <<>>
  BY <1>1, <1>2, <1>3
<1>10. SomeFits(cmd) => \E m \in ToSet(Packable(cmd)) : m.id = cmd.id
  <2> HIDE DEF N
  <2> QED
    BY <1>1, <1>2, <1>7 DEF SomeFits
<1> QED
  BY <1>8, <1>9, <1>10

IsDone(out, ms, g) ==
  g = [i \in 0 .. Len(ms) |-> IF i = 0 THEN out ELSE writeStatsDMetric(g[i - 1], ms[i])]

LEMMA DoneIs ==
  ASSUME NEW out \in Outs, NEW cmd \in Command
  PROVE  \E g : /\ \A n \in 0 .. Len(Metrics(cmd)) : g[n] \in Outs
                /\ IsDone(out, Metrics(cmd), g) /\ processCmd(out, cmd) = g[Len(Metrics(cmd))]
<1> DEFINE ms == Metrics(cmd)
           N == Len(ms)
           step == [n \in 1 .. N |-> [x \in Outs |-> writeStatsDMetric(x, ms[n])]]
<1>1. ms \in Seq(Metric)
  BY MetricsOf
<1> HIDE DEF ms
<1>2. N \in Nat /\ \A n \in 1 .. N : ms[n] \in Metric
  BY <1>1
<1>3. IsStep(N, Outs, step)
  <2>1. \A n \in 1 .. N : \A x \in Outs : writeStatsDMetric(x, ms[n]) \in Outs
    BY <1>2, WriteKeeps
  <2> HIDE DEF N
  <2> QED
    BY <2>1 DEF IsStep
<1>4. PICK g : IsRun(N, Outs, out, step, g)
  <2> HIDE DEF N, step
  <2> QED
    BY <1>2, <1>3, Recursion
<1>5. IsDone(out, ms, g)
  <2>1. g \in [0 .. N -> Outs] /\ g[0] = out /\ \A n \in 1 .. N : g[n] = step[n][g[n - 1]]
    BY <1>4 DEF IsRun
  <2>2. ASSUME NEW n \in 0 .. N
        PROVE  g[n] = IF n = 0 THEN out ELSE writeStatsDMetric(g[n - 1], ms[n])
    <3>1. CASE n = 0
      BY <2>1, <3>1
    <3>2. CASE n # 0
      <4>1. n \in 1 .. N /\ n - 1 \in 0 .. N
        BY <1>2, <3>2
      <4>2. g[n] = step[n][g[n - 1]] /\ g[n - 1] \in Outs
        BY <2>1, <4>1
      <4> HIDE DEF N
      <4> QED
        BY <3>2, <4>1, <4>2
    <3> QED
      BY <3>1, <3>2
  <2> QED
    BY <2>1, <2>2 DEF IsDone
<1> DEFINE h == CHOOSE h : IsDone(out, ms, h)
<1>6. IsDone(out, ms, h)
  BY <1>5
<1>7. processCmd(out, cmd) = h[N]
  BY DEF processCmd, IsDone, ms
<1> HIDE DEF h
<1>8. StepsFrom(N, Outs, out, step, h)
  <2>1. ASSUME NEW n \in 0 .. N
        PROVE  h[n] = IF n = 0 THEN out ELSE writeStatsDMetric(h[n - 1], ms[n])
    BY <1>6 DEF IsDone
  <2>2. 0 \in 0 .. N /\ \A n \in 1 .. N : n \in 0 .. N /\ n # 0
    BY <1>2
  <2> HIDE DEF N
  <2>3. h[0] = out
    BY <2>1, <2>2
  <2>4. ASSUME NEW n \in 1 .. N
        PROVE  h[n] = writeStatsDMetric(h[n - 1], ms[n])
    <3>1. n \in 0 .. N /\ n # 0
      BY <2>2
    <3> QED
      BY <2>1, <3>1
  <2> QED
    BY <2>3, <2>4 DEF StepsFrom
<1>9. \A n \in 0 .. N : h[n] \in Outs
  <2> HIDE DEF N, step
  <2> QED
    BY <1>2, <1>3, <1>8, RunOf
<1> QED
  BY <1>6, <1>7, <1>9 DEF ms

LEMMA DoneStep ==
  ASSUME NEW out, NEW ms \in Seq(Metric), NEW g, IsDone(out, ms, g), NEW n \in Nat, n + 1 <= Len(ms)
  PROVE  g[n + 1] = writeStatsDMetric(g[n], ms[n + 1])
<1>1. n + 1 \in 0 .. Len(ms) /\ n + 1 # 0 /\ (n + 1) - 1 = n
  OBVIOUS
<1>2. g[n + 1] = writeStatsDMetric(g[(n + 1) - 1], ms[n + 1])
  BY <1>1 DEF IsDone
<1> QED
  BY <1>1, <1>2

(* A command is packed behind what there is.                                 *)
LEMMA ProcessKeeps ==
  ASSUME NEW out \in Outs, NEW cmd \in Command
  PROVE  /\ processCmd(out, cmd) \in Outs
         /\ Packed(processCmd(out, cmd)) = Packed(out) \o Packable(cmd)
<1> DEFINE ms == Metrics(cmd)
           N == Len(ms)
           p == Packed(out)
<1>1. ms \in Seq(Metric) /\ N \in Nat /\ p \in Seq(Metric)
  BY MetricsOf, PackedType
<1>2. PICK g : /\ \A n \in 0 .. N : g[n] \in Seq(Metric)
               /\ IsKept(ms, g) /\ Packable(cmd) = g[N]
  BY PackableIs
<1>3. PICK h : /\ \A n \in 0 .. N : h[n] \in Outs
               /\ IsDone(out, ms, h) /\ processCmd(out, cmd) = h[N]
  BY DoneIs
<1> HIDE DEF ms, p
<1>4. g[0] = <<>> /\ h[0] = out
  BY <1>1, <1>2, <1>3 DEF IsKept, IsDone
<1> DEFINE T == {n \in Nat : n <= N => Packed(h[n]) = p \o g[n]}
<1>5. 0 \in T
  <2>1. p \o <<>> = p
    BY <1>1, ConcatEmptySeq
  <2> QED
    BY <1>4, <2>1 DEF p
<1>6. ASSUME NEW n \in Nat, n \in T
      PROVE  n + 1 \in T
  <2> SUFFICES ASSUME n + 1 <= N
               PROVE  Packed(h[n + 1]) = p \o g[n + 1]
    OBVIOUS
  <2>1. /\ ms[n + 1] \in Metric
        /\ g[n + 1] = IF ms[n + 1].length > maxUdpBytes THEN g[n] ELSE Append(g[n], ms[n + 1])
    BY <1>1, <1>2, KeptStep
  <2>2. h[n + 1] = writeStatsDMetric(h[n], ms[n + 1])
    BY <1>1, <1>3, DoneStep
  <2>3. n <= N /\ g[n] \in Seq(Metric) /\ h[n] \in Outs
    BY <1>1, <1>2, <1>3
  <2>4. Packed(h[n]) = p \o g[n]
    BY <1>6, <2>3
  <2> HIDE DEF T, N
  <2>5. Packed(h[n + 1]) = IF ms[n + 1].length > maxUdpBytes THEN Packed(h[n]) ELSE Append(Packed(h[n]), ms[n + 1])
    BY <2>1, <2>2, <2>3, WriteKeeps
  <2>6. p \o Append(g[n], ms[n + 1]) = Append(p \o g[n], ms[n + 1])
    BY <1>1, <2>1, <2>3, ConcatAppend
  <2> QED
    BY <2>1, <2>4, <2>5, <2>6
<1> HIDE DEF T
<1>7. N \in T
  BY <1>1, <1>5, <1>6, InductiveSet
<1>8. Packed(h[N]) = p \o g[N] /\ h[N] \in Outs
  <2>1. N <= N /\ N \in 0 .. N
    BY <1>1
  <2> HIDE DEF N
  <2> QED
    BY <1>3, <1>7, <2>1 DEF T
<1> QED
  BY <1>2, <1>3, <1>8 DEF p

-----------------------------------------------------------------------------
(* The metrics of the commands in the channel.                               *)

Packs(cmds) == [i \in DOMAIN cmds |-> Packable(cmds[i])]

LEMMA PacksType ==
  ASSUME NEW cmds \in Seq(Command)
  PROVE  /\ Packs(cmds) \in Seq(Seq(Metric)) /\ Len(Packs(cmds)) = Len(cmds)
         /\ \A i \in 1 .. Len(cmds) : Packs(cmds)[i] = Packable(cmds[i])
         /\ Of(cmds) = FlattenSeq(Packs(cmds)) /\ Of(cmds) \in Seq(Metric)
<1>1. DOMAIN cmds = 1 .. Len(cmds) /\ Len(cmds) \in Nat /\ \A i \in 1 .. Len(cmds) : cmds[i] \in Command
  OBVIOUS
<1>2. \A i \in 1 .. Len(cmds) : Packable(cmds[i]) \in Seq(Metric)
  BY <1>1, PackableFits
<1>3. Packs(cmds) \in [1 .. Len(cmds) -> Seq(Metric)]
  BY <1>1, <1>2 DEF Packs
<1>4. Packs(cmds) \in Seq(Seq(Metric)) /\ Len(Packs(cmds)) = Len(cmds)
  <2> DEFINE Q == Seq(Metric)
  <2>1. Packs(cmds) \in [1 .. Len(cmds) -> Q]
    BY <1>3
  <2> HIDE DEF Q
  <2>2. Packs(cmds) \in Seq(Q) /\ Len(Packs(cmds)) = Len(cmds)
    BY <1>1, <2>1
  <2> QED
    BY <2>2 DEF Q
<1>5. \A i \in 1 .. Len(cmds) : Packs(cmds)[i] = Packable(cmds[i])
  BY <1>1 DEF Packs
<1>6. Of(cmds) = FlattenSeq(Packs(cmds))
  BY DEF Of, Packs
<1>7. FlattenSeq(Packs(cmds)) \in Seq(Metric)
  BY <1>4, FlattenType
<1> QED
  BY <1>4, <1>5, <1>6, <1>7

LEMMA OfEmpty == Of(<<>>) = <<>>
<1>1. Packs(<<>>) = <<>> /\ Of(<<>>) = FlattenSeq(Packs(<<>>))
  BY DEF Of, Packs
<1> QED
  BY <1>1, FlattenEmpty

LEMMA OfAppend ==
  ASSUME NEW cmds \in Seq(Command), NEW cmd \in Command
  PROVE  Of(Append(cmds, cmd)) = Of(cmds) \o Packable(cmd)
<1> DEFINE new == Append(cmds, cmd)
           N == Len(cmds)
<1>1. /\ new \in Seq(Command) /\ Len(new) = N + 1 /\ new[N + 1] = cmd /\ N \in Nat
      /\ \A i \in 1 .. N : new[i] = cmds[i]
  BY AppendFacts
<1> HIDE DEF new
<1>2. /\ Packs(cmds) \in Seq(Seq(Metric)) /\ Len(Packs(cmds)) = N /\ Packable(cmd) \in Seq(Metric)
      /\ \A i \in 1 .. N : Packs(cmds)[i] = Packable(cmds[i])
      /\ Of(cmds) = FlattenSeq(Packs(cmds))
  BY PacksType, PackableFits
<1>3. /\ Packs(new) \in Seq(Seq(Metric)) /\ Len(Packs(new)) = N + 1
      /\ \A i \in 1 .. N + 1 : Packs(new)[i] = Packable(new[i])
      /\ Of(new) = FlattenSeq(Packs(new))
  BY <1>1, PacksType
<1> DEFINE s == Packs(cmds)
           e == Packable(cmd)
           Q == Seq(Metric)
<1>4. Packs(new) = Append(s, e)
  <2>1. /\ Append(s, e) \in Seq(Q) /\ Len(Append(s, e)) = N + 1 /\ Append(s, e)[N + 1] = e
        /\ \A i \in 1 .. N : Append(s, e)[i] = s[i]
    <3>1. s \in Seq(Q) /\ e \in Q /\ Len(s) = N
      BY <1>2
    <3> HIDE DEF s, e, Q, N
    <3> QED
      BY <3>1, AppendFacts
  <2>2. ASSUME NEW i \in 1 .. N + 1
        PROVE  Packs(new)[i] = Append(s, e)[i]
    <3>1. i \in 1 .. N \/ i = N + 1
      BY <1>1
    <3>2. N + 1 \in 1 .. N + 1
      BY <1>1
    <3> QED
      BY <1>1, <1>2, <1>3, <2>1, <3>1, <3>2
  <2>3. Packs(new) \in Seq(Q) /\ Len(Packs(new)) = N + 1
    BY <1>3
  <2> HIDE DEF s, e, Q, N
  <2> QED
    BY <2>1, <2>2, <2>3, SeqEqual
<1>5. FlattenSeq(Append(s, e)) = FlattenSeq(s) \o e
  BY <1>2, FlattenAppend
<1> QED
  BY <1>2, <1>3, <1>4, <1>5 DEF new

LEMMA OfHead ==
  ASSUME NEW cmds \in Seq(Command), cmds # <<>>
  PROVE  /\ Head(cmds) \in Command /\ Tail(cmds) \in Seq(Command)
         /\ Of(cmds) = Packable(Head(cmds)) \o Of(Tail(cmds))
<1> DEFINE rest == Tail(cmds)
           N == Len(rest)
<1>1. /\ rest \in Seq(Command) /\ Len(cmds) = N + 1 /\ cmds[1] = Head(cmds) /\ N \in Nat
      /\ Head(cmds) \in Command /\ \A i \in 1 .. N : rest[i] = cmds[i + 1]
  BY TailFacts
<1> HIDE DEF rest
<1>2. /\ Packs(cmds) \in Seq(Seq(Metric)) /\ Len(Packs(cmds)) = N + 1
      /\ \A i \in 1 .. N + 1 : Packs(cmds)[i] = Packable(cmds[i])
      /\ Of(cmds) = FlattenSeq(Packs(cmds))
  BY <1>1, PacksType
<1>3. /\ Packs(rest) \in Seq(Seq(Metric)) /\ Len(Packs(rest)) = N
      /\ \A i \in 1 .. N : Packs(rest)[i] = Packable(rest[i])
      /\ Of(rest) = FlattenSeq(Packs(rest))
  BY <1>1, PacksType
<1> DEFINE s == Packs(cmds)
           Q == Seq(Metric)
<1>4. /\ s # <<>> /\ Head(s) = s[1] /\ Tail(s) \in Seq(Q) /\ Len(Tail(s)) = N
      /\ \A i \in 1 .. N : Tail(s)[i] = s[i + 1]
  <2>1. s \in Seq(Q) /\ Len(s) = N + 1
    BY <1>2
  <2>2. s # <<>>
    BY <1>1, <1>2
  <2> HIDE DEF s, Q, N
  <2> QED
    BY <1>1, <2>1, <2>2, TailFacts
<1>5. Tail(s) = Packs(rest)
  <2>1. ASSUME NEW i \in 1 .. N
        PROVE  Tail(s)[i] = Packs(rest)[i]
    <3>1. i + 1 \in 1 .. N + 1
      BY <1>1
    <3> QED
      BY <1>1, <1>2, <1>3, <1>4, <3>1
  <2>2. Packs(rest) \in Seq(Q)
    BY <1>3
  <2> HIDE DEF s, Q, N
  <2> QED
    BY <1>3, <1>4, <2>1, <2>2, SeqEqual
<1>6. FlattenSeq(s) = Head(s) \o FlattenSeq(Tail(s))
  BY <1>2, <1>4, FlattenHead
<1>7. Head(s) = Packable(Head(cmds))
  <2>1. 1 \in 1 .. N + 1
    BY <1>1
  <2> QED
    BY <1>1, <1>2, <1>4, <2>1
<1> QED
  BY <1>1, <1>2, <1>3, <1>5, <1>6, <1>7 DEF rest

-----------------------------------------------------------------------------
(* What the steps do to the packed metrics and to the channel.               *)

LEMMA OutType ==
  ASSUME SinkTypes, WellPacked(Out)
  PROVE  /\ Out \in Outs /\ Out.buf = udpBuf /\ Out.sent = datagrams
         /\ Packed(Out) \in Seq(Metric) /\ FlattenSeq(datagrams) \in Seq(Metric)
<1>1. Out.buf = udpBuf /\ Out.sent = datagrams /\ Out \in [buf : Seq(Metric), sent : Seq(Seq(Metric))]
  BY DEF Out, SinkTypes
<1>2. Out \in Outs
  BY <1>1 DEF Outs
<1> QED
  BY <1>1, <1>2, PackedType

LEMMA SameOut ==
  ASSUME UNCHANGED <<udpBuf, datagrams>>, WellPacked(Out)
  PROVE  /\ WellPacked(Out)' /\ Packed(Out)' = Packed(Out)
         /\ \A cmd : InHand(cmd) => InHand(cmd)'
<1>1. Out' = Out
  BY DEF Out
<1>2. WellPacked(Out)' /\ Packed(Out)' = Packed(Out)
  BY <1>1 DEF WellPacked, Packed
<1> QED
  BY <1>2 DEF InHand

LEMMA PutOut ==
  ASSUME NEW out \in Outs, Put(out)
  PROVE  /\ udpBuf' \in Seq(Metric) /\ datagrams' \in Seq(Seq(Metric))
         /\ WellPacked(Out)' /\ Packed(Out)' = Packed(out)
<1>1. out \in [buf : Seq(Metric), sent : Seq(Seq(Metric))] /\ WellPacked(out)
  BY DEF Outs
<1>2. Out' = out
  BY <1>1 DEF Out, Put
<1>3. WellPacked(Out)' /\ Packed(Out)' = Packed(out)
  BY <1>1, <1>2 DEF WellPacked, Packed
<1> QED
  BY <1>1, <1>3 DEF Put

LEMMA HandGrows ==
  ASSUME Packed(Out) \in Seq(Metric), NEW s \in Seq(Metric), Packed(Out)' = Packed(Out) \o s
  PROVE  \A cmd : InHand(cmd) \/ (\E m \in ToSet(s) : m.id = cmd.id) => InHand(cmd)'
<1>1. ToSet(Packed(Out) \o s) = ToSet(Packed(Out)) \cup ToSet(s)
  BY ConcatSet
<1>2. ToSet(Packed(Out)') = ToSet(Packed(Out)) \cup ToSet(s)
  BY <1>1
<1> QED
  BY <1>2 DEF InHand

(* A command is taken off the channel, its metrics packed.                   *)
LEMMA TakeKeeps ==
  ASSUME SinkTypes, WellPacked(Out), OrderInv, PlaceInv,
         cmdChan # <<>>, cmdChan' = Tail(cmdChan), emitted' = emitted,
         NEW head, head = Head(cmdChan),
         NEW out \in Outs, Put(out), Packed(out) = Packed(Out) \o Packable(head)
  PROVE  /\ head \in Command /\ WellPacked(Out)' /\ OrderInv' /\ PlaceInv'
         /\ udpBuf' \in Seq(Metric) /\ datagrams' \in Seq(Seq(Metric))
         /\ \A cmd : InHand(cmd) => InHand(cmd)'
         /\ SomeFits(head) => InHand(head)'
<1> DEFINE rest == Tail(cmdChan)
           k == Packable(head)
           p == Packed(Out)
<1>1. /\ cmdChan \in Seq(Command) /\ head \in Command /\ rest \in Seq(Command)
      /\ Of(cmdChan) = k \o Of(rest)
  BY OfHead DEF SinkTypes
<1>2. /\ k \in Seq(Metric) /\ p \in Seq(Metric) /\ Of(rest) \in Seq(Metric)
      /\ SomeFits(head) => \E m \in ToSet(k) : m.id = head.id
  BY <1>1, PackableFits, PacksType, OutType
<1>3. /\ udpBuf' \in Seq(Metric) /\ datagrams' \in Seq(Seq(Metric))
      /\ WellPacked(Out)' /\ Packed(Out)' = p \o k
  BY PutOut
<1>4. \A cmd : InHand(cmd) \/ (\E m \in ToSet(k) : m.id = cmd.id) => InHand(cmd)'
  <2> HIDE DEF k
  <2> QED
    BY <1>2, <1>3, HandGrows
<1>5. OrderInv'
  <2>1. p \o Of(cmdChan) = Of(emitted)
    BY DEF OrderInv
  <2>2. (p \o k) \o Of(rest) = p \o (k \o Of(rest))
    <3> DEFINE u == Of(rest)
    <3>1. u \in Seq(Metric)
      BY <1>2
    <3> HIDE DEF p, k, u
    <3>2. (p \o k) \o u = p \o (k \o u)
      BY ONLY <1>2, <3>1, ConcatAssociative
    <3> QED
      BY <3>2 DEF u
  <2>3. Of(cmdChan)' = Of(rest) /\ Of(emitted)' = Of(emitted)
    BY DEF Of
  <2>4. Packed(Out)' \o Of(cmdChan)' = Of(emitted)'
    BY <1>1, <1>3, <2>1, <2>2, <2>3
  <2> QED
    BY <2>4 DEF OrderInv
<1>6. PlaceInv'
  <2> SUFFICES ASSUME NEW cmd \in ToSet(emitted), SomeFits(cmd)
               PROVE  InHand(cmd)' \/ cmd \in ToSet(rest)
    BY DEF PlaceInv
  <2>1. CASE InHand(cmd)
    BY <1>4, <2>1
  <2>2. CASE cmd \in ToSet(cmdChan)
    <3>0. DOMAIN cmdChan = 1 .. Len(cmdChan)
      BY <1>1
    <3>1. PICK i \in 1 .. Len(cmdChan) : cmd = cmdChan[i]
      BY <2>2, <3>0 DEF ToSet
    <3>2. /\ Len(cmdChan) \in Nat \ {0} /\ Len(rest) = Len(cmdChan) - 1 /\ head = cmdChan[1]
          /\ \A j \in 1 .. Len(cmdChan) - 1 : rest[j] = cmdChan[j + 1]
          /\ DOMAIN rest = 1 .. Len(cmdChan) - 1
      BY <1>1, TailFacts
    <3>3. CASE i = 1
      BY <1>2, <1>4, <3>1, <3>2, <3>3
    <3>4. CASE i # 1
      <4>1. i - 1 \in 1 .. Len(cmdChan) - 1 /\ (i - 1) + 1 = i
        BY <3>2, <3>4
      <4>2. rest[i - 1] = cmd /\ i - 1 \in DOMAIN rest
        BY <3>1, <3>2, <4>1
      <4> HIDE DEF rest
      <4>3. cmd \in ToSet(rest)
        BY <4>2 DEF ToSet
      <4> QED
        BY <4>3
    <3> QED
      BY <3>3, <3>4
  <2> QED
    BY <2>1, <2>2 DEF PlaceInv
<1>7. SomeFits(head) => InHand(head)'
  <2> HIDE DEF k
  <2> QED
    BY <1>2, <1>4
<1> QED
  <2> HIDE DEF k, p
  <2> QED
    BY <1>1, <1>3, <1>4, <1>5, <1>6, <1>7

(* A command is put into the channel.                                        *)
LEMMA ChanGrows ==
  ASSUME cmdChan \in Seq(Command), NEW cmd \in Command, cmdChan' = Append(cmdChan, cmd)
  PROVE  /\ cmdChan' \in Seq(Command) /\ Len(cmdChan') = Len(cmdChan) + 1 /\ Len(cmdChan) \in Nat
         /\ DOMAIN cmdChan = 1 .. Len(cmdChan) /\ DOMAIN cmdChan' = 1 .. Len(cmdChan) + 1
         /\ \A i \in 1 .. Len(cmdChan) : cmdChan'[i] = cmdChan[i]
         /\ cmdChan'[Len(cmdChan) + 1] = cmd
         /\ ToSet(cmdChan') = ToSet(cmdChan) \cup {cmd}
         /\ Of(cmdChan)' = Of(cmdChan) \o Packable(cmd)
         /\ \A other : Ahead(other) => Ahead(other)'
<1>1. /\ cmdChan' \in Seq(Command) /\ Len(cmdChan') = Len(cmdChan) + 1 /\ Len(cmdChan) \in Nat
      /\ DOMAIN cmdChan = 1 .. Len(cmdChan) /\ DOMAIN cmdChan' = 1 .. Len(cmdChan) + 1
      /\ \A i \in 1 .. Len(cmdChan) : cmdChan'[i] = cmdChan[i]
      /\ cmdChan'[Len(cmdChan) + 1] = cmd
  BY AppendFacts
<1>2. ToSet(cmdChan') = ToSet(cmdChan) \cup {cmd}
  BY AppendSet
<1>3. Of(cmdChan)' = Of(cmdChan) \o Packable(cmd)
  <2>1. Of(cmdChan)' = Of(Append(cmdChan, cmd))
    BY DEF Of
  <2> QED
    BY <2>1, OfAppend
<1>4. ASSUME NEW other, Ahead(other)
      PROVE  Ahead(other)'
  <2>1. PICK i \in DOMAIN cmdChan : cmdChan[i] = other /\ \A j \in 1 .. i : ~IsDrain(j)
    BY <1>4 DEF Ahead
  <2>2. i \in DOMAIN cmdChan' /\ cmdChan'[i] = other /\ i \in Nat
    BY <1>1, <2>1
  <2>3. ASSUME NEW j \in 1 .. i
        PROVE  ~IsDrain(j)'
    <3>1. j \in 1 .. Len(cmdChan)
      BY <1>1, <2>1
    <3> QED
      BY <1>1, <2>1, <3>1 DEF IsDrain
  <2> QED
    BY <2>2, <2>3 DEF Ahead
<1> QED
  BY <1>1, <1>2, <1>3, <1>4

-----------------------------------------------------------------------------
(* The callers.                                                              *)

LEMMA Commands ==
  /\ Idle \in Command /\ FlushCommand \in Command /\ Idle.kind = "none" /\ Idle.lengths = <<>>
  /\ FlushCommand.kind = "flush" /\ FlushCommand.lengths = <<>>
  /\ \A k \in {"drain", "stop"} :
       [Idle EXCEPT !.kind = k] \in Command /\ [Idle EXCEPT !.kind = k].kind = k
  /\ <<>> \in Seq(Command)
<1>1. <<>> \in Seq(Nat \ {0}) /\ 0 \in Nat /\ <<>> \in Seq(Command)
  OBVIOUS
<1>2. \A k : [Idle EXCEPT !.kind = k] = [kind |-> k, id |-> 0, lengths |-> <<>>]
  BY DEF Idle
<1>3. ASSUME NEW k \in {"none", "emit", "flush", "drain", "stop"}
      PROVE  [kind |-> k, id |-> 0, lengths |-> <<>>] \in Command
  <2> DEFINE cmd == [kind |-> k, id |-> 0, lengths |-> <<>>]
  <2>1. cmd \in [kind : {"none", "emit", "flush", "drain", "stop"}, id : Nat, lengths : Seq(Nat \ {0})]
    BY <1>1
  <2>2. cmd.lengths = <<>>
    OBVIOUS
  <2> HIDE DEF cmd
  <2>3. cmd \in Command
    BY <2>1, <2>2 DEF Command
  <2> QED
    BY <2>3 DEF cmd
<1>4. Idle \in Command /\ Idle.kind = "none" /\ Idle.lengths = <<>>
  BY <1>3 DEF Idle
<1>5. FlushCommand \in Command /\ FlushCommand.kind = "flush" /\ FlushCommand.lengths = <<>>
  BY <1>2, <1>3 DEF FlushCommand
<1>6. \A k \in {"drain", "stop"} :
        [Idle EXCEPT !.kind = k] \in Command /\ [Idle EXCEPT !.kind = k].kind = k
  BY <1>2, <1>3
<1> QED
  BY <1>1, <1>4, <1>5, <1>6

LEMMA SinkBegins == SinkInit => SinkInv
<1> SUFFICES ASSUME SinkInit
             PROVE  SinkInv
  OBVIOUS
<1>1. SinkTypes
  <2>1. Idle \in Command /\ Idle.kind = "none" /\ <<>> \in Seq(Command) /\ Len(<<>>) = 0
    BY Commands
  <2>2. <<>> \in Seq(Metric) /\ <<>> \in Seq(Seq(Metric)) /\ cmdChanBuffSize \in Nat /\ 0 \in 0 .. MaxCommands
    BY SinkAssumption
  <2>3. calling \in [SinkCaller -> Command] /\ due \in [SinkCaller -> Seq(Command)]
    BY <2>1 DEF SinkInit
  <2>4. \A c \in SinkCaller : calling[c].kind # "flush" /\ (blocked[c] => calling[c].kind # "none")
    BY <2>1 DEF SinkInit
  <2>5. cmdChan \in Seq(Command) /\ Len(cmdChan) <= cmdChanBuffSize /\ emitted \in Seq(Command)
    BY <2>1, <2>2 DEF SinkInit
  <2>6. udpBuf \in Seq(Metric) /\ datagrams \in Seq(Seq(Metric))
    BY <2>2 DEF SinkInit
  <2>7. blocked \in [SinkCaller -> BOOLEAN] /\ ncommands \in 0 .. MaxCommands
    BY <2>2 DEF SinkInit
  <2> QED
    BY <2>3, <2>4, <2>5, <2>6, <2>7 DEF SinkInit, SinkTypes
<1>2. WellPacked(Out)
  <2>1. Out.buf = <<>> /\ Out.sent = <<>>
    BY DEF SinkInit, Out
  <2> QED
    BY <2>1, BytesEmpty, SinkAssumption DEF WellPacked
<1>3. OrderInv
  <2>1. Packed(Out) = <<>> \o <<>>
    BY FlattenEmpty DEF SinkInit, Out, Packed
  <2> QED
    BY <2>1, OfEmpty DEF SinkInit, OrderInv
<1>4. PlaceInv
  BY DEF SinkInit, PlaceInv, ToSet
<1>5. OneDrainInv /\ DueInv
  BY Commands DEF SinkInit, OneDrainInv, DueInv, Waits
<1> QED
  BY <1>1, <1>2, <1>3, <1>4, <1>5 DEF SinkInv, SinkInit

(* Steps that leave the channel and the buffers alone.                       *)
LEMMA ChanStays ==
  ASSUME SinkInv, UNCHANGED <<cmdChan, udpBuf, datagrams, emitted>>, loop' = loop \/ loop' # "drained"
  PROVE  /\ WellPacked(Out)' /\ OrderInv' /\ PlaceInv'
         /\ loop' = "drained" => udpBuf' = <<>>
         /\ \A cmd : InHand(cmd) => InHand(cmd)'
         /\ \A cmd : Ahead(cmd) => Ahead(cmd)'
<1>1. /\ WellPacked(Out)' /\ Packed(Out)' = Packed(Out)
      /\ \A cmd : InHand(cmd) => InHand(cmd)'
  BY SameOut DEF SinkInv
<1>2. OrderInv'
  <2>1. Of(cmdChan)' = Of(cmdChan) /\ Of(emitted)' = Of(emitted)
    BY DEF Of
  <2> QED
    BY <1>1, <2>1 DEF SinkInv, OrderInv
<1>3. PlaceInv'
  BY <1>1 DEF SinkInv, PlaceInv
<1>4. \A cmd : Ahead(cmd) => Ahead(cmd)'
  BY DEF Ahead, IsDrain
<1> QED
  BY <1>1, <1>2, <1>3, <1>4 DEF SinkInv

LEMMA EmitKeeps ==
  ASSUME SinkInv, NEW c \in SinkCaller, Emit(c)
  PROVE  SinkInv'
<1>1. PICK lengths \in Lengths :
        Call(c, [kind |-> "emit", id |-> ncommands + 1, lengths |-> lengths])
  BY DEF Emit
<1>2. due' = due /\ crossed' = crossed
  BY DEF Emit
<1> DEFINE cmd == [kind |-> "emit", id |-> ncommands + 1, lengths |-> lengths]
<1>3. /\ calling[c] = Idle /\ ncommands < MaxCommands /\ ncommands' = ncommands + 1
      /\ calling' = [calling EXCEPT ![c] = cmd] /\ blocked' = [blocked EXCEPT ![c] = TRUE]
      /\ UNCHANGED <<cmdChan, udpBuf, datagrams, loop, emitted, drained>>
  BY <1>1 DEF Call
<1>4. SinkTypes /\ ncommands \in Nat /\ MaxCommands \in Nat
  BY SinkAssumption DEF SinkInv, SinkTypes
<1>5. cmd \in Command /\ cmd.kind = "emit"
  <2>1. lengths \in Seq(Nat \ {0}) /\ ncommands + 1 \in Nat
    BY <1>4, SinkAssumption
  <2> QED
    BY <2>1 DEF Command
<1> HIDE DEF cmd
<1>6. SinkTypes'
  BY <1>2, <1>3, <1>4, <1>5 DEF SinkTypes
<1>7. /\ WellPacked(Out)' /\ OrderInv' /\ PlaceInv'
      /\ loop' = "drained" => udpBuf' = <<>>
      /\ \A other : InHand(other) => InHand(other)'
      /\ \A other : Ahead(other) => Ahead(other)'
  BY <1>3, ChanStays
<1>8. /\ \A d \in SinkCaller : calling'[d].kind = IF d = c THEN "emit" ELSE calling[d].kind
      /\ \A d \in SinkCaller : d # c => blocked'[d] = blocked[d]
      /\ ~Waits(c)
  BY <1>3, <1>4, <1>5, Commands DEF SinkTypes, Waits
<1>9. \A d \in SinkCaller : (Waits(d)' <=> Waits(d)) /\ (Waits(d) => d # c)
  BY <1>8 DEF Waits
<1>10. ASSUME OneDrainInv, DueInv
       PROVE  OneDrainInv' /\ DueInv'
  <2>1. OneDrainInv'
    BY <1>3, <1>8, <1>9, <1>10 DEF OneDrainInv, IsDrain
  <2>2. DueInv'
    BY <1>2, <1>3, <1>7, <1>9, <1>10 DEF DueInv
  <2> QED
    BY <2>1, <2>2
<1> QED
  BY <1>2, <1>6, <1>7, <1>10 DEF SinkInv

LEMMA DrainOrStopKeeps ==
  ASSUME SinkInv, NEW c \in SinkCaller, DrainOrStop(c)
  PROVE  SinkInv'
<1>1. PICK kind \in {"drain", "stop"} :
        /\ Call(c, [Idle EXCEPT !.kind = kind])
        /\ due' = [due EXCEPT ![c] = emitted]
        /\ crossed' = (crossed \/ kind = "stop" \/ \E d \in SinkCaller : Waits(d))
  BY DEF DrainOrStop
<1> DEFINE cmd == [Idle EXCEPT !.kind = kind]
<1>3. /\ calling[c] = Idle /\ ncommands < MaxCommands /\ ncommands' = ncommands + 1
      /\ calling' = [calling EXCEPT ![c] = cmd] /\ blocked' = [blocked EXCEPT ![c] = TRUE]
      /\ UNCHANGED <<cmdChan, udpBuf, datagrams, loop, emitted, drained>>
  BY <1>1 DEF Call
<1>4. SinkTypes /\ ncommands \in Nat /\ MaxCommands \in Nat
  BY SinkAssumption DEF SinkInv, SinkTypes
<1>5. cmd \in Command /\ cmd.kind = kind
  BY Commands
<1> HIDE DEF cmd
<1>6. SinkTypes'
  BY <1>1, <1>3, <1>4, <1>5 DEF SinkTypes
<1>7. /\ WellPacked(Out)' /\ OrderInv' /\ PlaceInv'
      /\ loop' = "drained" => udpBuf' = <<>>
      /\ \A other : InHand(other) => InHand(other)'
      /\ \A other : Ahead(other) => Ahead(other)'
  BY <1>3, ChanStays
<1>8. /\ \A d \in SinkCaller : calling'[d].kind = IF d = c THEN kind ELSE calling[d].kind
      /\ \A d \in SinkCaller : d # c => blocked'[d] = blocked[d]
  BY <1>3, <1>4, <1>5 DEF SinkTypes
<1>9. ASSUME ~crossed'
      PROVE  OneDrainInv' /\ DueInv'
  <2>1. ~crossed /\ kind = "drain" /\ OneDrainInv /\ \A d \in SinkCaller : ~Waits(d)
    BY <1>1, <1>9 DEF SinkInv
  <2>2. loop = "receive" /\ \A i \in DOMAIN cmdChan : ~IsDrain(i)
    BY <2>1 DEF OneDrainInv
  <2>3. \A d \in SinkCaller : Waits(d)' => d = c
    BY <1>8, <2>1 DEF Waits
  <2>4. OneDrainInv'
    BY <1>3, <1>8, <2>1, <2>2, <2>3 DEF OneDrainInv, IsDrain
  <2>5. ASSUME NEW d \in SinkCaller, Waits(d)', NEW other \in ToSet(due'[d]), SomeFits(other)
        PROVE  InHand(other)' \/ (loop' = "receive" /\ Ahead(other)')
    <3>1. d = c /\ due'[c] = emitted
      BY <1>1, <1>4, <2>3, <2>5 DEF SinkTypes
    <3>2. InHand(other) \/ other \in ToSet(cmdChan)
      BY <2>5, <3>1 DEF SinkInv, PlaceInv
    <3>3. ASSUME other \in ToSet(cmdChan)
          PROVE  Ahead(other)
      <4>1. PICK i \in DOMAIN cmdChan : cmdChan[i] = other
        BY <3>3 DEF ToSet
      <4>2. \A j \in 1 .. i : j \in DOMAIN cmdChan
        BY <1>4, <4>1 DEF SinkTypes
      <4> QED
        BY <2>2, <4>1, <4>2 DEF Ahead
    <3> QED
      BY <1>3, <1>7, <2>2, <3>2, <3>3
  <2> QED
    BY <2>4, <2>5 DEF DueInv
<1> QED
  BY <1>6, <1>7, <1>9 DEF SinkInv

LEMMA TickKeeps ==
  ASSUME SinkInv, Tick
  PROVE  SinkInv'
<1>1. /\ Len(cmdChan) < cmdChanBuffSize /\ cmdChan' = Append(cmdChan, FlushCommand)
      /\ UNCHANGED <<calling, blocked, udpBuf, datagrams, loop, ncommands, emitted, due, drained, crossed>>
  BY DEF Tick
<1>2. SinkTypes /\ cmdChan \in Seq(Command) /\ FlushCommand \in Command /\ cmdChanBuffSize \in Nat
  BY SinkAssumption, Commands DEF SinkInv, SinkTypes
<1> DEFINE cmd == FlushCommand
<1>3. cmd \in Command /\ cmdChan' = Append(cmdChan, cmd) /\ cmd.kind = "flush" /\ cmd.lengths = <<>>
  BY <1>1, <1>2, Commands
<1> HIDE DEF cmd
<1>4. /\ cmdChan' \in Seq(Command) /\ Len(cmdChan') = Len(cmdChan) + 1 /\ Len(cmdChan) \in Nat
      /\ DOMAIN cmdChan = 1 .. Len(cmdChan) /\ DOMAIN cmdChan' = 1 .. Len(cmdChan) + 1
      /\ \A i \in 1 .. Len(cmdChan) : cmdChan'[i] = cmdChan[i]
      /\ cmdChan'[Len(cmdChan) + 1] = cmd
      /\ ToSet(cmdChan') = ToSet(cmdChan) \cup {cmd}
      /\ Of(cmdChan)' = Of(cmdChan) \o Packable(cmd)
      /\ \A other : Ahead(other) => Ahead(other)'
  BY <1>2, <1>3, ChanGrows
<1>5. Packable(cmd) = <<>> /\ Of(cmdChan) \in Seq(Metric)
  BY <1>2, <1>3, PackableFits, PacksType
<1>6. SinkTypes'
  BY <1>1, <1>2, <1>4 DEF SinkTypes
<1>7. /\ WellPacked(Out)' /\ Packed(Out)' = Packed(Out)
      /\ \A other : InHand(other) => InHand(other)'
  BY <1>1, SameOut DEF SinkInv
<1>8. OrderInv'
  <2>1. Of(cmdChan)' = Of(cmdChan)
    BY <1>4, <1>5, ConcatEmptySeq
  <2>2. Of(emitted)' = Of(emitted)
    BY <1>1 DEF Of
  <2> QED
    BY <1>7, <2>1, <2>2 DEF SinkInv, OrderInv
<1>9. PlaceInv'
  BY <1>1, <1>4, <1>7 DEF SinkInv, PlaceInv
<1>10. ASSUME OneDrainInv, DueInv
       PROVE  OneDrainInv' /\ DueInv'
  <2>1. \A i \in DOMAIN cmdChan' : (i \in DOMAIN cmdChan /\ cmdChan'[i] = cmdChan[i]) \/ cmdChan'[i] = cmd
    BY <1>4
  <2>2. \A i \in DOMAIN cmdChan' : /\ IsDrain(i)' => i \in DOMAIN cmdChan /\ IsDrain(i)
                                   /\ cmdChan'[i].kind # "stop"
    BY <1>3, <1>10, <2>1 DEF IsDrain, OneDrainInv
  <2>3. \A d \in SinkCaller : Waits(d)' <=> Waits(d)
    BY <1>1 DEF Waits
  <2>4. OneDrainInv'
    BY <1>1, <1>10, <2>2, <2>3 DEF OneDrainInv
  <2>5. DueInv'
    BY <1>1, <1>4, <1>7, <1>10, <2>3 DEF DueInv
  <2> QED
    BY <2>4, <2>5
<1> QED
  BY <1>1, <1>6, <1>7, <1>8, <1>9, <1>10 DEF SinkInv

(* The channel takes the command of a waiting caller, or of an emit.         *)
LEMMA SendCommandKeeps ==
  ASSUME SinkInv, NEW c \in SinkCaller, SendCommand(c)
  PROVE  SinkInv'
<1>1. /\ blocked[c] /\ Len(cmdChan) < cmdChanBuffSize /\ cmdChan' = Append(cmdChan, calling[c])
      /\ blocked' = [blocked EXCEPT ![c] = FALSE]
      /\ UNCHANGED <<udpBuf, datagrams, loop, ncommands, due, drained, crossed>>
  BY DEF SendCommand
<1> DEFINE cmd == calling[c]
<1>2. /\ SinkTypes /\ cmdChan \in Seq(Command) /\ emitted \in Seq(Command) /\ cmdChanBuffSize \in Nat
      /\ cmd \in Command /\ cmd.kind \notin {"none", "flush"}
  BY <1>1, SinkAssumption DEF SinkInv, SinkTypes
<1>3. cmd.kind \in {"emit", "drain", "stop"} /\ (cmd.kind # "emit" => cmd.lengths = <<>>)
  BY <1>2 DEF Command
<1>4. /\ cmdChan' \in Seq(Command) /\ Len(cmdChan') = Len(cmdChan) + 1 /\ Len(cmdChan) \in Nat
      /\ DOMAIN cmdChan = 1 .. Len(cmdChan) /\ DOMAIN cmdChan' = 1 .. Len(cmdChan) + 1
      /\ \A i \in 1 .. Len(cmdChan) : cmdChan'[i] = cmdChan[i]
      /\ cmdChan'[Len(cmdChan) + 1] = cmd
      /\ ToSet(cmdChan') = ToSet(cmdChan) \cup {cmd}
      /\ Of(cmdChan)' = Of(cmdChan) \o Packable(cmd)
      /\ \A other : Ahead(other) => Ahead(other)'
  <2> HIDE DEF cmd
  <2>1. cmdChan' = Append(cmdChan, cmd)
    BY <1>1 DEF cmd
  <2> QED
    BY <1>2, <2>1, ChanGrows
<1>5. /\ WellPacked(Out)' /\ Packed(Out)' = Packed(Out)
      /\ \A other : InHand(other) => InHand(other)'
  BY <1>1, SameOut DEF SinkInv
<1>6. /\ Packed(Out) \in Seq(Metric) /\ Of(cmdChan) \in Seq(Metric) /\ Packable(cmd) \in Seq(Metric)
      /\ cmd.lengths = <<>> => Packable(cmd) = <<>>
  BY <1>2, OutType, PacksType, PackableFits DEF SinkInv
<1>7. CASE ~Waits(c)
  <2>1. calling' = [calling EXCEPT ![c] = Idle] /\ emitted' = Append(emitted, cmd)
    BY <1>7 DEF SendCommand
  <2>2. emitted' \in Seq(Command) /\ ToSet(emitted') = ToSet(emitted) \cup {cmd}
    BY <1>2, <2>1, AppendFacts, AppendSet
  <2>3. /\ \A d \in SinkCaller : calling'[d] = IF d = c THEN Idle ELSE calling[d]
        /\ \A d \in SinkCaller : blocked'[d] = IF d = c THEN FALSE ELSE blocked[d]
        /\ calling' \in [SinkCaller -> Command] /\ blocked' \in [SinkCaller -> BOOLEAN]
    BY <1>1, <1>2, <2>1, Commands DEF SinkTypes
  <2>4. SinkTypes'
    <3>1. \A d \in SinkCaller : calling'[d].kind # "flush" /\ (blocked'[d] => calling'[d].kind # "none")
      BY <1>2, <2>3, Commands DEF SinkTypes
    <3>2. Len(cmdChan') <= cmdChanBuffSize
      BY <1>1, <1>2, <1>4
    <3> QED
      BY <1>1, <1>2, <1>4, <2>2, <2>3, <3>1, <3>2 DEF SinkTypes
  <2>5. OrderInv'
    <3> DEFINE p == Packed(Out)
               u == Of(cmdChan)
               k == Packable(cmd)
    <3>1. p \o u = Of(emitted)
      BY DEF SinkInv, OrderInv
    <3>2. Of(emitted)' = Of(emitted) \o k
      <4>1. Of(emitted)' = Of(Append(emitted, cmd))
        BY <2>1 DEF Of
      <4> HIDE DEF cmd
      <4> QED
        BY <1>2, <4>1, OfAppend
    <3>3. p \in Seq(Metric) /\ u \in Seq(Metric) /\ k \in Seq(Metric)
      BY <1>6
    <3>4. Packed(Out)' = p /\ Of(cmdChan)' = u \o k
      BY <1>4, <1>5
    <3> HIDE DEF p, u, k
    <3>5. p \o (u \o k) = (p \o u) \o k
      BY ONLY <3>3, ConcatAssociative
    <3>6. Packed(Out)' \o Of(cmdChan)' = Of(emitted)'
      BY <3>1, <3>2, <3>4, <3>5
    <3> QED
      BY <3>6 DEF OrderInv
  <2>6. PlaceInv'
    BY <1>4, <1>5, <2>2 DEF SinkInv, PlaceInv
  <2>7. \A d \in SinkCaller : (Waits(d)' <=> Waits(d)) /\ (Waits(d) => d # c)
    BY <1>7, <2>3, Commands DEF Waits
  <2>8. ASSUME OneDrainInv, DueInv
        PROVE  OneDrainInv' /\ DueInv'
    <3>0. cmd.kind = "emit"
      BY <1>3, <1>7 DEF Waits
    <3>1. \A i \in DOMAIN cmdChan' : (i \in DOMAIN cmdChan /\ cmdChan'[i] = cmdChan[i]) \/ cmdChan'[i] = cmd
      BY <1>4
    <3>2. \A i \in DOMAIN cmdChan' : /\ IsDrain(i)' => i \in DOMAIN cmdChan /\ IsDrain(i)
                                     /\ cmdChan'[i].kind # "stop"
      BY <2>8, <3>0, <3>1 DEF IsDrain, OneDrainInv
    <3>3. \A d \in SinkCaller : calling'[d].kind # "stop"
      BY <2>3, <2>8, Commands DEF OneDrainInv
    <3>4. OneDrainInv'
      BY <1>1, <2>3, <2>7, <2>8, <3>2, <3>3 DEF OneDrainInv
    <3>5. DueInv'
      BY <1>1, <1>4, <1>5, <2>7, <2>8 DEF DueInv
    <3> QED
      BY <3>4, <3>5
  <2> QED
    BY <1>1, <1>5, <2>4, <2>5, <2>6, <2>8 DEF SinkInv
<1>8. CASE Waits(c)
  <2>1. calling' = calling /\ emitted' = emitted
    BY <1>8 DEF SendCommand
  <2>2. Packable(cmd) = <<>>
    BY <1>3, <1>6, <1>8 DEF Waits
  <2>3. /\ \A d \in SinkCaller : blocked'[d] = IF d = c THEN FALSE ELSE blocked[d]
        /\ blocked' \in [SinkCaller -> BOOLEAN]
    BY <1>1, <1>2 DEF SinkTypes
  <2>4. SinkTypes'
    <3>1. Len(cmdChan') <= cmdChanBuffSize
      BY <1>1, <1>2, <1>4
    <3> QED
      BY <1>1, <1>2, <1>4, <2>1, <2>3, <3>1 DEF SinkTypes
  <2>5. OrderInv'
    <3>1. Of(cmdChan)' = Of(cmdChan)
      BY <1>4, <1>6, <2>2, ConcatEmptySeq
    <3>2. Of(emitted)' = Of(emitted)
      BY <2>1 DEF Of
    <3> QED
      BY <1>5, <3>1, <3>2 DEF SinkInv, OrderInv
  <2>6. PlaceInv'
    BY <1>4, <1>5, <2>1 DEF SinkInv, PlaceInv
  <2>7. \A d \in SinkCaller : Waits(d)' <=> Waits(d)
    BY <2>1 DEF Waits
  <2>8. ASSUME OneDrainInv, DueInv
        PROVE  OneDrainInv' /\ DueInv'
    <3>1. \A d \in SinkCaller : Waits(d) => d = c
      BY <1>8, <2>8 DEF OneDrainInv
    <3>2. loop = "receive" /\ (\A i \in DOMAIN cmdChan : ~IsDrain(i)) /\ cmd.kind # "stop"
      BY <1>1, <2>8, <3>1 DEF OneDrainInv
    <3>3. \A i \in DOMAIN cmdChan' :
            (i \in DOMAIN cmdChan /\ cmdChan'[i] = cmdChan[i]) \/ (i = Len(cmdChan) + 1 /\ cmdChan'[i] = cmd)
      BY <1>4
    <3>4. \A i \in DOMAIN cmdChan' : /\ IsDrain(i)' => i = Len(cmdChan) + 1
                                     /\ cmdChan'[i].kind # "stop"
      BY <2>8, <3>2, <3>3 DEF IsDrain, OneDrainInv
    <3>5. Waits(c)' /\ ~blocked'[c]
      BY <1>8, <2>3, <2>7
    <3>6. OneDrainInv'
      BY <1>1, <2>1, <2>7, <2>8, <3>2, <3>4, <3>5 DEF OneDrainInv
    <3>7. DueInv'
      BY <1>1, <1>4, <1>5, <2>7, <2>8 DEF DueInv
    <3> QED
      BY <3>6, <3>7
  <2> QED
    BY <1>1, <1>5, <2>4, <2>5, <2>6, <2>8 DEF SinkInv
<1> QED
  BY <1>7, <1>8

-----------------------------------------------------------------------------
(* The loop.                                                                 *)

LEMMA ChanShrinks ==
  ASSUME SinkTypes, cmdChan # <<>>, cmdChan' = Tail(cmdChan)
  PROVE  /\ cmdChan' \in Seq(Command) /\ Len(cmdChan') <= cmdChanBuffSize
         /\ Head(cmdChan) \in Command /\ Head(cmdChan) = cmdChan[1] /\ 1 \in DOMAIN cmdChan
         /\ \A i \in DOMAIN cmdChan' : /\ i \in Nat /\ i + 1 \in DOMAIN cmdChan /\ cmdChan'[i] = cmdChan[i + 1]
                                       /\ i + 1 # 1 /\ (IsDrain(i)' <=> IsDrain(i + 1))
         /\ \A i \in DOMAIN cmdChan : i # 1 => i - 1 \in DOMAIN cmdChan' /\ (i - 1) + 1 = i
         /\ \A other : Ahead(other) => other = Head(cmdChan) \/ (cmdChan[1].kind # "drain" /\ Ahead(other)')
<1> DEFINE N == Len(cmdChan)
<1>1. /\ cmdChan \in Seq(Command) /\ N \in Nat \ {0} /\ Len(cmdChan) <= cmdChanBuffSize
      /\ Head(cmdChan) = cmdChan[1] /\ Head(cmdChan) \in Command /\ cmdChan' \in Seq(Command)
      /\ Len(cmdChan') = N - 1 /\ \A i \in 1 .. N - 1 : cmdChan'[i] = cmdChan[i + 1]
  BY TailFacts DEF SinkTypes
<1>2. DOMAIN cmdChan = 1 .. N /\ DOMAIN cmdChan' = 1 .. N - 1 /\ cmdChanBuffSize \in Nat
  BY <1>1, SinkAssumption
<1> HIDE DEF N
<1>3. \A i \in DOMAIN cmdChan' : i \in Nat /\ i + 1 \in DOMAIN cmdChan /\ cmdChan'[i] = cmdChan[i + 1] /\ i + 1 # 1
  BY <1>1, <1>2
<1>4. \A i \in DOMAIN cmdChan' : IsDrain(i)' <=> IsDrain(i + 1)
  BY <1>3 DEF IsDrain
<1>5. \A i \in DOMAIN cmdChan : i # 1 => i - 1 \in DOMAIN cmdChan' /\ (i - 1) + 1 = i
  BY <1>1, <1>2
<1>6. ASSUME NEW other, Ahead(other), other # Head(cmdChan)
      PROVE  cmdChan[1].kind # "drain" /\ Ahead(other)'
  <2>1. PICK i \in DOMAIN cmdChan : cmdChan[i] = other /\ \A j \in 1 .. i : ~IsDrain(j)
    BY <1>6 DEF Ahead
  <2>2. i # 1 /\ i \in Nat /\ 1 \in 1 .. i
    BY <1>1, <1>2, <1>6, <2>1
  <2>3. cmdChan[1].kind # "drain"
    BY <2>1, <2>2 DEF IsDrain
  <2> DEFINE h == i - 1
  <2>4. h \in DOMAIN cmdChan' /\ h + 1 = i /\ cmdChan'[h] = cmdChan[h + 1]
    BY <1>3, <1>5, <2>2
  <2>5. ASSUME NEW j \in 1 .. h
        PROVE  ~IsDrain(j)'
    <3>1. j \in DOMAIN cmdChan' /\ j + 1 \in 1 .. i
      BY <1>1, <1>2, <2>2, <2>4
    <3> QED
      BY <1>4, <2>1, <3>1
  <2> HIDE DEF h
  <2>6. Ahead(other)'
    BY <2>1, <2>4, <2>5 DEF Ahead
  <2> QED
    BY <2>3, <2>6
<1>7. Len(cmdChan') <= cmdChanBuffSize /\ 1 \in DOMAIN cmdChan
  BY <1>1, <1>2 DEF N
<1> QED
  BY <1>1, <1>3, <1>4, <1>5, <1>6, <1>7

(* A command that packs none of its metrics changes nothing that is packed.  *)
LEMMA NonePacked ==
  ASSUME NEW out \in Outs, NEW after \in Outs, Packed(after) = Packed(out),
         NEW cmd \in Command, cmd.lengths = <<>>
  PROVE  Packed(after) = Packed(out) \o Packable(cmd)
<1>1. Packable(cmd) = <<>> /\ Packed(out) \in Seq(Metric)
  BY PackableFits, PackedType
<1> QED
  BY <1>1, ConcatEmptySeq

(* What a Drain waits for, when the loop takes a command.                    *)
LEMMA DueTaken ==
  ASSUME SinkTypes, cmdChan # <<>>, cmdChan' = Tail(cmdChan), UNCHANGED <<calling, due>>, DueInv,
         \A cmd : InHand(cmd) => InHand(cmd)',
         NEW head, head = Head(cmdChan), SomeFits(head) => InHand(head)',
         cmdChan[1].kind # "drain" => loop' = loop
  PROVE  DueInv'
<1>1. \A cmd : Ahead(cmd) => cmd = head \/ (cmdChan[1].kind # "drain" /\ Ahead(cmd)')
  BY ChanShrinks
<1>2. ASSUME NEW c \in SinkCaller, Waits(c)', NEW cmd \in ToSet(due[c]), SomeFits(cmd)
      PROVE  InHand(cmd)' \/ (loop' = "receive" /\ Ahead(cmd)')
  <2>1. Waits(c)
    BY <1>2 DEF Waits
  <2>2. InHand(cmd) \/ (loop = "receive" /\ Ahead(cmd))
    BY <1>2, <2>1 DEF DueInv
  <2> QED
    BY <1>1, <1>2, <2>2
<1> QED
  BY <1>2 DEF DueInv

LEMMA ReceiveCommandKeeps ==
  ASSUME SinkInv, ReceiveCommand
  PROVE  SinkInv'
<1>0. PICK head : head = Head(cmdChan)
  OBVIOUS
<1> DEFINE out == IF head.kind = "emit" THEN processCmd(Out, head)
                  ELSE IF head.kind = "flush" THEN flush(Out) ELSE Out
<1>1. /\ loop = "receive" /\ cmdChan # <<>> /\ cmdChan' = Tail(cmdChan) /\ Put(out)
      /\ loop' = IF head.kind = "drain" THEN "drain"
                 ELSE IF head.kind = "stop" THEN "stopped" ELSE loop
      /\ UNCHANGED <<calling, blocked, ncommands, emitted, due, drained, crossed>>
  BY <1>0 DEF ReceiveCommand
<1>2. SinkTypes /\ WellPacked(Out) /\ OrderInv /\ PlaceInv /\ Out \in Outs
  BY OutType DEF SinkInv
<1>3. /\ cmdChan' \in Seq(Command) /\ Len(cmdChan') <= cmdChanBuffSize
      /\ head \in Command /\ head = cmdChan[1] /\ 1 \in DOMAIN cmdChan
      /\ \A i \in DOMAIN cmdChan' : /\ i + 1 \in DOMAIN cmdChan /\ cmdChan'[i] = cmdChan[i + 1]
                                    /\ i + 1 # 1 /\ (IsDrain(i)' <=> IsDrain(i + 1)) /\ i \in Nat
  BY <1>0, <1>1, <1>2, ChanShrinks
<1>4. out \in Outs /\ Packed(out) = Packed(Out) \o Packable(head)
  <2>1. CASE head.kind = "emit"
    BY <1>2, <1>3, <2>1, ProcessKeeps
  <2>2. CASE head.kind = "flush"
    <3>1. head.lengths = <<>> /\ out = flush(Out)
      BY <1>3, <2>2 DEF Command
    <3>2. flush(Out) \in Outs /\ Packed(flush(Out)) = Packed(Out)
      BY <1>2, FlushKeeps
    <3> HIDE DEF out
    <3> QED
      BY <1>2, <1>3, <3>1, <3>2, NonePacked
  <2>3. CASE head.kind \notin {"emit", "flush"}
    <3>1. head.lengths = <<>> /\ out = Out
      BY <1>3, <2>3 DEF Command
    <3> HIDE DEF out
    <3> QED
      BY <1>2, <1>3, <3>1, NonePacked
  <2> QED
    BY <2>1, <2>2, <2>3
<1> HIDE DEF out
<1>5. /\ WellPacked(Out)' /\ OrderInv' /\ PlaceInv'
      /\ udpBuf' \in Seq(Metric) /\ datagrams' \in Seq(Seq(Metric))
      /\ \A cmd : InHand(cmd) => InHand(cmd)'
      /\ SomeFits(head) => InHand(head)'
  BY <1>0, <1>1, <1>2, <1>4, TakeKeeps
<1>6. SinkTypes' /\ loop' \in {"receive", "drain", "stopped"}
  BY <1>1, <1>2, <1>3, <1>5 DEF SinkTypes
<1>7. ASSUME OneDrainInv, DueInv
      PROVE  OneDrainInv' /\ DueInv'
  <2>1. head.kind # "stop" /\ (head.kind = "drain" <=> IsDrain(1))
    BY <1>3, <1>7 DEF OneDrainInv, IsDrain
  <2>2. loop' = IF IsDrain(1) THEN "drain" ELSE "receive"
    BY <1>1, <2>1
  <2>3. \A d \in SinkCaller : Waits(d)' <=> Waits(d)
    BY <1>1 DEF Waits
  <2>4. IsDrain(1) => \A i \in DOMAIN cmdChan' : ~IsDrain(i)'
    BY <1>3, <1>7 DEF OneDrainInv
  <2>5. \A i, j \in DOMAIN cmdChan' : IsDrain(i)' /\ IsDrain(j)' => i = j
    <3> SUFFICES ASSUME NEW i \in DOMAIN cmdChan', NEW j \in DOMAIN cmdChan', IsDrain(i)', IsDrain(j)'
                 PROVE  i = j
      OBVIOUS
    <3>1. i \in Nat /\ j \in Nat /\ i + 1 = j + 1
      BY <1>3, <1>7 DEF OneDrainInv
    <3> QED
      BY <3>1
  <2>6. (\E i \in DOMAIN cmdChan' : IsDrain(i)') \/ loop' # "receive" =>
          \E i \in DOMAIN cmdChan : IsDrain(i)
    BY <1>3, <2>2
  <2>7. \A i \in DOMAIN cmdChan' : cmdChan'[i].kind # "stop"
    BY <1>3, <1>7 DEF OneDrainInv
  <2>8. OneDrainInv'
    <3>1. drained' /\ loop' \in {"receive", "drain", "drained"} /\ \A d \in SinkCaller : calling'[d].kind # "stop"
      BY <1>1, <1>7, <2>2 DEF OneDrainInv
    <3>2. \A c, d \in SinkCaller : Waits(c)' /\ Waits(d)' => c = d
      BY <1>7, <2>3 DEF OneDrainInv
    <3>3. (\E i \in DOMAIN cmdChan' : IsDrain(i)') => loop' = "receive"
      BY <2>2, <2>4
    <3>4. (\E i \in DOMAIN cmdChan' : IsDrain(i)') \/ loop' # "receive" =>
            \E d \in SinkCaller : Waits(d)' /\ ~blocked'[d]
      BY <1>1, <1>7, <2>3, <2>6 DEF OneDrainInv
    <3> QED
      BY <2>5, <2>7, <3>1, <3>2, <3>3, <3>4 DEF OneDrainInv
  <2>9. DueInv'
    <3>1. cmdChan[1].kind # "drain" => loop' = loop
      BY <1>1, <1>3, <2>1
    <3> QED
      BY <1>0, <1>1, <1>2, <1>5, <1>7, <3>1, DueTaken
  <2> QED
    BY <2>8, <2>9
<1> QED
  BY <1>1, <1>5, <1>6, <1>7 DEF SinkInv

LEMMA DrainReceiveKeeps ==
  ASSUME SinkInv, DrainReceive
  PROVE  SinkInv'
<1>0. PICK head : head = Head(cmdChan)
  OBVIOUS
<1> DEFINE out == processCmd(Out, head)
<1>1. /\ loop = "drain" /\ cmdChan # <<>> /\ cmdChan' = Tail(cmdChan) /\ Put(out)
      /\ UNCHANGED <<calling, blocked, loop, ncommands, emitted, due, drained, crossed>>
  BY <1>0 DEF DrainReceive
<1>2. SinkTypes /\ WellPacked(Out) /\ OrderInv /\ PlaceInv /\ Out \in Outs
  BY OutType DEF SinkInv
<1>3. /\ cmdChan' \in Seq(Command) /\ Len(cmdChan') <= cmdChanBuffSize
      /\ head \in Command /\ head = cmdChan[1] /\ 1 \in DOMAIN cmdChan
      /\ \A i \in DOMAIN cmdChan' : /\ i + 1 \in DOMAIN cmdChan /\ cmdChan'[i] = cmdChan[i + 1]
                                    /\ i + 1 # 1 /\ (IsDrain(i)' <=> IsDrain(i + 1))
  BY <1>0, <1>1, <1>2, ChanShrinks
<1>4. out \in Outs /\ Packed(out) = Packed(Out) \o Packable(head)
  BY <1>2, <1>3, ProcessKeeps
<1> HIDE DEF out
<1>5. /\ WellPacked(Out)' /\ OrderInv' /\ PlaceInv'
      /\ udpBuf' \in Seq(Metric) /\ datagrams' \in Seq(Seq(Metric))
      /\ \A cmd : InHand(cmd) => InHand(cmd)'
      /\ SomeFits(head) => InHand(head)'
  BY <1>0, <1>1, <1>2, <1>4, TakeKeeps
<1>6. SinkTypes'
  BY <1>1, <1>2, <1>3, <1>5 DEF SinkTypes
<1>7. ASSUME OneDrainInv, DueInv
      PROVE  OneDrainInv' /\ DueInv'
  <2>1. \A i \in DOMAIN cmdChan : ~IsDrain(i)
    BY <1>1, <1>7 DEF OneDrainInv
  <2>2. \A i \in DOMAIN cmdChan' : ~IsDrain(i)' /\ cmdChan'[i].kind # "stop"
    BY <1>3, <1>7, <2>1 DEF OneDrainInv
  <2>3. \A d \in SinkCaller : Waits(d)' <=> Waits(d)
    BY <1>1 DEF Waits
  <2>4. OneDrainInv'
    BY <1>1, <1>7, <2>2, <2>3 DEF OneDrainInv
  <2>5. DueInv'
    BY <1>0, <1>1, <1>2, <1>5, <1>7, DueTaken
  <2> QED
    BY <2>4, <2>5
<1> QED
  BY <1>1, <1>5, <1>6, <1>7 DEF SinkInv

LEMMA DrainEmptyKeeps ==
  ASSUME SinkInv, DrainEmpty
  PROVE  SinkInv'
<1> DEFINE out == flush(Out)
<1>1. /\ loop = "drain" /\ cmdChan = <<>> /\ Put(out) /\ loop' = "drained"
      /\ UNCHANGED <<calling, blocked, cmdChan, ncommands, emitted, due, drained, crossed>>
  BY DEF DrainEmpty
<1>2. SinkTypes /\ WellPacked(Out) /\ OrderInv /\ PlaceInv /\ Out \in Outs
  BY OutType DEF SinkInv
<1>3. out \in Outs /\ out.buf = <<>> /\ Packed(out) = Packed(Out)
  BY <1>2, FlushKeeps
<1> HIDE DEF out
<1>4. /\ udpBuf' \in Seq(Metric) /\ datagrams' \in Seq(Seq(Metric))
      /\ WellPacked(Out)' /\ Packed(Out)' = Packed(Out)
  BY <1>1, <1>3, PutOut
<1>5. \A cmd : InHand(cmd) => InHand(cmd)'
  BY <1>4 DEF InHand
<1>6. OrderInv' /\ udpBuf' = <<>>
  <2>1. Of(cmdChan)' = Of(cmdChan) /\ Of(emitted)' = Of(emitted)
    BY <1>1 DEF Of
  <2> QED
    BY <1>1, <1>2, <1>3, <1>4, <2>1 DEF OrderInv, Put
<1>7. PlaceInv'
  BY <1>1, <1>2, <1>5 DEF PlaceInv
<1>8. SinkTypes'
  BY <1>1, <1>2, <1>4 DEF SinkTypes
<1>9. ASSUME OneDrainInv, DueInv
      PROVE  OneDrainInv' /\ DueInv'
  <2>1. \A i \in DOMAIN cmdChan : ~IsDrain(i)
    BY <1>1, <1>9 DEF OneDrainInv
  <2>2. \A d \in SinkCaller : Waits(d)' <=> Waits(d)
    BY <1>1 DEF Waits
  <2>3. \A i \in DOMAIN cmdChan' : ~IsDrain(i)' /\ cmdChan'[i].kind # "stop"
    BY <1>1, <1>9, <2>1 DEF OneDrainInv, IsDrain
  <2>4. OneDrainInv'
    BY <1>1, <1>9, <2>2, <2>3 DEF OneDrainInv
  <2>5. DueInv'
    BY <1>1, <1>5, <1>9, <2>2 DEF DueInv
  <2> QED
    BY <2>4, <2>5
<1> QED
  BY <1>1, <1>4, <1>6, <1>7, <1>8, <1>9 DEF SinkInv

(* With an empty buffer, what is in hand has been sent.                      *)
LEMMA HandSent ==
  ASSUME SinkTypes, WellPacked(Out), udpBuf = <<>>, NEW cmd, InHand(cmd)
  PROVE  cmd.id \in SentIds
<1>1. FlattenSeq(datagrams) \in Seq(Metric) /\ Out.buf = udpBuf /\ Out.sent = datagrams
  BY OutType
<1>2. Packed(Out) = FlattenSeq(datagrams) \o <<>>
  BY <1>1 DEF Packed
<1>3. Packed(Out) = FlattenSeq(datagrams)
  BY <1>1, <1>2, ConcatEmptySeq
<1>4. PICK m \in ToSet(FlattenSeq(datagrams)) : m.id = cmd.id
  BY <1>3 DEF InHand
<1>5. \E i \in DOMAIN datagrams : m \in ToSet(datagrams[i])
  BY FlattenElements DEF SinkTypes
<1> QED
  BY <1>4, <1>5 DEF SentIds

LEMMA DrainDoneKeeps ==
  ASSUME SinkInv, NEW c \in SinkCaller, DrainDone(c)
  PROVE  SinkInv'
<1>1. /\ loop = "drained" /\ calling[c].kind = "drain" /\ ~blocked[c] /\ loop' = "receive"
      /\ calling' = [calling EXCEPT ![c] = Idle] /\ due' = [due EXCEPT ![c] = <<>>]
      /\ drained' = (drained /\ {cmd.id : cmd \in Fitting(due[c])} \subseteq SentIds)
      /\ UNCHANGED <<blocked, cmdChan, udpBuf, datagrams, ncommands, emitted, crossed>>
  BY DEF DrainDone
<1>2. SinkTypes /\ WellPacked(Out) /\ udpBuf = <<>>
  BY <1>1 DEF SinkInv
<1>3. /\ \A d \in SinkCaller : calling'[d] = IF d = c THEN Idle ELSE calling[d]
      /\ calling' \in [SinkCaller -> Command] /\ due' \in [SinkCaller -> Seq(Command)]
      /\ \A d \in SinkCaller : d # c => due'[d] = due[d]
  BY <1>1, <1>2, Commands DEF SinkTypes
<1>4. SinkTypes'
  <2>1. \A d \in SinkCaller : calling'[d].kind # "flush" /\ (blocked'[d] => calling'[d].kind # "none")
    BY <1>1, <1>2, <1>3, Commands DEF SinkTypes
  <2>2. drained' \in BOOLEAN
    BY <1>1
  <2> QED
    BY <1>1, <1>2, <1>3, <2>1, <2>2 DEF SinkTypes
<1>5. /\ WellPacked(Out)' /\ OrderInv' /\ PlaceInv'
      /\ loop' = "drained" => udpBuf' = <<>>
  BY <1>1, ChanStays
<1>6. ASSUME OneDrainInv, DueInv
      PROVE  OneDrainInv' /\ DueInv'
  <2>1. \A d \in SinkCaller : Waits(d) => d = c
    BY <1>1, <1>6 DEF OneDrainInv, Waits
  <2>2. \A d \in SinkCaller : ~Waits(d)'
    BY <1>3, <2>1, Commands DEF Waits
  <2>3. drained'
    <3>1. Waits(c) /\ loop # "receive"
      BY <1>1 DEF Waits
    <3>2. \A cmd \in Fitting(due[c]) : cmd \in ToSet(due[c]) /\ SomeFits(cmd)
      BY DEF Fitting, SomeFits
    <3>3. \A cmd \in Fitting(due[c]) : cmd.id \in SentIds
      BY <1>2, <1>6, <3>1, <3>2, HandSent DEF DueInv
    <3> QED
      BY <1>1, <1>6, <3>3 DEF OneDrainInv
  <2>4. \A i \in DOMAIN cmdChan' : ~IsDrain(i)' /\ cmdChan'[i].kind # "stop"
    BY <1>1, <1>6 DEF OneDrainInv, IsDrain
  <2>5. \A d \in SinkCaller : calling'[d].kind # "stop"
    BY <1>3, <1>6, Commands DEF OneDrainInv
  <2>6. OneDrainInv'
    BY <1>1, <2>2, <2>3, <2>4, <2>5 DEF OneDrainInv
  <2>7. DueInv'
    BY <2>2 DEF DueInv
  <2> QED
    BY <2>6, <2>7
<1> QED
  BY <1>1, <1>4, <1>5, <1>6 DEF SinkInv

LEMMA StopDoneKeeps ==
  ASSUME SinkInv, NEW c \in SinkCaller, StopDone(c)
  PROVE  SinkInv'
<1>1. /\ loop = "stopped" /\ calling[c].kind = "stop" /\ loop' = "ended"
      /\ calling' = [calling EXCEPT ![c] = Idle] /\ due' = [due EXCEPT ![c] = <<>>]
      /\ ~blocked[c]
      /\ UNCHANGED <<blocked, cmdChan, udpBuf, datagrams, ncommands, emitted, drained, crossed>>
  BY DEF StopDone
<1>2. SinkTypes /\ crossed
  BY <1>1 DEF SinkInv, OneDrainInv
<1>3. /\ \A d \in SinkCaller : calling'[d] = IF d = c THEN Idle ELSE calling[d]
      /\ calling' \in [SinkCaller -> Command] /\ due' \in [SinkCaller -> Seq(Command)]
  BY <1>1, <1>2, Commands DEF SinkTypes
<1>4. SinkTypes'
  <2>1. \A d \in SinkCaller : calling'[d].kind # "flush" /\ (blocked'[d] => calling'[d].kind # "none")
    BY <1>1, <1>2, <1>3, Commands DEF SinkTypes
  <2> QED
    BY <1>1, <1>2, <1>3, <2>1 DEF SinkTypes
<1>5. /\ WellPacked(Out)' /\ OrderInv' /\ PlaceInv'
      /\ loop' = "drained" => udpBuf' = <<>>
  BY <1>1, ChanStays
<1> QED
  BY <1>1, <1>2, <1>4, <1>5 DEF SinkInv

LEMMA SinkStutters ==
  ASSUME SinkInv, UNCHANGED sinkVars
  PROVE  SinkInv'
<1>1. UNCHANGED <<calling, blocked, cmdChan, udpBuf, datagrams, loop, ncommands, emitted, due, drained, crossed>>
  BY DEF sinkVars
<1>2. SinkTypes'
  BY <1>1 DEF SinkInv, SinkTypes
<1>3. /\ WellPacked(Out)' /\ OrderInv' /\ PlaceInv'
      /\ loop' = "drained" => udpBuf' = <<>>
      /\ \A cmd : InHand(cmd) => InHand(cmd)'
      /\ \A cmd : Ahead(cmd) => Ahead(cmd)'
  BY <1>1, ChanStays
<1>4. \A d \in SinkCaller : Waits(d)' <=> Waits(d)
  BY <1>1 DEF Waits
<1>5. OneDrainInv => OneDrainInv'
  BY <1>1, <1>4 DEF OneDrainInv, IsDrain
<1>6. DueInv => DueInv'
  BY <1>1, <1>3, <1>4 DEF DueInv
<1> QED
  BY <1>1, <1>2, <1>3, <1>5, <1>6 DEF SinkInv

LEMMA SinkImplied == SinkInv => SinkInOrder
<1> SUFFICES ASSUME SinkInv
             PROVE  SinkInOrder
  OBVIOUS
<1>1. SinkTypes /\ WellPacked(Out) /\ OrderInv /\ Out.buf = udpBuf /\ Out.sent = datagrams
  BY OutType DEF SinkInv
<1>2. SinkTypeOK
  <2>1. ASSUME NEW c \in SinkCaller
        PROVE  calling[c].kind \in {"none", "emit", "drain", "stop"} /\ blocked[c] \in BOOLEAN
    <3>1. calling[c] \in Command /\ calling[c].kind # "flush" /\ blocked[c] \in BOOLEAN
      BY <1>1 DEF SinkTypes
    <3>2. calling[c].kind \in {"none", "emit", "flush", "drain", "stop"}
      BY <3>1 DEF Command
    <3> QED
      BY <3>1, <3>2
  <2> QED
    BY <1>1, <2>1 DEF SinkTypeOK, SinkTypes
<1>3. FlattenSeq(datagrams) \o udpBuf \o Of(cmdChan) = Of(emitted)
  <2>1. Packed(Out) = FlattenSeq(datagrams) \o udpBuf
    BY <1>1 DEF Packed
  <2> QED
    BY <1>1, <2>1 DEF OrderInv
<1>4. Bytes(udpBuf) <= maxUdpBytes /\ \A i \in DOMAIN datagrams : Bytes(datagrams[i]) \in 1 .. maxUdpBytes
  BY <1>1 DEF WellPacked
<1>5. crossed \/ drained
  BY DEF SinkInv, OneDrainInv
<1> QED
  BY <1>2, <1>3, <1>4, <1>5 DEF SinkInOrder

(* The sink's invariant: what has been packed and what is still in the       *)
(* channel is what was emitted, in order; and while one Drain at a time is   *)
(* going on, what it waits for is in hand or before its command (loop, flush *)
(* and writeStatsDMetric, instrumentation_statsd_sink.go:157-193, 289-317).  *)
THEOREM SinkInductive == SinkSpec => []SinkInv
<1>1. SinkInit => SinkInv
  BY SinkBegins
<1>2. SinkInv /\ [SinkNext]_sinkVars => SinkInv'
  <2> SUFFICES ASSUME SinkInv, [SinkNext]_sinkVars
               PROVE  SinkInv'
    OBVIOUS
  <2>1. ASSUME NEW c \in SinkCaller, Emit(c)
        PROVE  SinkInv'
    BY <2>1, EmitKeeps
  <2>2. ASSUME NEW c \in SinkCaller, DrainOrStop(c)
        PROVE  SinkInv'
    BY <2>2, DrainOrStopKeeps
  <2>3. ASSUME NEW c \in SinkCaller, SendCommand(c)
        PROVE  SinkInv'
    BY <2>3, SendCommandKeeps
  <2>4. CASE Tick
    BY <2>4, TickKeeps
  <2>5. CASE ReceiveCommand
    BY <2>5, ReceiveCommandKeeps
  <2>6. CASE DrainReceive
    BY <2>6, DrainReceiveKeeps
  <2>7. CASE DrainEmpty
    BY <2>7, DrainEmptyKeeps
  <2>8. ASSUME NEW c \in SinkCaller, DrainDone(c)
        PROVE  SinkInv'
    BY <2>8, DrainDoneKeeps
  <2>9. ASSUME NEW c \in SinkCaller, StopDone(c)
        PROVE  SinkInv'
    BY <2>9, StopDoneKeeps
  <2>10. CASE UNCHANGED sinkVars
    BY <2>10, SinkStutters
  <2> QED
    BY <2>1, <2>2, <2>3, <2>4, <2>5, <2>6, <2>7, <2>8, <2>9, <2>10 DEF SinkNext, SinkLoop
<1> QED
  BY <1>1, <1>2, PTL DEF SinkSpec

(* Every metric that fits into a datagram is in exactly one place, in the    *)
(* order of the emits, no datagram is empty or too long, and a Drain that no *)
(* other crosses returns only when all that was emitted before it has been   *)
(* sent (instrumentation_statsd_sink.go:157-193 and 289-317).                *)
THEOREM SinkOrdered == SinkSpec => []SinkInOrder
BY SinkInductive, SinkImplied, PTL

-----------------------------------------------------------------------------
(* The tags of the Splunk pumps.                                             *)

TagsSpec == TagsInit /\ [][TagsNext]_tagVars

(* What a copy has loaded, by place.                                         *)
LoadedTypes == UNION {[D -> Tag] : D \in SUBSET Nat}

TagFilterTypes ==
  [step : {"new", "look", "copy", "done", "panic"}, prefix : Nat \ {0}, bound : 0 .. Len(found),
   key : Nat \ {0}, len : 0 .. Len(found), loaded : LoadedTypes, stored : SUBSET Nat]

TagTypes ==
  /\ array \in Seq(Tag) /\ found \in Seq(Tag) /\ Len(array) = Len(found)
  /\ filter \in [SplunkPump -> TagFilterTypes]
  /\ alone \subseteq SplunkPump

(* Where a filter may be, whatever the others do to the array.               *)
Shaped(s, f) ==
  /\ f.len <= f.bound /\ (f.key <= f.bound \/ f.bound = 0)
  /\ f.prefix \in DOMAIN Excluded[s] \/ DOMAIN Excluded[s] = {}
  /\ f.step = "new" => f.prefix = 1 /\ f.key = 1 /\ f.len = Len(found)
  /\ f.step = "copy" => f.prefix \in DOMAIN Excluded[s] /\ f.key <= f.len
  /\ f.stored \subseteq DOMAIN f.loaded /\ DOMAIN f.loaded \subseteq Gap(f)
  /\ f.step # "copy" => DOMAIN f.loaded = {}

ShapedInv == \A s \in SplunkPump : Shaped(s, filter[s])

(* Which tags have been looked at for which entries of the list.             *)
Checked(f, p, i) == f.step = "done" \/ p < f.prefix \/ (p = f.prefix /\ i < f.key)

(* The tags are those at some places of what was found, in order, except     *)
(* that in the middle of a copy those that have arrived stand one place to   *)
(* the left; behind them everything is blank.                                *)
InPlace(s, f, places) ==
  /\ \A i, j \in 1 .. f.len : i < j => places[i] < places[j]
  /\ \A j \in DOMAIN found : Innocent(s, found[j]) => \E i \in 1 .. f.len : places[i] = j
  /\ \A i \in 1 .. f.len, p \in DOMAIN Excluded[s] :
       found[places[i]] \in Excluded[s][p] /\ Checked(f, p, i) => Skipped(s, places[i])

InArray(f, places) ==
  /\ \A i \in 1 .. f.len : array[i] = found[places[IF i \in f.stored THEN i + 1 ELSE i]]
  /\ \A i \in f.len + 1 .. Len(found) : array[i] = Blank

InCopy(s, f, places) ==
  /\ f.step = "copy" => found[places[f.key]] \in Excluded[s][f.prefix]
  /\ \A i \in DOMAIN f.loaded : f.loaded[i] = found[places[i + 1]]
  /\ \A i \in f.stored : i = f.key \/ i - 1 \in DOMAIN f.loaded
  /\ f.step = "panic" => Blank \in Excluded[s][f.prefix]

Follows(s, f, places) == InPlace(s, f, places) /\ InArray(f, places) /\ InCopy(s, f, places)

KeepsTags(s, f) == \E places \in [1 .. f.len -> DOMAIN found] : Follows(s, f, places)

TagsAlone ==
  \A s \in alone :
    /\ \A o \in SplunkPump \ {s} : filter[o].step \in {"new", "done"}
    /\ filter[s].step # "new"
    /\ \A i \in DOMAIN found : found[i] # Torn
    /\ KeepsTags(s, filter[s])

TagsInv == TagTypes /\ ShapedInv /\ TagsAlone

LEMMA PutFacts ==
  ASSUME NEW S, NEW s \in Seq(S), NEW k \in DOMAIN s, NEW e \in S
  PROVE  /\ [s EXCEPT ![k] = e] \in Seq(S) /\ Len([s EXCEPT ![k] = e]) = Len(s)
         /\ \A i \in DOMAIN s \ {k} : [s EXCEPT ![k] = e][i] = s[i]
         /\ [s EXCEPT ![k] = e][k] = e
OBVIOUS

LEMMA ExcludedFacts ==
  ASSUME NEW s \in SplunkPump
  PROVE  Len(Excluded[s]) \in Nat /\ DOMAIN Excluded[s] = 1 .. Len(Excluded[s])
<1> DEFINE E == Excluded[s]
           S == SUBSET Tag
<1>1. E \in Seq(S)
  BY TagsAssumption
<1> HIDE DEF E, S
<1>2. Len(E) \in Nat /\ DOMAIN E = 1 .. Len(E)
  BY <1>1
<1> QED
  BY <1>2 DEF E

LEMMA ArrayFacts ==
  ASSUME TagTypes
  PROVE  /\ Len(found) \in Nat /\ DOMAIN found = 1 .. Len(found) /\ DOMAIN array = 1 .. Len(found)
         /\ \A i \in 1 .. Len(found) : found[i] \in Tag /\ array[i] \in Tag
<1>1. array \in Seq(Tag) /\ found \in Seq(Tag) /\ Len(array) = Len(found)
  BY DEF TagTypes
<1> HIDE DEF Tag
<1> QED
  BY <1>1

LEMMA FieldFacts ==
  ASSUME NEW f \in TagFilterTypes, Len(found) \in Nat
  PROVE  /\ f.step \in {"new", "look", "copy", "done", "panic"}
         /\ f.prefix \in Nat \ {0} /\ f.bound \in 0 .. Len(found) /\ f.bound \in Nat /\ f.key \in Nat \ {0}
         /\ f.len \in 0 .. Len(found) /\ f.len \in Nat /\ f.loaded \in LoadedTypes /\ f.stored \subseteq Nat
         /\ f = [step |-> f.step, prefix |-> f.prefix, bound |-> f.bound, key |-> f.key,
                 len |-> f.len, loaded |-> f.loaded, stored |-> f.stored]
<1> HIDE DEF LoadedTypes
<1> QED
  BY DEF TagFilterTypes

LEMMA FilterFacts ==
  ASSUME TagsInv, NEW s \in SplunkPump
  PROVE  /\ filter[s] \in TagFilterTypes /\ Shaped(s, filter[s]) /\ Len(found) \in Nat
         /\ filter \in [SplunkPump -> TagFilterTypes]
<1> HIDE DEF TagFilterTypes
<1> QED
  BY ArrayFacts DEF TagsInv, TagTypes, ShapedInv

(* One filter moves, and keeps to what it found.                             *)
LEMMA OneMoves ==
  ASSUME TagsInv, NEW s \in SplunkPump, filter[s].step \notin {"new", "done"},
         NEW g \in TagFilterTypes, filter' = [filter EXCEPT ![s] = g], g.step # "new",
         UNCHANGED <<found, alone>>, array' \in Seq(Tag), Len(array') = Len(array),
         Shaped(s, g), s \in alone => KeepsTags(s, g)'
  PROVE  TagsInv'
<1>1. filter \in [SplunkPump -> TagFilterTypes]
  BY FilterFacts
<1>2. \A o \in SplunkPump : filter'[o] = IF o = s THEN g ELSE filter[o]
  <2> HIDE DEF TagFilterTypes
  <2> QED
    BY <1>1
<1>3. TagTypes'
  <2>1. TagFilterTypes' = TagFilterTypes
    BY DEF TagFilterTypes
  <2> HIDE DEF TagFilterTypes
  <2>2. filter' \in [SplunkPump -> TagFilterTypes]
    BY <1>1
  <2> QED
    BY <2>1, <2>2 DEF TagsInv, TagTypes
<1>4. ShapedInv'
  <2>1. ASSUME NEW o \in SplunkPump
        PROVE  Shaped(o, filter[o])'
    <3>1. CASE o = s
      <4>1. filter'[o] = g
        BY <1>2, <3>1
      <4> QED
        BY <3>1, <4>1 DEF Shaped, Gap
    <3>2. CASE o # s
      <4>1. filter'[o] = filter[o] /\ Shaped(o, filter[o])
        BY <1>2, <3>2, FilterFacts
      <4> QED
        BY <4>1 DEF Shaped, Gap
    <3> QED
      BY <3>1, <3>2
  <2> QED
    BY <2>1 DEF ShapedInv
<1>5. TagsAlone'
  <2> SUFFICES ASSUME NEW a \in alone
               PROVE  /\ \A o \in SplunkPump \ {a} : filter'[o].step \in {"new", "done"}
                      /\ filter'[a].step # "new"
                      /\ \A i \in DOMAIN found' : found'[i] # Torn
                      /\ KeepsTags(a, filter[a])'
    BY DEF TagsAlone
  <2>1. a = s
    BY DEF TagsInv, TagsAlone
  <2>2. filter'[a] = g
    BY <1>2, <2>1
  <2>3. KeepsTags(a, filter[a])'
    BY <2>1, <2>2 DEF KeepsTags, Follows, InPlace, InArray, InCopy, Checked
  <2>4. \A o \in SplunkPump \ {a} : filter'[o].step \in {"new", "done"}
    BY <1>2, <2>1 DEF TagsInv, TagsAlone
  <2>5. \A i \in DOMAIN found : found[i] # Torn
    BY DEF TagsInv, TagsAlone
  <2> QED
    BY <2>2, <2>3, <2>4, <2>5
<1> QED
  BY <1>3, <1>4, <1>5 DEF TagsInv

(* Nobody else writes while a filter has the tags for itself.                *)
LEMMA NothingRaces ==
  ASSUME TagsInv, NEW s \in alone, NEW i, NEW tag
  PROVE  Raced(s, i, tag) = {tag}
<1>1. \A o \in SplunkPump \ {s} : Storing(filter[o]) = {}
  BY DEF TagsInv, TagsAlone, Storing
<1> QED
  BY <1>1 DEF Raced

(* Tags that are read or written are tags.                                   *)
LEMMA RacedTypes ==
  ASSUME NEW s, NEW i, NEW tag \in Tag
  PROVE  Raced(s, i, tag) \subseteq Tag
<1>1. Torn \in Tag
  BY DEF Tag
<1>2. Raced(s, i, tag) \subseteq {tag, Torn}
  BY DEF Raced
<1> HIDE DEF Tag
<1> QED
  BY <1>1, <1>2

(* The loops go on to the next tag or the next entry of the list.            *)
LEMMA NextKeyFacts ==
  ASSUME TagsInv, NEW s \in SplunkPump, NEW f \in TagFilterTypes, f.step = "look",
         f.prefix \in DOMAIN Excluded[s], f.key <= f.bound, f.len <= f.bound,
         DOMAIN f.loaded = {}, f.stored = {}, NEW g, g = NextKey(s, f)
  PROVE  /\ g \in TagFilterTypes /\ g.step \in {"look", "done"} /\ g.len = f.len
         /\ DOMAIN g.loaded = {} /\ g.stored = {} /\ Shaped(s, g)
         /\ \A i \in 1 .. f.len, p \in DOMAIN Excluded[s] :
              Checked(g, p, i) => Checked(f, p, i) \/ (p = f.prefix /\ i = f.key)
<1>1. /\ Len(found) \in Nat /\ Len(Excluded[s]) \in Nat /\ DOMAIN Excluded[s] = 1 .. Len(Excluded[s])
  BY FilterFacts, ExcludedFacts
<1>2. /\ f.prefix \in Nat \ {0} /\ f.bound \in 0 .. Len(found) /\ f.bound \in Nat /\ f.key \in Nat \ {0}
      /\ f.len \in 0 .. Len(found) /\ f.len \in Nat /\ f.loaded \in LoadedTypes /\ f.stored \subseteq Nat
      /\ f = [step |-> f.step, prefix |-> f.prefix, bound |-> f.bound, key |-> f.key,
              len |-> f.len, loaded |-> f.loaded, stored |-> f.stored]
  BY <1>1, FieldFacts
<1> HIDE DEF LoadedTypes
<1>3. CASE f.key < f.bound
  <2>1. g = [step |-> "look", prefix |-> f.prefix, bound |-> f.bound, key |-> f.key + 1,
             len |-> f.len, loaded |-> f.loaded, stored |-> f.stored]
    BY <1>2, <1>3 DEF NextKey
  <2>2. g \in TagFilterTypes
    BY <1>2, <2>1 DEF TagFilterTypes
  <2>3. Shaped(s, g)
    BY <1>1, <1>2, <1>3, <2>1 DEF Shaped
  <2>4. \A i \in 1 .. f.len, p \in DOMAIN Excluded[s] :
          Checked(g, p, i) => Checked(f, p, i) \/ (p = f.prefix /\ i = f.key)
    BY <1>1, <1>2, <2>1 DEF Checked
  <2> QED
    BY <2>1, <2>2, <2>3, <2>4
<1>4. CASE ~(f.key < f.bound) /\ f.prefix < Len(Excluded[s])
  <2>1. g = [step |-> "look", prefix |-> f.prefix + 1, bound |-> f.len, key |-> 1,
             len |-> f.len, loaded |-> f.loaded, stored |-> f.stored]
    BY <1>2, <1>4 DEF NextKey
  <2>2. g \in TagFilterTypes
    BY <1>2, <2>1 DEF TagFilterTypes
  <2>3. Shaped(s, g)
    BY <1>1, <1>2, <1>4, <2>1 DEF Shaped
  <2>4. \A i \in 1 .. f.len, p \in DOMAIN Excluded[s] :
          Checked(g, p, i) => Checked(f, p, i) \/ (p = f.prefix /\ i = f.key)
    BY <1>1, <1>2, <1>4, <2>1 DEF Checked
  <2> QED
    BY <2>1, <2>2, <2>3, <2>4
<1>5. CASE ~(f.key < f.bound) /\ ~(f.prefix < Len(Excluded[s]))
  <2>1. g = [step |-> "done", prefix |-> f.prefix, bound |-> f.bound, key |-> f.key,
             len |-> f.len, loaded |-> f.loaded, stored |-> f.stored]
    BY <1>2, <1>5 DEF NextKey
  <2>2. g \in TagFilterTypes
    BY <1>2, <2>1 DEF TagFilterTypes
  <2>3. Shaped(s, g)
    BY <1>1, <1>2, <1>5, <2>1 DEF Shaped
  <2>4. \A i \in 1 .. f.len, p \in DOMAIN Excluded[s] :
          Checked(g, p, i) => Checked(f, p, i) \/ (p = f.prefix /\ i = f.key)
    BY <1>1, <1>2, <1>5, <2>1 DEF Checked
  <2> QED
    BY <2>1, <2>2, <2>3, <2>4
<1> QED
  BY <1>3, <1>4, <1>5

(* A step of a filter that looks.                                            *)
LEMMA LookMoves ==
  ASSUME TagsInv, NEW s \in SplunkPump, NEW f, f = filter[s], f.step = "look",
         NEW g \in TagFilterTypes, filter' = [filter EXCEPT ![s] = g], UNCHANGED <<array, found, alone>>,
         g.step # "new", g.len = f.len, g.stored = {}, DOMAIN g.loaded = {}, Shaped(s, g),
         s \in alone => /\ g.step = "copy" => /\ g.key = f.key /\ g.prefix = f.prefix
                                              /\ array[g.key] \in Excluded[s][g.prefix]
                        /\ g.step = "panic" => Blank \in Excluded[s][g.prefix]
                        /\ \A i \in 1 .. f.len, p \in DOMAIN Excluded[s] :
                             Checked(g, p, i) => Checked(f, p, i) \/ array[i] \notin Excluded[s][p]
  PROVE  TagsInv'
<1>1. /\ Len(found) \in Nat /\ DOMAIN found = 1 .. Len(found)
      /\ f \in TagFilterTypes /\ Shaped(s, f) /\ f.stored = {}
  BY FilterFacts, ArrayFacts DEF Shaped, TagsInv
<1>2. f.len \in 0 .. Len(found) /\ g.key \in Nat \ {0}
  BY <1>1, FieldFacts
<1>3. array \in Seq(Tag)
  BY DEF TagsInv, TagTypes
<1>4. ASSUME s \in alone
      PROVE  KeepsTags(s, g)'
  <2>1. PICK places \in [1 .. f.len -> DOMAIN found] : Follows(s, f, places)
    BY <1>4 DEF TagsInv, TagsAlone, KeepsTags
  <2>2. \A i \in 1 .. f.len : array[i] = found[places[i]]
    BY <1>1, <2>1 DEF Follows, InArray
  <2>3. \A i \in 1 .. g.len, p \in DOMAIN Excluded[s] :
          found[places[i]] \in Excluded[s][p] /\ Checked(g, p, i) => Skipped(s, places[i])
    BY <1>4, <2>1, <2>2 DEF Follows, InPlace
  <2>4. InPlace(s, g, places)
    BY <2>1, <2>3 DEF Follows, InPlace
  <2>5. InArray(g, places)
    BY <2>1, <2>2 DEF Follows, InArray
  <2>6. InCopy(s, g, places)
    <3>1. g.step = "copy" => found[places[g.key]] \in Excluded[s][g.prefix]
      <4>1. g.step = "copy" => g.key \in 1 .. f.len
        BY <1>2 DEF Shaped
      <4> QED
        BY <1>4, <2>2, <4>1
    <3> QED
      BY <1>4, <3>1 DEF InCopy
  <2>7. Follows(s, g, places)'
    BY <2>4, <2>5, <2>6 DEF Follows, InPlace, InArray, InCopy, Innocent, Skipped, Checked
  <2>8. places \in [1 .. g.len -> DOMAIN found']
    BY <2>1
  <2> QED
    BY <2>7, <2>8 DEF KeepsTags
<1> QED
  BY <1>1, <1>3, <1>4, OneMoves

LEMMA BeginKeeps ==
  ASSUME TagsInv, NEW s \in SplunkPump, Begin(s)
  PROVE  TagsInv'
<1>1. PICK f : f = filter[s]
  OBVIOUS
<1>2. PICK g : g = [f EXCEPT !.step = "look"]
  OBVIOUS
<1>3. /\ f \in TagFilterTypes /\ f.step = "new" /\ Shaped(s, f) /\ filter \in [SplunkPump -> TagFilterTypes]
      /\ filter' = [filter EXCEPT ![s] = g] /\ array' = array /\ found' = array
      /\ alone' \subseteq {s}
  BY <1>1, <1>2, FilterFacts DEF Begin, TagsAt
<1>4. /\ g \in TagFilterTypes /\ g.step = "look" /\ g.prefix = f.prefix /\ g.bound = f.bound
      /\ g.key = f.key /\ g.len = f.len /\ g.loaded = f.loaded /\ g.stored = f.stored
  BY <1>2, <1>3 DEF TagFilterTypes
<1>5. /\ Len(found) \in Nat /\ DOMAIN array = 1 .. Len(found) /\ Len(array) = Len(found)
      /\ array \in Seq(Tag) /\ DOMAIN found' = 1 .. Len(found)
  BY <1>3, ArrayFacts DEF TagsInv, TagTypes
<1>6. \A o \in SplunkPump : filter'[o] = IF o = s THEN g ELSE filter[o]
  <2> HIDE DEF TagFilterTypes
  <2> QED
    BY <1>3
<1>7. TagTypes'
  <2>1. TagFilterTypes' = TagFilterTypes
    BY <1>3, <1>5 DEF TagFilterTypes
  <2> HIDE DEF TagFilterTypes
  <2>2. filter' \in [SplunkPump -> TagFilterTypes]
    BY <1>3, <1>4
  <2> QED
    BY <1>3, <1>5, <2>1, <2>2 DEF TagTypes
<1>8. ShapedInv'
  <2>1. ASSUME NEW o \in SplunkPump
        PROVE  Shaped(o, filter[o])'
    <3>1. CASE o = s
      <4>1. filter'[o] = g
        BY <1>6, <3>1
      <4> QED
        BY <1>3, <1>4, <1>5, <3>1, <4>1 DEF Shaped, Gap
    <3>2. CASE o # s
      <4>1. filter'[o] = filter[o] /\ Shaped(o, filter[o])
        BY <1>6, <3>2, FilterFacts
      <4> QED
        BY <1>3, <1>5, <4>1 DEF Shaped, Gap
    <3> QED
      BY <3>1, <3>2
  <2> QED
    BY <2>1 DEF ShapedInv
<1>9. TagsAlone'
  <2> SUFFICES ASSUME s \in alone'
               PROVE  /\ \A o \in SplunkPump \ {s} : filter'[o].step \in {"new", "done"}
                      /\ filter'[s].step # "new"
                      /\ \A i \in DOMAIN found' : found'[i] # Torn
                      /\ KeepsTags(s, filter[s])'
    BY <1>3 DEF TagsAlone
  <2>1. (\A o \in SplunkPump \ {s} : filter[o].step \in {"new", "done"}) /\ Torn \notin ToSet(array)
    BY DEF Begin
  <2>2. \A i \in DOMAIN found' : found'[i] # Torn
    BY <1>3, <2>1 DEF ToSet
  <2>3. filter'[s] = g
    BY <1>6
  <2>a. g.len = Len(found) /\ DOMAIN found' = 1 .. g.len
    BY <1>3, <1>4, <1>5 DEF Shaped
  <2>4. PICK places \in [1 .. g.len -> DOMAIN found'] : \A i \in 1 .. g.len : places[i] = i
    <3>1. [i \in 1 .. g.len |-> i] \in [1 .. g.len -> DOMAIN found']
      BY <2>a
    <3> QED
      BY <3>1
  <2>5. /\ g.prefix = 1 /\ g.key = 1 /\ g.stored = {} /\ DOMAIN g.loaded = {}
    BY <1>3, <1>4 DEF Shaped
  <2>6. \A i \in 1 .. g.len, p \in DOMAIN Excluded[s] : ~Checked(g, p, i)
    BY <1>4, <2>5, ExcludedFacts DEF Checked
  <2>7. InPlace(s, g, places)'
    BY <1>5, <2>a, <2>4, <2>6 DEF InPlace, Checked, Innocent
  <2>8. InArray(g, places)'
    BY <1>3, <1>5, <2>a, <2>4, <2>5 DEF InArray
  <2>9. InCopy(s, g, places)'
    BY <1>4, <2>5 DEF InCopy
  <2>10. KeepsTags(s, filter[s])'
    <3>1. Follows(s, filter[s], places)'
      BY <2>3, <2>7, <2>8, <2>9 DEF Follows, InPlace, InArray, InCopy, Checked
    <3> QED
      BY <2>3, <2>4, <3>1 DEF KeepsTags
  <2> QED
    BY <1>4, <1>6, <2>1, <2>2, <2>3, <2>10
<1> QED
  BY <1>7, <1>8, <1>9 DEF TagsInv

(* What a filter that has the tags for itself sees is in the array, and not  *)
(* mixed; behind its length it is blank.                                     *)
LEMMA AloneSees ==
  ASSUME TagsInv, NEW s \in alone, NEW i \in 1 .. Len(found), filter[s].step = "look",
         NEW tag \in Raced(s, i, array[i])
  PROVE  /\ tag = array[i] /\ tag # Torn
         /\ i > filter[s].len => tag = Blank
<1>1. PICK f : f = filter[s]
  OBVIOUS
<1>2. s \in SplunkPump
  BY DEF TagsInv, TagTypes
<1>3. /\ f \in TagFilterTypes /\ Shaped(s, f) /\ Len(found) \in Nat /\ DOMAIN found = 1 .. Len(found)
  BY <1>1, <1>2, FilterFacts, ArrayFacts DEF TagsInv
<1>4. f.len \in Nat /\ f.stored = {}
  BY <1>1, <1>3, FieldFacts DEF Shaped
<1>5. tag = array[i]
  BY NothingRaces
<1>6. PICK places \in [1 .. f.len -> DOMAIN found] : Follows(s, f, places)
  BY <1>1 DEF TagsInv, TagsAlone, KeepsTags
<1>7. CASE i \in 1 .. f.len
  <2>1. array[i] = found[places[i]] /\ places[i] \in DOMAIN found
    BY <1>4, <1>6, <1>7 DEF Follows, InArray
  <2> QED
    BY <1>1, <1>4, <1>5, <1>7, <2>1 DEF TagsInv, TagsAlone
<1>8. CASE i \in f.len + 1 .. Len(found)
  <2>1. array[i] = Blank
    BY <1>6, <1>8 DEF Follows, InArray
  <2> QED
    BY <1>1, <1>5, <2>1, TagsAssumption
<1> QED
  BY <1>3, <1>4, <1>7, <1>8

LEMMA LookKeeps ==
  ASSUME TagsInv, NEW s \in SplunkPump, Look(s) \/ OutOfRange(s)
  PROVE  TagsInv'
<1>1. PICK f : f = filter[s]
  OBVIOUS
<1>2. /\ f \in TagFilterTypes /\ Shaped(s, f) /\ f.step = "look"
      /\ Len(found) \in Nat /\ DOMAIN found = 1 .. Len(found)
      /\ Len(Excluded[s]) \in Nat /\ DOMAIN Excluded[s] = 1 .. Len(Excluded[s])
      /\ UNCHANGED <<array, found, alone>> /\ filter \in [SplunkPump -> TagFilterTypes]
  BY <1>1, FilterFacts, ArrayFacts, ExcludedFacts DEF Look, OutOfRange, TagsAt, TagsInv
<1>3. /\ f.prefix \in Nat \ {0} /\ f.bound \in 0 .. Len(found) /\ f.key \in Nat \ {0}
      /\ f.len \in 0 .. Len(found) /\ f.len \in Nat /\ f.stored = {} /\ DOMAIN f.loaded = {}
  BY <1>2, FieldFacts DEF Shaped
<1>4. ASSUME NEW step \in {"done", "copy", "panic"}
      PROVE  LET g == [f EXCEPT !.step = step]
             IN /\ g \in TagFilterTypes /\ g.step = step /\ g.prefix = f.prefix /\ g.bound = f.bound
                /\ g.key = f.key /\ g.len = f.len /\ g.loaded = f.loaded /\ g.stored = f.stored
  BY <1>2 DEF TagFilterTypes
<1>5. CASE Nothing(s, f) /\ filter' = [filter EXCEPT ![s].step = "done"]
  <2>1. PICK g : g = [f EXCEPT !.step = "done"]
    OBVIOUS
  <2>2. /\ g \in TagFilterTypes /\ g.step = "done" /\ g.prefix = f.prefix /\ g.bound = f.bound
        /\ g.key = f.key /\ g.len = f.len /\ g.loaded = f.loaded /\ g.stored = f.stored
    BY <1>4, <2>1
  <2>3. filter' = [filter EXCEPT ![s] = g]
    BY <1>1, <1>2, <1>5, <2>1
  <2>4. Shaped(s, g)
    BY <1>2, <2>2 DEF Shaped, Gap
  <2>5. 1 .. f.len = {} \/ DOMAIN Excluded[s] = {}
    <3>1. CASE f.bound = 0
      <4>1. f.len = 0
        BY <1>2, <1>3, <3>1 DEF Shaped
      <4> QED
        BY <4>1
    <3>2. CASE f.prefix > Len(Excluded[s])
      BY <1>2, <1>3, <3>2 DEF Shaped
    <3> QED
      BY <1>5, <3>1, <3>2 DEF Nothing
  <2> QED
    BY <1>1, <1>2, <1>3, <2>2, <2>3, <2>4, <2>5, LookMoves
<1>6. ASSUME ~Nothing(s, f)
      PROVE  f.prefix \in DOMAIN Excluded[s] /\ f.key <= f.bound /\ f.len <= f.bound /\ f.key \in 1 .. Len(found)
  BY <1>2, <1>3, <1>6 DEF Nothing, Shaped
<1>7. ASSUME ~Nothing(s, f), NEW tag \in Raced(s, f.key, array[f.key]),
             tag \notin Excluded[s][f.prefix] \/ tag = Torn,
             filter' = [filter EXCEPT ![s] = NextKey(s, f)]
      PROVE  TagsInv'
  <2>1. PICK g : g = NextKey(s, f)
    OBVIOUS
  <2>2. /\ g \in TagFilterTypes /\ g.step \in {"look", "done"} /\ g.len = f.len
        /\ DOMAIN g.loaded = {} /\ g.stored = {} /\ Shaped(s, g)
        /\ \A i \in 1 .. f.len, p \in DOMAIN Excluded[s] :
             Checked(g, p, i) => Checked(f, p, i) \/ (p = f.prefix /\ i = f.key)
    BY <1>2, <1>3, <1>6, <1>7, <2>1, NextKeyFacts
  <2>3. s \in alone => array[f.key] \notin Excluded[s][f.prefix]
    BY <1>1, <1>2, <1>6, <1>7, AloneSees
  <2> QED
    BY <1>1, <1>2, <1>7, <2>1, <2>2, <2>3, LookMoves
<1>8. ASSUME ~Nothing(s, f), NEW tag \in Raced(s, f.key, array[f.key]),
             tag \in Excluded[s][f.prefix] \/ tag = Torn,
             f.key <= f.len, filter' = [filter EXCEPT ![s].step = "copy"]
      PROVE  TagsInv'
  <2>1. PICK g : g = [f EXCEPT !.step = "copy"]
    OBVIOUS
  <2>2. /\ g \in TagFilterTypes /\ g.step = "copy" /\ g.prefix = f.prefix /\ g.bound = f.bound
        /\ g.key = f.key /\ g.len = f.len /\ g.loaded = f.loaded /\ g.stored = f.stored
    BY <1>4, <2>1
  <2>3. filter' = [filter EXCEPT ![s] = g]
    BY <1>1, <1>2, <1>8, <2>1
  <2>4. Shaped(s, g)
    BY <1>2, <1>3, <1>6, <1>8, <2>2 DEF Shaped, Gap
  <2>5. s \in alone => array[g.key] \in Excluded[s][g.prefix]
    BY <1>1, <1>2, <1>6, <1>8, <2>2, AloneSees
  <2>6. \A i, p : Checked(g, p, i) => Checked(f, p, i)
    BY <1>2, <2>2 DEF Checked
  <2> QED
    BY <1>1, <1>2, <1>3, <2>2, <2>3, <2>4, <2>5, <2>6, LookMoves
<1>9. ASSUME ~Nothing(s, f), NEW tag \in Raced(s, f.key, array[f.key]),
             tag = Torn \/ (tag \in Excluded[s][f.prefix] /\ f.key > f.len),
             filter' = [filter EXCEPT ![s].step = "panic"]
      PROVE  TagsInv'
  <2>1. PICK g : g = [f EXCEPT !.step = "panic"]
    OBVIOUS
  <2>2. /\ g \in TagFilterTypes /\ g.step = "panic" /\ g.prefix = f.prefix /\ g.bound = f.bound
        /\ g.key = f.key /\ g.len = f.len /\ g.loaded = f.loaded /\ g.stored = f.stored
    BY <1>4, <2>1
  <2>3. filter' = [filter EXCEPT ![s] = g]
    BY <1>1, <1>2, <1>9, <2>1
  <2>4. Shaped(s, g)
    BY <1>2, <1>3, <2>2 DEF Shaped, Gap
  <2>5. s \in alone => Blank \in Excluded[s][g.prefix]
    BY <1>1, <1>2, <1>6, <1>9, <2>2, AloneSees
  <2>6. \A i, p : Checked(g, p, i) => Checked(f, p, i)
    BY <1>2, <2>2 DEF Checked
  <2> QED
    BY <1>1, <1>2, <1>3, <2>2, <2>3, <2>4, <2>5, <2>6, LookMoves
<1> QED
  BY <1>1, <1>2, <1>5, <1>7, <1>8, <1>9 DEF Look, OutOfRange

LEMMA LoadKeeps ==
  ASSUME TagsInv, NEW s \in SplunkPump, Load(s)
  PROVE  TagsInv'
<1>1. PICK f : f = filter[s]
  OBVIOUS
<1>2. /\ f \in TagFilterTypes /\ Shaped(s, f) /\ f.step = "copy"
      /\ Len(found) \in Nat /\ DOMAIN found = 1 .. Len(found)
      /\ \A i \in 1 .. Len(found) : array[i] \in Tag
      /\ UNCHANGED <<array, found, alone>> /\ filter \in [SplunkPump -> TagFilterTypes]
  BY <1>1, FilterFacts, ArrayFacts DEF Load, TagsAt, TagsInv
<1>3. /\ f.key \in Nat \ {0} /\ f.len \in 0 .. Len(found) /\ f.len \in Nat
      /\ f.loaded \in LoadedTypes /\ f.stored \subseteq Nat
  BY <1>2, FieldFacts
<1>a. PICK i \in Gap(f) \ DOMAIN f.loaded : \E tag \in Raced(s, i + 1, array[i + 1]) :
        filter' = [filter EXCEPT ![s].loaded = [j \in DOMAIN @ \union {i} |-> IF j = i THEN tag ELSE @[j]]]
  BY <1>1 DEF Load
<1>4. PICK tag \in Raced(s, i + 1, array[i + 1]) :
        filter' = [filter EXCEPT ![s].loaded = [j \in DOMAIN @ \union {i} |-> IF j = i THEN tag ELSE @[j]]]
  BY <1>a
<1> DEFINE more == [j \in DOMAIN f.loaded \union {i} |-> IF j = i THEN tag ELSE f.loaded[j]]
<1>5. i \in Nat /\ i \in f.key .. f.len - 1 /\ i + 1 \in 1 .. f.len /\ i + 1 \in 1 .. Len(found)
  BY <1>3, <1>4 DEF Gap
<1>6. /\ more \in LoadedTypes /\ DOMAIN more = DOMAIN f.loaded \union {i}
      /\ more[i] = tag /\ \A j \in DOMAIN f.loaded : more[j] = f.loaded[j]
  <2>1. tag \in Tag
    BY <1>2, <1>4, <1>5, RacedTypes
  <2>2. PICK D \in SUBSET Nat : f.loaded \in [D -> Tag]
    BY <1>3 DEF LoadedTypes
  <2>3. DOMAIN f.loaded = D /\ \A j \in D : f.loaded[j] \in Tag
    BY <2>2
  <2>4. D \union {i} \in SUBSET Nat
    BY <1>5
  <2>5. more \in [D \union {i} -> Tag]
    BY <2>1, <2>3
  <2>6. more \in LoadedTypes
    BY <2>4, <2>5 DEF LoadedTypes
  <2> QED
    BY <1>4, <2>6
<1> HIDE DEF more
<1>7. PICK g : g = [f EXCEPT !.loaded = more]
  OBVIOUS
<1>8. /\ g \in TagFilterTypes /\ g.step = "copy" /\ g.prefix = f.prefix /\ g.bound = f.bound
      /\ g.key = f.key /\ g.len = f.len /\ g.loaded = more /\ g.stored = f.stored
  BY <1>2, <1>6, <1>7 DEF TagFilterTypes
<1>9. filter' = [filter EXCEPT ![s] = g]
  BY <1>1, <1>2, <1>4, <1>7 DEF more, TagFilterTypes
<1>10. Shaped(s, g)
  BY <1>2, <1>4, <1>6, <1>8 DEF Shaped, Gap
<1>11. ASSUME s \in alone
       PROVE  KeepsTags(s, g)'
  <2>1. PICK places \in [1 .. f.len -> DOMAIN found] : Follows(s, f, places)
    BY <1>1, <1>11 DEF TagsInv, TagsAlone, KeepsTags
  <2>2. tag = array[i + 1]
    BY <1>4, <1>11, NothingRaces
  <2>3. i + 1 \notin f.stored
    <3>1. i + 1 \in f.stored => i + 1 = f.key \/ i \in DOMAIN f.loaded
      BY <1>5, <2>1 DEF Follows, InCopy
    <3> QED
      BY <1>3, <1>4, <1>5, <3>1
  <2>4. tag = found[places[i + 1]]
    BY <1>5, <2>1, <2>2, <2>3 DEF Follows, InArray
  <2>5. InPlace(s, g, places)
    BY <1>8, <2>1 DEF Follows, InPlace, Checked
  <2>6. InArray(g, places)
    BY <1>8, <2>1 DEF Follows, InArray
  <2>7. InCopy(s, g, places)
    <3>1. \A j \in DOMAIN g.loaded : g.loaded[j] = found[places[j + 1]]
      BY <1>6, <1>8, <2>1, <2>4 DEF Follows, InCopy
    <3> QED
      BY <1>2, <1>6, <1>8, <2>1, <3>1 DEF Follows, InCopy
  <2>8. Follows(s, g, places)'
    BY <1>2, <2>5, <2>6, <2>7 DEF Follows, InPlace, InArray, InCopy, Innocent, Skipped, Checked
  <2>9. places \in [1 .. g.len -> DOMAIN found']
    BY <1>2, <1>8, <2>1
  <2> QED
    BY <2>8, <2>9 DEF KeepsTags
<1>12. array \in Seq(Tag)
  BY DEF TagsInv, TagTypes
<1> QED
  BY <1>1, <1>2, <1>8, <1>9, <1>10, <1>11, <1>12, OneMoves

LEMMA StoreKeeps ==
  ASSUME TagsInv, NEW s \in SplunkPump, Store(s)
  PROVE  TagsInv'
<1>1. PICK f : f = filter[s]
  OBVIOUS
<1>2. /\ f \in TagFilterTypes /\ Shaped(s, f) /\ f.step = "copy"
      /\ Len(found) \in Nat /\ DOMAIN found = 1 .. Len(found) /\ DOMAIN array = 1 .. Len(found)
      /\ UNCHANGED <<found, alone>> /\ filter \in [SplunkPump -> TagFilterTypes]
  BY <1>1, FilterFacts, ArrayFacts DEF Store, TagsAt, TagsInv
<1>3. /\ f.key \in Nat \ {0} /\ f.len \in 0 .. Len(found) /\ f.len \in Nat
      /\ f.loaded \in LoadedTypes /\ f.stored \subseteq Nat
  BY <1>2, FieldFacts
<1>a. PICK i \in Storable(f) : \E tag \in Raced(s, i, f.loaded[i]) :
        /\ array' = [array EXCEPT ![i] = tag]
        /\ filter' = [filter EXCEPT ![s].stored = @ \union {i}]
  BY <1>1 DEF Store
<1>4. PICK tag \in Raced(s, i, f.loaded[i]) :
        /\ array' = [array EXCEPT ![i] = tag]
        /\ filter' = [filter EXCEPT ![s].stored = @ \union {i}]
  BY <1>a
<1>5. /\ i \in DOMAIN f.loaded /\ i \notin f.stored /\ (i = f.key \/ i - 1 \in DOMAIN f.loaded)
      /\ i \in f.key .. f.len - 1 /\ i \in Nat /\ i \in 1 .. f.len /\ i \in 1 .. Len(found)
  BY <1>2, <1>3, <1>4 DEF Storable, Shaped, Gap
<1>6. tag \in Tag
  <2>1. PICK D \in SUBSET Nat : f.loaded \in [D -> Tag]
    BY <1>3 DEF LoadedTypes
  <2>2. f.loaded[i] \in Tag
    BY <1>5, <2>1
  <2> QED
    BY <1>4, <2>2, RacedTypes
<1>7. /\ array' \in Seq(Tag) /\ Len(array') = Len(array)
      /\ \A j \in DOMAIN array \ {i} : array'[j] = array[j]
      /\ array'[i] = tag
  <2>1. array \in Seq(Tag)
    BY DEF TagsInv, TagTypes
  <2> HIDE DEF Tag
  <2> QED
    BY <1>2, <1>4, <1>5, <1>6, <2>1, PutFacts
<1>8. PICK g : g = [f EXCEPT !.stored = f.stored \union {i}]
  OBVIOUS
<1>9. /\ g \in TagFilterTypes /\ g.step = "copy" /\ g.prefix = f.prefix /\ g.bound = f.bound
      /\ g.key = f.key /\ g.len = f.len /\ g.loaded = f.loaded /\ g.stored = f.stored \union {i}
  <2>1. f.stored \union {i} \in SUBSET Nat
    BY <1>3, <1>5
  <2> QED
    BY <1>2, <1>8, <2>1 DEF TagFilterTypes
<1>10. filter' = [filter EXCEPT ![s] = g]
  BY <1>1, <1>2, <1>4, <1>8 DEF TagFilterTypes
<1>11. Shaped(s, g)
  BY <1>2, <1>5, <1>9 DEF Shaped, Gap
<1>12. ASSUME s \in alone
       PROVE  KeepsTags(s, g)'
  <2>1. PICK places \in [1 .. f.len -> DOMAIN found] : Follows(s, f, places)
    BY <1>1, <1>12 DEF TagsInv, TagsAlone, KeepsTags
  <2>2. tag = f.loaded[i]
    BY <1>4, <1>12, NothingRaces
  <2>3. tag = found[places[i + 1]]
    BY <1>5, <2>1, <2>2 DEF Follows, InCopy
  <2>4. InPlace(s, g, places)
    BY <1>9, <2>1 DEF Follows, InPlace, Checked
  <2>5. \A j \in 1 .. f.len : array'[j] = found[places[IF j \in g.stored THEN j + 1 ELSE j]]
    <3>1. ASSUME NEW j \in 1 .. f.len
          PROVE  array'[j] = found[places[IF j \in g.stored THEN j + 1 ELSE j]]
      <4>1. CASE j = i
        BY <1>7, <1>9, <2>3, <4>1
      <4>2. CASE j # i
        <5>1. j \in DOMAIN array \ {i}
          BY <1>2, <1>3, <4>2
        <5>2. array[j] = found[places[IF j \in f.stored THEN j + 1 ELSE j]]
          BY <2>1 DEF Follows, InArray
        <5>3. j \in g.stored <=> j \in f.stored
          BY <1>9, <4>2
        <5> QED
          BY <1>7, <5>1, <5>2, <5>3
      <4> QED
        BY <4>1, <4>2
    <3> QED
      BY <3>1
  <2>6. \A j \in f.len + 1 .. Len(found) : array'[j] = Blank
    <3>1. ASSUME NEW j \in f.len + 1 .. Len(found)
          PROVE  array'[j] = Blank
      <4>1. j \in DOMAIN array \ {i}
        BY <1>2, <1>3, <1>5
      <4>2. array[j] = Blank
        BY <2>1 DEF Follows, InArray
      <4> QED
        BY <1>7, <4>1, <4>2
    <3> QED
      BY <3>1
  <2>7. InArray(g, places)'
    BY <1>2, <1>9, <2>5, <2>6 DEF InArray
  <2>8. InCopy(s, g, places)
    <3>1. \A j \in g.stored : j = g.key \/ j - 1 \in DOMAIN g.loaded
      BY <1>5, <1>9, <2>1 DEF Follows, InCopy
    <3> QED
      BY <1>2, <1>9, <2>1, <3>1 DEF Follows, InCopy
  <2>9. Follows(s, g, places)'
    BY <1>2, <2>4, <2>7, <2>8 DEF Follows, InPlace, InCopy, Innocent, Skipped, Checked
  <2>10. places \in [1 .. g.len -> DOMAIN found']
    BY <1>2, <1>9, <2>1
  <2> QED
    BY <2>9, <2>10 DEF KeepsTags
<1> QED
  BY <1>1, <1>2, <1>7, <1>9, <1>10, <1>11, <1>12, OneMoves

(* The places that are left when the tag at key has gone: the tag that has   *)
(* moved up, if it ought to go too, is one that is stepped over.             *)
LEMMA PlacesShorten ==
  ASSUME TagsInv, NEW s \in SplunkPump, NEW f \in TagFilterTypes, f.step = "copy", Shaped(s, f),
         f.stored = Gap(f), NEW places \in [1 .. f.len -> DOMAIN found], Follows(s, f, places)
  PROVE  \E left \in [1 .. f.len - 1 -> DOMAIN found] :
           /\ \A i, j \in 1 .. f.len - 1 : i < j => left[i] < left[j]
           /\ \A j \in DOMAIN found : Innocent(s, found[j]) => \E i \in 1 .. f.len - 1 : left[i] = j
           /\ \A i \in 1 .. f.len - 1 : array[i] = found[left[i]]
           /\ \A i \in 1 .. f.len - 1, p \in DOMAIN Excluded[s] :
                found[left[i]] \in Excluded[s][p] /\ (Checked(f, p, i) \/ (p = f.prefix /\ i = f.key))
                  => Skipped(s, left[i])
<1> DEFINE left == [i \in 1 .. f.len - 1 |-> places[IF i < f.key THEN i ELSE i + 1]]
<1>1. /\ Len(found) \in Nat /\ DOMAIN found = 1 .. Len(found)
      /\ f.prefix \in DOMAIN Excluded[s] /\ f.key \in 1 .. f.len /\ f.len \in Nat
      /\ f.key \in Nat /\ f.prefix \in Nat
  BY FilterFacts, ArrayFacts, FieldFacts DEF Shaped, TagsInv
<1>2. /\ \A i, j \in 1 .. f.len : i < j => places[i] < places[j]
      /\ \A j \in DOMAIN found : Innocent(s, found[j]) => \E i \in 1 .. f.len : places[i] = j
      /\ \A i \in 1 .. f.len : array[i] = found[places[IF f.key <= i /\ i < f.len THEN i + 1 ELSE i]]
      /\ \A i \in 1 .. f.len, p \in DOMAIN Excluded[s] :
           found[places[i]] \in Excluded[s][p] /\ Checked(f, p, i) => Skipped(s, places[i])
      /\ found[places[f.key]] \in Excluded[s][f.prefix]
  <2>1. \A i \in 1 .. f.len : i \in f.stored <=> f.key <= i /\ i < f.len
    BY <1>1 DEF Gap
  <2>2. \A i \in 1 .. f.len : array[i] = found[places[IF f.key <= i /\ i < f.len THEN i + 1 ELSE i]]
    BY <2>1 DEF Follows, InArray
  <2> QED
    BY <2>2 DEF Follows, InPlace, InCopy
<1>3. \A i \in 1 .. f.len - 1 : /\ i \in 1 .. f.len /\ i + 1 \in 1 .. f.len
                                /\ left[i] = IF i < f.key THEN places[i] ELSE places[i + 1]
  BY <1>1
<1> HIDE DEF left
<1>4. left \in [1 .. f.len - 1 -> DOMAIN found]
  <2>1. \A i \in 1 .. f.len - 1 : left[i] \in DOMAIN found
    BY <1>3
  <2> QED
    BY <2>1 DEF left
<1>5. ASSUME NEW i \in 1 .. f.len - 1, NEW j \in 1 .. f.len - 1, i < j
      PROVE  left[i] < left[j]
  <2>1. i \in 1 .. f.len /\ i + 1 \in 1 .. f.len /\ j \in 1 .. f.len /\ j + 1 \in 1 .. f.len
    BY <1>3
  <2>2. i < j + 1 /\ i + 1 < j + 1 /\ i < j /\ (j < f.key => i < f.key)
    BY <1>1, <1>5
  <2>3. places[i] < places[j] /\ places[i] < places[j + 1] /\ places[i + 1] < places[j + 1]
    BY <1>2, <2>1, <2>2
  <2> QED
    BY <1>3, <2>2, <2>3
<1>6. ASSUME NEW j \in DOMAIN found, Innocent(s, found[j])
      PROVE  \E i \in 1 .. f.len - 1 : left[i] = j
  <2>1. PICK i \in 1 .. f.len : places[i] = j
    BY <1>2, <1>6
  <2>2. i # f.key
    BY <1>1, <1>2, <1>6, <2>1 DEF Innocent
  <2>3. CASE i < f.key
    <3>1. i \in 1 .. f.len - 1
      BY <1>1, <2>3
    <3> QED
      BY <1>3, <2>1, <2>3, <3>1
  <2>4. CASE i > f.key
    <3>1. i - 1 \in 1 .. f.len - 1 /\ (i - 1) + 1 = i /\ ~(i - 1 < f.key)
      BY <1>1, <2>4
    <3> QED
      BY <1>3, <2>1, <3>1
  <2> QED
    BY <1>1, <2>2, <2>3, <2>4
<1>7. ASSUME NEW i \in 1 .. f.len - 1
      PROVE  array[i] = found[left[i]]
  <2>1. i \in 1 .. f.len /\ i < f.len /\ (f.key <= i <=> ~(i < f.key))
    BY <1>1
  <2> QED
    BY <1>2, <1>3, <2>1
<1>8. ASSUME NEW i \in 1 .. f.len - 1, NEW p \in DOMAIN Excluded[s], found[left[i]] \in Excluded[s][p],
             Checked(f, p, i) \/ (p = f.prefix /\ i = f.key)
      PROVE  Skipped(s, left[i])
  <2>0. i \in 1 .. f.len /\ i + 1 \in 1 .. f.len /\ p \in Nat
    BY <1>3, ExcludedFacts
  <2>1. CASE i < f.key
    <3>1. left[i] = places[i] /\ Checked(f, p, i)
      BY <1>1, <1>3, <1>8, <2>1
    <3> QED
      BY <1>2, <1>8, <2>0, <3>1
  <2>2. CASE ~(i < f.key) /\ p < f.prefix
    <3>1. left[i] = places[i + 1] /\ Checked(f, p, i + 1)
      BY <1>3, <2>2 DEF Checked
    <3> QED
      BY <1>2, <1>8, <2>0, <3>1
  <2>3. CASE ~(i < f.key) /\ ~(p < f.prefix)
    <3>1. p = f.prefix /\ i = f.key
      BY <1>1, <1>8, <2>0, <2>3 DEF Checked
    <3> DEFINE a == places[f.key]
               b == places[f.key + 1]
    <3>2. left[i] = b /\ f.key + 1 \in 1 .. f.len
      BY <1>3, <2>0, <2>3, <3>1
    <3>3. a \in 1 .. Len(found) /\ b \in 1 .. Len(found) /\ a < b
      BY <1>1, <1>2, <3>2
    <3>4. {found[a], found[b]} \subseteq Excluded[s][f.prefix]
      BY <1>2, <1>8, <3>1, <3>2
    <3>5. ASSUME NEW m \in a .. b, Innocent(s, found[m])
          PROVE  FALSE
      <4>1. m \in DOMAIN found
        BY <1>1, <3>3
      <4>2. PICK k \in 1 .. f.len : places[k] = m
        BY <1>2, <3>5, <4>1
      <4>3. ~(k < f.key) /\ ~(f.key + 1 < k)
        <5>1. k < f.key => m < a
          BY <1>1, <1>2, <4>2
        <5>2. f.key + 1 < k => b < m
          BY <1>2, <3>2, <4>2
        <5> QED
          BY <1>1, <3>3, <5>1, <5>2
      <4>4. k = f.key \/ k = f.key + 1
        BY <1>1, <4>3
      <4>5. m = a \/ m = b
        BY <4>2, <4>4
      <4> QED
        BY <1>1, <3>4, <3>5, <4>5 DEF Innocent
    <3>6. a \in 1 .. (b - 1)
      BY <1>1, <3>3
    <3> HIDE DEF a, b
    <3>7. Skipped(s, b)
      BY <1>1, <3>4, <3>5, <3>6 DEF Skipped
    <3> QED
      BY <3>2, <3>7
  <2> QED
    BY <2>1, <2>2, <2>3
<1> QED
  BY <1>4, <1>5, <1>6, <1>7, <1>8

LEMMA ShortenKeeps ==
  ASSUME TagsInv, NEW s \in SplunkPump, Shorten(s)
  PROVE  TagsInv'
<1>1. PICK f : f = filter[s]
  OBVIOUS
<1>2. PICK h : h = Shortened(f, f.len - 1)
  OBVIOUS
<1>3. PICK g : g = NextKey(s, h)
  OBVIOUS
<1>4. /\ f \in TagFilterTypes /\ Shaped(s, f) /\ f.step = "copy" /\ f.stored = Gap(f)
      /\ Len(found) \in Nat /\ DOMAIN found = 1 .. Len(found) /\ DOMAIN array = 1 .. Len(found)
      /\ UNCHANGED <<found, alone>> /\ filter \in [SplunkPump -> TagFilterTypes]
  BY <1>1, FilterFacts, ArrayFacts DEF Shorten, TagsAt, TagsInv
<1>5. filter' = [filter EXCEPT ![s] = g]
  BY <1>1, <1>2, <1>3, <1>4 DEF Shorten
<1>6. PICK tag \in Raced(s, f.len, Blank) : array' = [array EXCEPT ![f.len] = tag]
  BY <1>1 DEF Shorten
<1>7. /\ f.prefix \in DOMAIN Excluded[s] /\ f.key \in 1 .. f.len /\ f.len \in 1 .. Len(found) /\ f.len \in Nat
      /\ f.bound \in 0 .. Len(found) /\ f.len <= f.bound
  BY <1>4, FieldFacts DEF Shaped
<1>8. /\ h \in TagFilterTypes /\ h.step = "look" /\ h.prefix = f.prefix /\ h.bound = f.bound
      /\ h.key = f.key /\ h.len = f.len - 1 /\ h.loaded = <<>> /\ DOMAIN h.loaded = {} /\ h.stored = {}
  <2>1. PICK n : n = f.len - 1
    OBVIOUS
  <2>2. n \in 0 .. Len(found) /\ h = [f EXCEPT !.step = "look", !.len = n, !.loaded = <<>>, !.stored = {}]
    BY <1>2, <1>7, <2>1 DEF Shortened
  <2>3. <<>> \in LoadedTypes
    <3>1. <<>> \in [{} -> Tag] /\ {} \in SUBSET Nat
      OBVIOUS
    <3> QED
      BY <3>1 DEF LoadedTypes
  <2>4. /\ h \in TagFilterTypes /\ h.step = "look" /\ h.prefix = f.prefix /\ h.bound = f.bound
        /\ h.key = f.key /\ h.len = n /\ h.loaded = <<>> /\ h.stored = {}
    <3> HIDE DEF LoadedTypes
    <3> QED
      BY <1>4, <2>2, <2>3 DEF TagFilterTypes
  <2> QED
    BY <2>1, <2>4
<1>9. /\ g \in TagFilterTypes /\ g.step \in {"look", "done"} /\ g.len = f.len - 1
      /\ DOMAIN g.loaded = {} /\ g.stored = {} /\ Shaped(s, g)
      /\ \A i \in 1 .. f.len - 1, p \in DOMAIN Excluded[s] :
           Checked(g, p, i) => Checked(h, p, i) \/ (p = f.prefix /\ i = f.key)
  <2>1. h.prefix \in DOMAIN Excluded[s] /\ h.key <= h.bound /\ h.len <= h.bound
    BY <1>7, <1>8
  <2>2. /\ g \in TagFilterTypes /\ g.step \in {"look", "done"} /\ g.len = h.len
        /\ DOMAIN g.loaded = {} /\ g.stored = {} /\ Shaped(s, g)
        /\ \A i \in 1 .. h.len, p \in DOMAIN Excluded[s] :
             Checked(g, p, i) => Checked(h, p, i) \/ (p = h.prefix /\ i = h.key)
    BY <1>3, <1>8, <2>1, NextKeyFacts
  <2> QED
    BY <1>8, <2>2
<1>10. /\ array' \in Seq(Tag) /\ Len(array') = Len(array)
       /\ \A j \in DOMAIN array \ {f.len} : array'[j] = array[j]
       /\ array'[f.len] = tag
  <2>1. array \in Seq(Tag)
    BY DEF TagsInv, TagTypes
  <2>2. tag \in Tag
    <3>1. Blank \in Tag
      BY DEF Tag
    <3> QED
      BY <1>6, <3>1, RacedTypes
  <2> HIDE DEF Tag
  <2> QED
    BY <1>4, <1>6, <1>7, <2>1, <2>2, PutFacts
<1>11. ASSUME s \in alone
       PROVE  KeepsTags(s, g)'
  <2>1. PICK places \in [1 .. f.len -> DOMAIN found] : Follows(s, f, places)
    BY <1>1, <1>11 DEF TagsInv, TagsAlone, KeepsTags
  <2>2. PICK left \in [1 .. f.len - 1 -> DOMAIN found] :
          /\ \A i, j \in 1 .. f.len - 1 : i < j => left[i] < left[j]
          /\ \A j \in DOMAIN found : Innocent(s, found[j]) => \E i \in 1 .. f.len - 1 : left[i] = j
          /\ \A i \in 1 .. f.len - 1 : array[i] = found[left[i]]
          /\ \A i \in 1 .. f.len - 1, p \in DOMAIN Excluded[s] :
               found[left[i]] \in Excluded[s][p] /\ (Checked(f, p, i) \/ (p = f.prefix /\ i = f.key))
                 => Skipped(s, left[i])
    BY <1>4, <2>1, PlacesShorten
  <2>3. \A i, p : Checked(h, p, i) => Checked(f, p, i)
    BY <1>4, <1>8 DEF Checked
  <2>4. InPlace(s, g, left)
    <3>1. \A i \in 1 .. g.len, p \in DOMAIN Excluded[s] :
            found[left[i]] \in Excluded[s][p] /\ Checked(g, p, i) => Skipped(s, left[i])
      BY <1>9, <2>2, <2>3
    <3> QED
      BY <1>9, <2>2, <3>1 DEF InPlace
  <2>5. \A i \in 1 .. g.len : array'[i] = found[left[i]]
    <3>1. \A i \in 1 .. f.len - 1 : i \in DOMAIN array \ {f.len}
      BY <1>4, <1>7
    <3> QED
      BY <1>9, <1>10, <2>2, <3>1
  <2>6. \A i \in g.len + 1 .. Len(found) : array'[i] = Blank
    <3>1. ASSUME NEW i \in g.len + 1 .. Len(found)
          PROVE  array'[i] = Blank
      <4>1. CASE i = f.len
        BY <1>6, <1>10, <1>11, <4>1, NothingRaces
      <4>2. CASE i # f.len
        <5>1. i \in DOMAIN array \ {f.len} /\ i \in f.len + 1 .. Len(found)
          BY <1>4, <1>7, <1>9, <4>2
        <5> QED
          BY <1>10, <2>1, <5>1 DEF Follows, InArray
      <4> QED
        BY <4>1, <4>2
    <3> QED
      BY <3>1
  <2>7. InArray(g, left)'
    BY <1>4, <1>9, <2>5, <2>6 DEF InArray
  <2>8. InCopy(s, g, left)
    BY <1>9 DEF InCopy
  <2>9. Follows(s, g, left)'
    BY <1>4, <2>4, <2>7, <2>8 DEF Follows, InPlace, InCopy, Innocent, Skipped, Checked
  <2>10. left \in [1 .. g.len -> DOMAIN found']
    BY <1>4, <1>9
  <2> QED
    BY <2>9, <2>10 DEF KeepsTags
<1>12. g.step # "new" /\ filter[s].step \notin {"new", "done"}
  BY <1>1, <1>4, <1>9
<1> QED
  BY <1>4, <1>5, <1>9, <1>10, <1>11, <1>12, OneMoves

LEMMA TagsBegin == TagsInit => TagsInv
<1> SUFFICES ASSUME TagsInit
             PROVE  TagsInv
  OBVIOUS
<1>1. /\ array \in Seq(Tag) /\ found = array /\ filter = [s \in SplunkPump |-> Start(array)] /\ alone = {}
  BY TagsAssumption DEF TagsInit
<1>2. Len(array) \in Nat
  <2> HIDE DEF Tag
  <2> QED
    BY <1>1
<1>3. PICK f : f = Start(array)
  OBVIOUS
<1>4. /\ f \in TagFilterTypes /\ f.step = "new" /\ f.prefix = 1 /\ f.bound = Len(array)
      /\ f.key = 1 /\ f.len = Len(array) /\ f.loaded = <<>> /\ f.stored = {}
  <2>1. <<>> \in LoadedTypes
    <3>1. <<>> \in [{} -> Tag] /\ {} \in SUBSET Nat
      OBVIOUS
    <3> QED
      BY <3>1 DEF LoadedTypes
  <2> HIDE DEF LoadedTypes
  <2> QED
    BY <1>1, <1>2, <1>3, <2>1 DEF Start, TagFilterTypes
<1>5. \A s \in SplunkPump : filter[s] = f
  BY <1>1, <1>3
<1>6. TagTypes
  <2> HIDE DEF TagFilterTypes
  <2>1. filter \in [SplunkPump -> TagFilterTypes]
    BY <1>1, <1>3, <1>4
  <2> QED
    BY <1>1, <2>1 DEF TagTypes
<1>7. ShapedInv
  <2>1. ASSUME NEW s \in SplunkPump
        PROVE  Shaped(s, f)
    <3>1. f.prefix \in DOMAIN Excluded[s] \/ DOMAIN Excluded[s] = {}
      BY <1>4, ExcludedFacts
    <3>2. f.key <= f.bound \/ f.bound = 0
      BY <1>2, <1>4
    <3> QED
      BY <1>1, <1>2, <1>4, <3>1, <3>2 DEF Shaped
  <2> QED
    BY <1>5, <2>1 DEF ShapedInv
<1>8. TagsAlone
  BY <1>1 DEF TagsAlone
<1> QED
  BY <1>6, <1>7, <1>8 DEF TagsInv

LEMMA TagsStutter ==
  ASSUME TagsInv, UNCHANGED tagVars
  PROVE  TagsInv'
<1>1. found' = found /\ array' = array /\ filter' = filter /\ alone' = alone
  BY DEF tagVars
<1>2. TagTypes'
  BY <1>1 DEF TagsInv, TagTypes, TagFilterTypes
<1>3. ShapedInv'
  BY <1>1 DEF TagsInv, ShapedInv, Shaped, Gap
<1>4. TagsAlone'
  BY <1>1 DEF TagsInv, TagsAlone, KeepsTags, Follows, InPlace, InArray, InCopy, Checked, Innocent, Skipped
<1> QED
  BY <1>2, <1>3, <1>4 DEF TagsInv

LEMMA TagsImplied == TagsInv => FilteredAlone
<1> SUFFICES ASSUME TagsInv
             PROVE  FilteredAlone
  OBVIOUS
<1>1. /\ array \in Seq(Tag) /\ found \in Seq(Tag) /\ Len(array) = Len(found)
      /\ Len(found) \in Nat /\ DOMAIN found = 1 .. Len(found)
  BY ArrayFacts DEF TagsInv, TagTypes
<1>2. TagsTypeOK
  <2>1. \A s \in SplunkPump : /\ filter[s].step \in {"new", "look", "copy", "done", "panic"}
                              /\ filter[s].len \in 0..Len(found)
    BY <1>1, FilterFacts, FieldFacts
  <2> QED
    BY <1>1, <2>1 DEF TagsTypeOK
<1>3. ASSUME NEW s \in alone, TagsAt(s, "panic")
      PROVE  Blank \in Excluded[s][filter[s].prefix]
  BY <1>3 DEF TagsInv, TagsAlone, KeepsTags, Follows, InCopy, TagsAt
<1>4. ASSUME NEW s \in alone, TagsAt(s, "done")
      PROVE  \E places \in [1..filter[s].len -> DOMAIN found] :
               KeepsPlaces(s, SubSeq(array, 1, filter[s].len), places)
  <2>1. PICK f : f = filter[s]
    OBVIOUS
  <2>2. PICK places \in [1 .. f.len -> DOMAIN found] : Follows(s, f, places)
    BY <2>1 DEF TagsInv, TagsAlone, KeepsTags
  <2>3. f.step = "done" /\ f.stored = {} /\ f.len \in 0 .. Len(found)
    <3>1. s \in SplunkPump
      BY DEF TagsInv, TagTypes
    <3> QED
      BY <1>1, <1>4, <2>1, <3>1, FilterFacts, FieldFacts DEF TagsAt, Shaped
  <2>4. PICK tags : tags = SubSeq(array, 1, f.len)
    OBVIOUS
  <2>5. DOMAIN tags = 1 .. f.len /\ \A i \in 1 .. f.len : tags[i] = array[i]
    <3> HIDE DEF Tag
    <3> QED
      BY <1>1, <2>3, <2>4
  <2>6. \A i \in 1 .. f.len : tags[i] = found[places[i]]
    BY <2>2, <2>3, <2>5 DEF Follows, InArray
  <2>7. \A i \in 1 .. f.len : Innocent(s, tags[i]) \/ Skipped(s, places[i])
    BY <2>2, <2>3, <2>6 DEF Follows, InPlace, Innocent, Checked
  <2>8. KeepsPlaces(s, tags, places)
    BY <2>2, <2>5, <2>6, <2>7 DEF KeepsPlaces, Follows, InPlace
  <2> QED
    BY <2>1, <2>2, <2>4, <2>8
<1> QED
  BY <1>2, <1>3, <1>4 DEF FilteredAlone

(* The invariant of the filters: a filter that has the tags for itself has   *)
(* those at some places of what it found, in order, of which only stepped    *)
(* over ones ought to have gone; what it has loaded is what it has to store, *)
(* and behind its length the array is blank (FilterTags, splunk.go:157-172). *)
THEOREM TagsInductive == TagsSpec => []TagsInv
<1>1. TagsInit => TagsInv
  BY TagsBegin
<1>2. TagsInv /\ [TagsNext]_tagVars => TagsInv'
  <2> SUFFICES ASSUME TagsInv, [TagsNext]_tagVars
               PROVE  TagsInv'
    OBVIOUS
  <2>1. ASSUME NEW s \in SplunkPump, Begin(s)
        PROVE  TagsInv'
    BY <2>1, BeginKeeps
  <2>2. ASSUME NEW s \in SplunkPump, Look(s) \/ OutOfRange(s)
        PROVE  TagsInv'
    BY <2>2, LookKeeps
  <2>3. ASSUME NEW s \in SplunkPump, Load(s)
        PROVE  TagsInv'
    BY <2>3, LoadKeeps
  <2>4. ASSUME NEW s \in SplunkPump, Store(s)
        PROVE  TagsInv'
    BY <2>4, StoreKeeps
  <2>5. ASSUME NEW s \in SplunkPump, Shorten(s)
        PROVE  TagsInv'
    BY <2>5, ShortenKeeps
  <2>6. CASE UNCHANGED tagVars
    BY <2>6, TagsStutter
  <2> QED
    BY <2>1, <2>2, <2>3, <2>4, <2>5, <2>6 DEF TagsNext
<1> QED
  BY <1>1, <1>2, PTL DEF TagsSpec

(* A filter that has the tags for itself runs out of the bounds of its slice *)
(* only for an empty entry; it loses no tag that it should keep, keeps their *)
(* order, and leaves of the others only those the loop steps over            *)
(* (splunk.go:157-172).                                                      *)
THEOREM TagsKept == TagsSpec => []FilteredAlone
BY TagsInductive, TagsImplied, PTL
=============================================================================
