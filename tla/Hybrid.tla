------------------------------- MODULE Hybrid -------------------------------
(***************************************************************************)
(* The hybrid pump (pumps/hybrid.go): it sends the records, or their       *)
(* aggregates, to MDCB over one RPC client kept in fields of the pump.     *)
(* The fields have no lock.  The purge loop makes one WriteData call at a  *)
(* time, but leaves a call behind when the time-out of the pump passes,    *)
(* and may call Shutdown while it is still running: the calls read and     *)
(* replace the fields of one another.                                      *)
(*                                                                         *)
(* The RPC library and the server are external: a client connects on its   *)
(* own some time after Start and again whenever it lost its connection, a  *)
(* call on it is answered, refused, lost before or lost after the server   *)
(* did it, a second Start of one client panics.  The JSON of a request is  *)
(* its kind.                                                               *)
(***************************************************************************)
EXTENDS Integers, Sequences, FiniteSets, SequencesExt

CONSTANTS
  Payload,     \* the slices the loop may write: what is among their records, see RecordKinds
  Retries,     \* retries of a failing connection or login in Init (3)
  MaxWrites,   \* bound on the WriteData calls
  MaxLost      \* bound on the calls that fail

\* Records of an API or of an MCP server, records that did not decode, and, of
\* either kind, an error whose API was first counted in this slice by a record
\* with code -1, in a counter without an error map (Panics of Counters).
RecordKinds == {"api", "mcp", "nil", "unmapped", "unmappedMCP"}

ASSUME HybridAssumption ==
  /\ \A payload \in Payload : payload \subseteq RecordKinds
  /\ {Retries, MaxWrites, MaxLost} \subseteq Nat

VARIABLES
  mode,        \* "raw", "aggregated", or "mcp": aggregated with EnableMCPAggregation
  calls,       \* the calls made, in order; the first is Init
  rpcClient,   \* clientSingleton, 0 for nil
  funcClient,  \* the client of funcClientSingleton, 0 for nil
  clients,     \* the state of every client made: "new", "started", "stopped"
  connected,   \* clientIsConnected
  linked,      \* the clients that have had a connection
  loggedIn,    \* what MDCB knows: the clients whose last Login it accepted
  accepted,    \* of each call, what MDCB has taken of it, in order, and whether the client was logged in
  lost,        \* the number of calls that failed
  hybrid       \* "up", "shut" after Shutdown, "dead" after a panic

hybridVars == <<mode, calls, rpcClient, funcClient, clients, connected, linked,
                loggedIn, accepted, lost, hybrid>>

Rpcs  == {"PurgeAnalyticsData", "PurgeAnalyticsDataAggregated", "PurgeAnalyticsDataMCPAggregated"}
Steps == {"check", "login", "connect", "start", "dispatch", "ping", "recheck", "relogin",
          "send", "sendMCP", "returned"}

Write(payload) == [payload |-> payload, step |-> "check", tries |-> 0, behind |-> FALSE, result |-> "none"]
InitCall == [Write({}) EXCEPT !.step = "connect"]

HybridInit ==
  /\ mode \in {"raw", "aggregated", "mcp"}
  /\ calls = <<InitCall>>
  /\ rpcClient = 0 /\ funcClient = 0 /\ clients = <<>>
  /\ connected = FALSE /\ linked = {} /\ loggedIn = {} /\ accepted = <<<<>>>> /\ lost = 0
  /\ hybrid = "up"

Running(c)    == calls[c].step # "returned"
Goto(c, step) == calls' = [calls EXCEPT ![c].step = step, ![c].tries = 0]
Finish(c, result) == calls' = [calls EXCEPT ![c].step = "returned", ![c].result = result]

\* The steps a call goes on from: Init starts each of its two parts again, up
\* to Retries times; a write tries once.
Fails(c, from) ==
  IF c = 1 /\ calls[c].tries < Retries
  THEN calls' = [calls EXCEPT ![c].step = from, ![c].tries = @ + 1]
  ELSE Finish(c, "error")

-----------------------------------------------------------------------------
(* The purge loop.                                                          *)

CanWrite == /\ hybrid = "up"
            /\ calls[1].result = "nil"
            /\ \A c \in DOMAIN calls : Running(c) => calls[c].behind

WriteData(payload) ==
  /\ CanWrite
  /\ Len(calls) <= MaxWrites
  /\ calls' = Append(calls, IF payload = {} THEN [Write({}) EXCEPT !.step = "returned", !.result = "nil"]
                                            ELSE Write(payload))
  /\ accepted' = Append(accepted, <<>>)
  /\ UNCHANGED <<mode, rpcClient, funcClient, clients, connected, linked, loggedIn, lost, hybrid>>

\* The time-out of the pump: the loop goes on without the call.
LeaveBehind(c) ==
  /\ c # 1 /\ Running(c) /\ ~calls[c].behind
  /\ calls' = [calls EXCEPT ![c].behind = TRUE]
  /\ UNCHANGED <<mode, rpcClient, funcClient, clients, connected, linked, loggedIn, accepted, lost, hybrid>>

\* Stop waits until the client has ended.
Shutdown ==
  /\ CanWrite
  /\ clients' = [clients EXCEPT ![rpcClient] = "stopped"]
  /\ rpcClient' = 0
  /\ funcClient' = 0
  /\ connected' = FALSE
  /\ hybrid' = "shut"
  /\ UNCHANGED <<mode, calls, linked, loggedIn, accepted, lost>>

Die == /\ hybrid' = "dead"
       /\ UNCHANGED <<mode, calls, rpcClient, funcClient, clients, connected, linked, loggedIn, accepted, lost>>

-----------------------------------------------------------------------------
(* One RPC call over funcClientSingleton as it is now.                      *)

Lose == lost < MaxLost /\ lost' = lost + 1

Usable(f) == f # 0 /\ clients[f] = "started" /\ f \in linked

\* The request reaches MDCB, which takes it, and the answer comes back.
callRPCFn == Usable(funcClient) /\ lost' = lost

\* The call fails: it was never sent, it was refused, or the time-out came first.
callRPCFnFails == /\ funcClient # 0
                  /\ IF Usable(funcClient) THEN Lose ELSE lost' = lost

-----------------------------------------------------------------------------
(* connectAndLogin.                                                         *)

\* connectRPC makes a client and forgets the one before, which nobody stops.
ConnectRPC(c) ==
  /\ calls[c].step = "connect"
  /\ rpcClient' = Len(clients) + 1
  /\ clients' = Append(clients, "new")
  /\ calls' = [calls EXCEPT ![c].step = "start"]
  /\ UNCHANGED <<mode, funcClient, connected, linked, loggedIn, accepted, lost, hybrid>>

StartClient(c) ==
  /\ calls[c].step = "start"
  /\ rpcClient # 0 /\ clients[rpcClient] = "new"
  /\ clients' = [clients EXCEPT ![rpcClient] = "started"]
  /\ calls' = [calls EXCEPT ![c].step = "dispatch"]
  /\ UNCHANGED <<mode, rpcClient, funcClient, connected, linked, loggedIn, accepted, lost, hybrid>>

StartPanics(c) ==
  /\ calls[c].step = "start"
  /\ rpcClient # 0 => clients[rpcClient] # "new"
  /\ Die

startDispatcher(c) ==
  /\ calls[c].step = "dispatch"
  /\ funcClient' = rpcClient
  /\ calls' = [calls EXCEPT ![c].step = "ping"]
  /\ UNCHANGED <<mode, rpcClient, clients, connected, linked, loggedIn, accepted, lost, hybrid>>

\* As Ping, of a pump that takes a new connection for a login.
PingIsEnough(c) ==
  /\ calls[c].step = "ping"
  /\ \/ callRPCFn /\ (IF c = 1 THEN Finish(c, "nil") ELSE Goto(c, "send"))
     \/ callRPCFnFails /\ Fails(c, "connect")
  /\ UNCHANGED <<mode, rpcClient, funcClient, clients, connected, linked, loggedIn, accepted, hybrid>>

Ping(c) ==
  /\ calls[c].step = "ping"
  /\ \/ callRPCFn /\ Goto(c, "recheck")
     \/ callRPCFnFails /\ Fails(c, "connect")
  /\ UNCHANGED <<mode, rpcClient, funcClient, clients, connected, linked, loggedIn, accepted, hybrid>>

\* A connection of a started client, its first one or a new one after a loss.
onConnectFunc(k) ==
  /\ clients[k] = "started"
  /\ k \notin linked \/ ~connected
  /\ connected' = TRUE
  /\ linked' = linked \union {k}
  /\ UNCHANGED <<mode, calls, rpcClient, funcClient, clients, loggedIn, accepted, lost, hybrid>>

\* RPCLogin looks at the flag first: a write that finds no connection makes one,
\* an Init tries again.
CheckConnected(c) ==
  /\ \/ /\ calls[c].step = "check"
        /\ Goto(c, IF connected THEN "login" ELSE "connect")
     \/ /\ calls[c].step = "recheck"
        /\ IF connected THEN calls' = [calls EXCEPT ![c].step = "relogin"] ELSE Fails(c, "recheck")
  /\ UNCHANGED <<mode, rpcClient, funcClient, clients, connected, linked, loggedIn, accepted, lost, hybrid>>

AfterLogin(c) == IF c = 1 THEN Finish(c, "nil") ELSE Goto(c, "send")

LoginAccepted(c) ==
  /\ calls[c].step \in {"login", "relogin"}
  /\ callRPCFn
  /\ loggedIn' = loggedIn \union {funcClient}
  /\ AfterLogin(c)
  /\ UNCHANGED <<mode, rpcClient, funcClient, clients, connected, linked, accepted, hybrid>>

\* ErrRPCLogin: the write gives up at once, Init tries again.
LoginRefused(c) ==
  /\ calls[c].step \in {"login", "relogin"}
  /\ Usable(funcClient) /\ Lose
  /\ loggedIn' = loggedIn \ {funcClient}
  /\ IF calls[c].step = "login" THEN Finish(c, "error") ELSE Fails(c, "recheck")
  /\ UNCHANGED <<mode, rpcClient, funcClient, clients, connected, linked, accepted, hybrid>>

LoginFails(c) ==
  /\ calls[c].step \in {"login", "relogin"}
  /\ callRPCFnFails
  /\ IF calls[c].step = "login" THEN Goto(c, "connect") ELSE Fails(c, "recheck")
  /\ UNCHANGED <<mode, rpcClient, funcClient, clients, connected, linked, loggedIn, accepted, hybrid>>

-----------------------------------------------------------------------------
(* The requests of WriteData.                                               *)

Request(c) == IF calls[c].step = "sendMCP" THEN "PurgeAnalyticsDataMCPAggregated"
              ELSE IF mode = "raw" THEN "PurgeAnalyticsData" ELSE "PurgeAnalyticsDataAggregated"

HasMCP(c) == calls[c].payload \cap {"mcp", "unmappedMCP"} # {}

\* sendMCPAggregates makes no call when the slice has no MCP record.
AfterSend(c) == IF calls[c].step = "send" /\ mode = "mcp" /\ HasMCP(c)
                THEN Goto(c, "sendMCP") ELSE Finish(c, "nil")

\* AggregateData dies on a nil among the records, and on a counter without an
\* error map; so does AggregateMCPData, which passes over all but MCP records.
Aggregates(c) ==
  CASE calls[c].step = "send"    -> mode = "raw" \/ calls[c].payload \cap {"nil", "unmapped"} = {}
    [] calls[c].step = "sendMCP" -> "unmappedMCP" \notin calls[c].payload
    [] OTHER                     -> TRUE

Take(c) == accepted' = [accepted EXCEPT ![c] = Append(@, [rpc |-> Request(c), allowed |-> funcClient \in loggedIn])]

\* As Send, of a pump that only logs the failure of the second request.
SendLogsOnly(c) ==
  /\ calls[c].step \in {"send", "sendMCP"}
  /\ Aggregates(c)
  /\ \/ callRPCFn /\ Take(c) /\ AfterSend(c)
     \/ callRPCFnFails /\ Finish(c, IF calls[c].step = "send" THEN "error" ELSE "nil") /\ accepted' = accepted
  /\ UNCHANGED <<mode, rpcClient, funcClient, clients, connected, linked, loggedIn, hybrid>>

Send(c) ==
  /\ calls[c].step \in {"send", "sendMCP"}
  /\ Aggregates(c)
  /\ \/ callRPCFn /\ Take(c) /\ AfterSend(c)
     \/ callRPCFnFails /\ Finish(c, "error") /\ accepted' = accepted
     \/ Usable(funcClient) /\ Lose /\ Take(c) /\ Finish(c, "error")
  /\ UNCHANGED <<mode, rpcClient, funcClient, clients, connected, linked, loggedIn, hybrid>>

AggregatePanics(c) == ~Aggregates(c) /\ Die

\* funcClientSingleton is nil, or wraps a nil client.
NilClientPanics(c) == /\ calls[c].step \in {"ping", "login", "relogin", "send", "sendMCP"}
                      /\ Aggregates(c)
                      /\ funcClient = 0
                      /\ Die

-----------------------------------------------------------------------------
HybridNext ==
  /\ hybrid # "dead"
  /\ \/ \E payload \in Payload : WriteData(payload)
     \/ Shutdown
     \/ \E k \in DOMAIN clients : onConnectFunc(k)
     \/ \E c \in DOMAIN calls :
          \/ LeaveBehind(c) \/ ConnectRPC(c) \/ StartClient(c) \/ StartPanics(c)
          \/ startDispatcher(c) \/ Ping(c) \/ CheckConnected(c) \/ LoginAccepted(c)
          \/ LoginRefused(c) \/ LoginFails(c) \/ Send(c) \/ AggregatePanics(c) \/ NilClientPanics(c)

HybridSpec == HybridInit /\ [][HybridNext]_hybridVars

-----------------------------------------------------------------------------
(* Properties.                                                              *)

HybridTypeOK ==
  /\ mode \in {"raw", "aggregated", "mcp"} /\ hybrid \in {"up", "shut", "dead"}
  /\ \A c \in DOMAIN calls : /\ calls[c].step \in Steps /\ calls[c].result \in {"none", "nil", "error"}
                             /\ calls[c].tries \in 0..Retries /\ calls[c].behind \in BOOLEAN
  /\ \A k \in DOMAIN clients : clients[k] \in {"new", "started", "stopped"}
  /\ {rpcClient, funcClient} \subseteq 0..Len(clients)
  /\ connected \in BOOLEAN /\ linked \union loggedIn \subseteq DOMAIN clients
  /\ \A c \in DOMAIN calls : \A i \in DOMAIN accepted[c] : accepted[c][i].rpc \in Rpcs

RpcsOf(c) == [i \in DOMAIN accepted[c] |-> accepted[c][i].rpc]

\* What MDCB should get of a slice, in this order.
Due(c) == IF calls[c].payload = {} THEN <<>>
          ELSE IF mode = "raw" THEN <<"PurgeAnalyticsData">>
          ELSE <<"PurgeAnalyticsDataAggregated">> \o
               (IF mode = "mcp" /\ HasMCP(c)
                THEN <<"PurgeAnalyticsDataMCPAggregated">> ELSE <<>>)

\* WriteData returns nil exactly for what MDCB has taken whole: every request of
\* the slice once, the aggregates before those of the MCP records. Of a call that
\* failed, or is going on, MDCB has a beginning of that, never a request twice,
\* whatever was lost, retried or replaced by another call (hybrid.go:260-325).
HybridHonest ==
  /\ HybridTypeOK
  /\ \A c \in DOMAIN calls : /\ IsPrefix(RpcsOf(c), Due(c))
                             /\ c # 1 /\ calls[c].result = "nil" => RpcsOf(c) = Due(c)

Overlap == \E c \in DOMAIN calls : calls[c].behind

\* As long as no call has been left behind, the fields of the pump belong to one
\* goroutine: nothing kills the process but a slice that cannot be aggregated
\* (AggregateData and AggregateMCPData, hybrid.go:299 and 363), and MDCB gets
\* data only over a client that is logged in (connectRPC, Shutdown and callRPCFn,
\* hybrid.go:172-225 and 327-338).
SafeAlone ==
  ~Overlap =>
    /\ hybrid = "dead" => \E c \in DOMAIN calls : ~Aggregates(c)
    /\ \A c \in DOMAIN calls : \A i \in DOMAIN accepted[c] : accepted[c][i].allowed
=============================================================================
