-------------------------- MODULE TemporalStorage --------------------------
(***************************************************************************)
(* The handlers of the temporal storage (storage/temporal_storage.go): all *)
(* of them share one connector in a package variable, and each keeps the   *)
(* list and key-value views it made of that connector.  A handler made     *)
(* with forceReconnect replaces the connector for everybody; one that uses *)
(* the storage while there is no connector makes it, for as long as it     *)
(* takes.                                                                  *)
(*                                                                         *)
(* main.go makes three handlers, none of them forced, and leaves the       *)
(* process when the Init of one fails.  The storage library and Redis are  *)
(* external: making a connector, a view or a call on a view can fail, and  *)
(* the library brings back a lost connection of a connector that has not   *)
(* been disconnected by itself.                                            *)
(***************************************************************************)
EXTENDS Integers, Sequences

CONSTANTS
  Handlers,     \* of each handler, in the order of their Init: its forceReconnect
  MaxFailures   \* bound on the failures of the library

ASSUME HandlersAssumption == Handlers \in Seq(BOOLEAN) /\ MaxFailures \in Nat

VARIABLES
  singleton,    \* connectorSingleton: the number of the connector, 0 for nil
  live,         \* of each connector made: not disconnected
  view,         \* of each handler: the connector of its kv and its list, 0 for nil
  inits,        \* of each handler: "new", "ok", "error"
  operation,    \* of each handler: "none", "connecting", "ready", "ok", "error", "panic"
  failures,
  replaced      \* handlers without a connector since a forced handler replaced, or broke, it

storageVars == <<singleton, live, view, inits, operation, failures, replaced>>

Handler == DOMAIN Handlers
NoView  == [kv |-> 0, list |-> 0]

StorageInit ==
  /\ singleton = 0 /\ live = <<>> /\ failures = 0 /\ replaced = {}
  /\ view = [h \in Handler |-> NoView]
  /\ inits = [h \in Handler |-> "new"]
  /\ operation = [h \in Handler |-> "none"]

FailOnce == failures < MaxFailures /\ failures' = failures + 1

-----------------------------------------------------------------------------
(* connect.                                                                 *)

Resets(h) == singleton = 0 \/ Handlers[h]

Disconnected == [k \in DOMAIN live |-> live[k] /\ k # singleton]

\* As Reset, of a handler that keeps the connector it has made to itself.
ResetPrivate(h) ==
  /\ Resets(h)
  /\ live' = Append(Disconnected, TRUE)
  /\ singleton' = IF singleton = 0 THEN Len(live) + 1 ELSE singleton
  /\ view' = [view EXCEPT ![h] = [kv |-> Len(live) + 1, list |-> Len(live) + 1]]
  /\ replaced' = {g \in Handler \ {h} : view[g] # NoView}
  /\ failures' = failures

\* resetConnection: the old connector goes before the new one is there.
Reset(h) ==
  /\ Resets(h)
  /\ live' = Append(Disconnected, TRUE)
  /\ singleton' = Len(live) + 1
  /\ view' = [view EXCEPT ![h] = [kv |-> Len(live) + 1, list |-> Len(live) + 1]]
  /\ replaced' = {g \in Handler \ {h} : view[g] # NoView}
  /\ failures' = failures

\* Disconnect fails, or createConnector does once the old connector is gone: the
\* variable goes on naming that one.
ResetFails(h) ==
  /\ Resets(h)
  /\ FailOnce
  /\ live' \in {live, Disconnected}
  /\ replaced' = IF live' = live THEN replaced ELSE Handler
  /\ UNCHANGED <<singleton, view>>

\* A later handler takes views of the connector that is there.
TakeViews(h) ==
  /\ ~Resets(h)
  /\ view' = [view EXCEPT ![h] = IF 0 \in {view[h].kv, view[h].list}
                                 THEN [kv |-> singleton, list |-> singleton] ELSE @]
  /\ UNCHANGED <<singleton, live, failures, replaced>>

TakeViewsFails(h) ==
  /\ ~Resets(h) /\ 0 \in {view[h].kv, view[h].list}
  /\ FailOnce
  /\ \E kv \in {0, singleton} : view' = [view EXCEPT ![h].kv = kv]
  /\ UNCHANGED <<singleton, live, replaced>>

Connect(h)      == Reset(h) \/ TakeViews(h)
ConnectFails(h) == ResetFails(h) \/ TakeViewsFails(h)

-----------------------------------------------------------------------------
(* The operations of a handler.                                             *)

\* One handler after the other, on one goroutine.
Init(h) ==
  /\ inits[h] = "new" /\ \A g \in 1..(h - 1) : inits[g] # "new"
  /\ \/ Connect(h) /\ inits' = [inits EXCEPT ![h] = "ok"]
     \/ ConnectFails(h) /\ inits' = [inits EXCEPT ![h] = "error"]
  /\ UNCHANGED operation

\* GetAndDeleteSet and SetKey call ensureConnection first.
Operate(h) ==
  /\ inits[h] # "new"
  /\ operation[h] \in {"none", "ok", "error"}
  /\ operation' = [operation EXCEPT ![h] = IF singleton = 0 THEN "connecting" ELSE "ready"]
  /\ UNCHANGED <<singleton, live, view, inits, failures, replaced>>

\* The retries of ensureConnection have no end.
ensureConnection(h) ==
  /\ operation[h] = "connecting"
  /\ \/ Connect(h) /\ operation' = [operation EXCEPT ![h] = "ready"]
     \/ ConnectFails(h) /\ UNCHANGED operation
  /\ UNCHANGED inits

\* Pop on the list, then Expire on the key-value view, of whichever connector.
Answer(h) ==
  /\ operation[h] = "ready"
  /\ LET conns == {view[h].kv, view[h].list} IN
       \/ /\ 0 \in conns
          /\ operation' = [operation EXCEPT ![h] = "panic"] /\ failures' = failures
       \/ /\ 0 \notin conns /\ \A k \in conns : live[k]
          /\ operation' = [operation EXCEPT ![h] = "ok"] /\ failures' = failures
       \/ /\ 0 \notin conns
          /\ operation' = [operation EXCEPT ![h] = "error"]
          /\ IF \A k \in conns : live[k] THEN FailOnce ELSE failures' = failures
  /\ UNCHANGED <<singleton, live, view, inits, replaced>>

StorageNext == \E h \in Handler : Init(h) \/ Operate(h) \/ ensureConnection(h) \/ Answer(h)

StorageSpec == StorageInit /\ [][StorageNext]_storageVars

-----------------------------------------------------------------------------
(* Properties.                                                              *)

StorageTypeOK ==
  /\ live \in Seq(BOOLEAN) /\ singleton \in 0..Len(live)
  /\ \A h \in Handler : /\ {view[h].kv, view[h].list} \subseteq 0..Len(live)
                        /\ inits[h] \in {"new", "ok", "error"}
                        /\ operation[h] \in {"none", "connecting", "ready", "ok", "error", "panic"}
  /\ failures \in 0..MaxFailures /\ replaced \subseteq Handler

Serves(h) == \A k \in {view[h].kv, view[h].list} : k # 0 /\ live[k]

\* A handler whose Init returned nil can reach the storage from then on, with no
\* Init of its own again: its two views are of one connector that nobody has
\* disconnected.  The exceptions are the handlers a forced reconnection cut off:
\* those that were there before it, and everybody once it failed half-way.  No
\* operation dies on a missing view unless the Init of its handler failed
\* (connect, resetConnection and ensureConnection, temporal_storage.go:102-139,
\* 140-200 and 331-355).
StorageReachable ==
  /\ StorageTypeOK
  /\ \A h \in Handler : /\ inits[h] = "ok" => Serves(h) \/ h \in replaced
                        /\ operation[h] = "panic" => inits[h] = "error"
  /\ replaced # {} => \E g \in Handler : Handlers[g] /\ inits[g] # "new"
=============================================================================
