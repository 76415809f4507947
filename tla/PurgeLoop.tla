------------------------------ MODULE PurgeLoop ------------------------------
(***************************************************************************)
(* The purge loop of tyk-pump (main.go, storage/temporal_storage.go).      *)
(*                                                                         *)
(* A gateway appends analytics records to lists kept in temporal storage   *)
(* (Redis).  On every tick the loop visits each list, pops a chunk of it,  *)
(* decodes the chunk and hands it to every pump at once.  A pump writes in *)
(* a goroutine of its own; execPumpWriting waits for that goroutine or for *)
(* the pump's timeout, and the goroutine of a timed-out pump keeps         *)
(* running, next to those of the following chunks.  A signal is noticed    *)
(* only at the end of a whole pass.                                        *)
(*                                                                         *)
(* Records are numbered in the order the gateway pushes them, so a list is *)
(* the set of its records and its head is the smallest of them.            *)
(***************************************************************************)
EXTENDS Integers, Sequences, FiniteSets

CONSTANTS
  Pump,                 \* the pumps that initialised (main.Pumps)
  UptimePump,           \* the uptime pump
  Timed,                \* pumps with a timeout greater than zero
  Stuck,                \* sinks whose backend may never answer a write or a Shutdown
  Flaky,                \* sinks whose write may fail with records unwritten
  Configured,           \* pumps with an option that makes filterData look at records
  Strict,               \* pumps whose WriteData asserts the type of every key
  Blocked,              \* [Pump -> SUBSET Record]: what the pump's filters reject
  Corrupt,              \* records that no serializer decodes
  NumShards,            \* the numbered analytics keys, 10 in the code
  PurgeChunk,           \* purge_chunk, 0 for "everything"
  DontPurgeUptimeData,  \* dont_purge_uptime_data
  FaultKinds,           \* which faults may happen, see FaultKind
  MaxRecords,           \* bound: records the gateway ever pushes
  MaxFaults,            \* bound: storage faults and kills
  MaxRestarts,          \* bound: restarts of the process
  NoKey                 \* "not pushed yet"

Record    == 1 .. MaxRecords
Sink      == Pump \cup {UptimePump}
FaultKind == {"pop", "lostReply", "expire", "kill"}

ASSUME PurgeLoopAssumption ==
  /\ UptimePump \notin Pump
  /\ Timed \subseteq Pump
  /\ Stuck \subseteq Sink
  /\ Flaky \subseteq Sink
  /\ Configured \subseteq Pump
  /\ Strict \subseteq Pump
  /\ Blocked \in [Pump -> SUBSET Record]
  /\ Corrupt \subseteq Record
  /\ NumShards \in Nat
  /\ PurgeChunk \in Nat
  /\ DontPurgeUptimeData \in BOOLEAN
  /\ FaultKinds \subseteq FaultKind
  /\ MaxRecords \in Nat
  /\ MaxFaults \in Nat
  /\ MaxRestarts \in Nat

-----------------------------------------------------------------------------
(* The lists.  A key is a shard number, -1 for the unnumbered list, and the *)
(* suffix of the serializer; a suffix is kept as the sequence of its parts. *)

(* Mistake: the serializer with a suffix comes first.                       *)
SerializersSwapped == <<"protobuf", "msgpack">>

AnalyticsSerializers == <<"msgpack", "protobuf">>
GetSuffix == [msgpack |-> <<>>, protobuf |-> <<"_protobuf">>]

FirstShard   == -1
UptimeKey    == [shard |-> NumShards, suffix |-> <<>>]
AnalyticsKey == [shard : FirstShard .. (NumShards - 1),
                 suffix : {GetSuffix[s] : s \in {"msgpack", "protobuf"}}]
Key          == AnalyticsKey \cup {UptimeKey}

ASSUME NoKeyAssumption == NoKey \notin Key

(* The name of a list is built by appending the suffix of each of the two   *)
(* serializers in turn to the same variable: the second serializer reads    *)
(* the list whose name ends in both suffixes.                               *)
KeySuffix(s) ==
  IF s = 1 THEN GetSuffix[AnalyticsSerializers[1]]
           ELSE GetSuffix[AnalyticsSerializers[1]] \o GetSuffix[AnalyticsSerializers[2]]

VARIABLES
  home,      \* [Record -> Key \cup {NoKey}]: the list the gateway pushed it to
  store,     \* [Key -> SUBSET Record]: the lists
  armed,     \* the lists with a TTL running
  pc,        \* where the purge loop is
  visit,     \* <<i, s>>: the shard and the serializer being visited
  batch,     \* the records popped by the current visit
  exec,      \* [Pump -> state of execPumpWriting]
  writers,   \* the goroutines that filter and write, also abandoned ones
  copies,    \* [Sink -> [Record -> Nat]]: how often the backend took a record
  failed,    \* history: [Sink -> SUBSET Record] lost after dispatch
  dropped,   \* history: records lost before any pump saw them
  sent,      \* history: records handed to writeToPumps or WriteUptimeData
  signalled, \* SIGINT or SIGTERM was received (the context is cancelled)
  closing,   \* the pump whose Shutdown is running
  closed,    \* the pumps whose Shutdown has been called
  faults, restarts

storage == <<home, store, armed>>
loop    == <<pc, visit, batch>>
history == <<failed, dropped, sent>>
vars    == <<storage, loop, exec, writers, copies, history,
             signalled, closing, closed, faults, restarts>>

Location  == {"tick", "pop", "expire", "decode", "dispatch", "check",
              "shutdown", "stopped", "down"}
ExecState == {"idle", "waiting", "answered", "done"}
Writer    == [pump : Pump, keys : SUBSET Record, nil : BOOLEAN,
              todo : SUBSET Record, phase : {"filter", "write", "send"}]
FirstVisit == <<FirstShard, 1>>
LastVisit  == <<NumShards, 1>>            \* the loop over shards has ended
Visit      == (FirstShard .. (NumShards - 1)) \X (1 .. 2) \cup {LastVisit}

Init ==
  /\ home = [r \in Record |-> NoKey]
  /\ store = [k \in Key |-> {}]
  /\ armed = {}
  /\ pc = "tick"
  /\ visit = FirstVisit
  /\ batch = {}
  /\ exec = [p \in Pump |-> "idle"]
  /\ writers = {}
  /\ copies = [s \in Sink |-> [r \in Record |-> 0]]
  /\ failed = [s \in Sink |-> {}]
  /\ dropped = {}
  /\ sent = {}
  /\ signalled = FALSE
  /\ closing = {}
  /\ closed = {}
  /\ faults = 0
  /\ restarts = 0

Fault(kind) == kind \in FaultKinds /\ faults < MaxFaults /\ faults' = faults + 1

-----------------------------------------------------------------------------
(* The gateway and the storage server.                                      *)

GatewayPush(r, k) ==
  /\ home[r] = NoKey
  /\ \A q \in Record : q < r => home[q] # NoKey
  /\ home' = [home EXCEPT ![r] = k]
  /\ store' = [store EXCEPT ![k] = @ \cup {r}]
  /\ UNCHANGED <<armed, loop, exec, writers, copies, history,
                 signalled, closing, closed, faults, restarts>>

(* The TTL that an earlier visit set runs out and the list is deleted.      *)
ListExpires(k) ==
  /\ k \in armed
  /\ dropped' = dropped \cup store[k]
  /\ store' = [store EXCEPT ![k] = {}]
  /\ armed' = armed \ {k}
  /\ UNCHANGED <<home, loop, exec, writers, copies, failed, sent,
                 signalled, closing, closed, faults, restarts>>

-----------------------------------------------------------------------------
(* GetAndDeleteSet, called once per visit.                                  *)

CurrentKey ==
  IF visit = LastVisit
  THEN UptimeKey
  ELSE [shard |-> visit[1], suffix |-> KeySuffix(visit[2])]

(* Mistake: the chunk is taken from the end the gateway pushes to.          *)
PoppedNewest(k) ==
  {r \in store[k] :
     PurgeChunk # 0 => Cardinality({q \in store[k] : q >= r}) <= PurgeChunk}

(* The head of a list: all of it, or its PurgeChunk oldest records.         *)
Popped(k) ==
  {r \in store[k] :
     PurgeChunk # 0 => Cardinality({q \in store[k] : q <= r}) <= PurgeChunk}

AfterVisit(v) ==
  IF v[2] < Len(AnalyticsSerializers) THEN <<v[1], v[2] + 1>> ELSE <<v[1] + 1, 1>>

(* The visit is over: the next key, or checkShutdown after the uptime key.  *)
EndVisit ==
  /\ batch' = {}
  /\ IF visit = LastVisit
     THEN pc' = "check" /\ UNCHANGED visit
     ELSE pc' = "pop" /\ visit' = AfterVisit(visit)

Tick ==
  /\ pc = "tick"
  /\ pc' = "pop"
  /\ visit' = FirstVisit
  /\ UNCHANGED <<storage, batch, exec, writers, copies, history,
                 signalled, closing, closed, faults, restarts>>

SkipUptime ==
  /\ pc = "pop" /\ visit = LastVisit /\ DontPurgeUptimeData
  /\ pc' = "check"
  /\ UNCHANGED <<storage, visit, batch, exec, writers, copies, history,
                 signalled, closing, closed, faults, restarts>>

Visiting == pc = "pop" /\ (visit = LastVisit => ~DontPurgeUptimeData)

(* Mistake: the list is trimmed one element short of what was read.         *)
TakeHeadShort(k) ==
  /\ store' = [store EXCEPT ![k] =
                 @ \ {r \in Popped(k) : \E q \in Popped(k) : r < q}]
  /\ armed' = IF store'[k] = {} THEN armed \ {k} ELSE armed

TakeHead(k) ==
  /\ store' = [store EXCEPT ![k] = @ \ Popped(k)]
  /\ armed' = IF store'[k] = {} THEN armed \ {k} ELSE armed

Pop ==
  /\ Visiting
  /\ batch' = Popped(CurrentKey)
  /\ TakeHead(CurrentKey)
  /\ pc' = IF PurgeChunk # 0 THEN "expire" ELSE "decode"
  /\ UNCHANGED <<home, visit, exec, writers, copies, history,
                 signalled, closing, closed, faults, restarts>>

(* Pop returns an error: it is logged and the visit ends.                   *)
PopFails ==
  /\ Visiting
  /\ Fault("pop")
  /\ EndVisit
  /\ UNCHANGED <<storage, exec, writers, copies, history,
                 signalled, closing, closed, restarts>>

(* Pop returns an error although the server executed it.                    *)
PopReplyLost ==
  /\ Visiting
  /\ Fault("lostReply")
  /\ TakeHead(CurrentKey)
  /\ dropped' = dropped \cup Popped(CurrentKey)
  /\ EndVisit
  /\ UNCHANGED <<home, exec, writers, copies, failed, sent,
                 signalled, closing, closed, restarts>>

(* Expire on a key that does not exist does nothing.                        *)
Expire ==
  /\ pc = "expire"
  /\ armed' = IF store[CurrentKey] = {} THEN armed ELSE armed \cup {CurrentKey}
  /\ pc' = "decode"
  /\ UNCHANGED <<home, store, visit, batch, exec, writers, copies, history,
                 signalled, closing, closed, faults, restarts>>

(* Mistake: the whole of GetAndDeleteSet is tried again.                    *)
ExpireFailsRetried ==
  /\ pc = "expire"
  /\ Fault("expire")
  /\ pc' = "pop"
  /\ UNCHANGED <<storage, visit, batch, exec, writers, copies, history,
                 signalled, closing, closed, restarts>>

(* Expire returns an error: GetAndDeleteSet returns nil instead of what it  *)
(* has popped.                                                              *)
ExpireFails ==
  /\ pc = "expire"
  /\ Fault("expire")
  /\ dropped' = dropped \cup batch
  /\ EndVisit
  /\ UNCHANGED <<storage, exec, writers, copies, failed, sent,
                 signalled, closing, closed, restarts>>

-----------------------------------------------------------------------------
(* PreprocessAnalyticsValues and writeToPumps.  A value that does not       *)
(* decode stays in the slice as a nil key.                                  *)

Decodes(r) ==
  /\ r \notin Corrupt
  /\ home[r].suffix = GetSuffix[AnalyticsSerializers[visit[2]]]

NothingPopped ==
  /\ pc = "decode" /\ visit # LastVisit /\ batch = {}
  /\ EndVisit
  /\ UNCHANGED <<storage, exec, writers, copies, history,
                 signalled, closing, closed, faults, restarts>>

(* The goroutine execPumpWriting starts for pump p, given the popped values. *)
NewWriter(p) ==
  LET decoded == {r \in batch : Decodes(r)}
  IN  [pump |-> p, keys |-> batch, nil |-> decoded # batch,
       todo |-> decoded, phase |-> "filter"]

(* Mistake: a pump that is still busy with an older chunk is passed over.   *)
writeToPumpsSkippingBusy ==
  /\ pc = "decode" /\ visit # LastVisit /\ batch # {}
  /\ pc' = "dispatch"
  /\ sent' = sent \cup batch
  /\ LET busy == {w.pump : w \in writers}
     IN  /\ exec' = [p \in Pump |-> IF p \in busy THEN "done" ELSE "waiting"]
         /\ writers' = writers \cup {NewWriter(p) : p \in Pump \ busy}
  /\ UNCHANGED <<storage, visit, batch, copies, failed, dropped,
                 signalled, closing, closed, faults, restarts>>

writeToPumps ==
  /\ pc = "decode" /\ visit # LastVisit /\ batch # {}
  /\ pc' = "dispatch"
  /\ sent' = sent \cup batch
  /\ exec' = [p \in Pump |-> "waiting"]
  /\ writers' = writers \cup {NewWriter(p) : p \in Pump}
  /\ UNCHANGED <<storage, visit, batch, copies, failed, dropped,
                 signalled, closing, closed, faults, restarts>>

(* wg.Wait returns: every execPumpWriting has called wg.Done.               *)
AllDone == \A p \in Pump : exec[p] = "done"

(* Mistake: the loop goes on without wg.Wait.                               *)
WaitSkipped ==
  /\ pc = "dispatch"
  /\ exec' = [p \in Pump |-> "idle"]
  /\ EndVisit
  /\ UNCHANGED <<storage, writers, copies, history,
                 signalled, closing, closed, faults, restarts>>

WaitReturns ==
  /\ pc = "dispatch"
  /\ AllDone
  /\ exec' = [p \in Pump |-> "idle"]
  /\ EndVisit
  /\ UNCHANGED <<storage, writers, copies, history,
                 signalled, closing, closed, faults, restarts>>

(* WriteUptimeData is called on the loop's own goroutine, without timeout.  *)
WriteUptimeData(A) ==
  /\ pc = "decode" /\ visit = LastVisit
  /\ A \subseteq batch \ Corrupt
  /\ UptimePump \notin Flaky => A = batch \ Corrupt
  /\ copies' = [copies EXCEPT ![UptimePump] =
                  [r \in Record |-> IF r \in A THEN @[r] + 1 ELSE @[r]]]
  /\ failed' = [failed EXCEPT ![UptimePump] = @ \cup (batch \ (A \cup Corrupt))]
  /\ sent' = sent \cup batch
  /\ EndVisit
  /\ UNCHANGED <<storage, exec, writers, dropped,
                 signalled, closing, closed, faults, restarts>>

-----------------------------------------------------------------------------
(* execPumpWriting and the goroutine it starts.                             *)

(* execPumpWriting has not returned, so its deferred cancel has not run.    *)
Awaited(w) == pc = "dispatch" /\ w.keys = batch /\ exec[w.pump] = "waiting"

Become(w, v) == writers' = (writers \ {w}) \cup {v}

(* Mistake: the test of ShouldFilter is inverted.                           *)
filterDataInverted(w) ==
  /\ w.phase = "filter"
  /\ ~(w.pump \in Configured /\ w.nil)
  /\ Become(w, [w EXCEPT !.phase = "write",
                  !.todo = IF w.pump \in Configured THEN @ \cap Blocked[w.pump] ELSE @])
  /\ UNCHANGED <<storage, loop, exec, copies, history,
                 signalled, closing, closed, faults, restarts>>

(* filterData; its type assertion fails on a nil key.                       *)
filterData(w) ==
  /\ w.phase = "filter"
  /\ ~(w.pump \in Configured /\ w.nil)
  /\ Become(w, [w EXCEPT !.phase = "write",
                  !.todo = IF w.pump \in Configured THEN @ \ Blocked[w.pump] ELSE @])
  /\ UNCHANGED <<storage, loop, exec, copies, history,
                 signalled, closing, closed, faults, restarts>>

(* Mistake: a record is written again when its answer is slow.              *)
WriteRecordAgain(w, r) ==
  /\ w.phase = "write"
  /\ r \in w.todo
  /\ copies' = [copies EXCEPT ![w.pump][r] = @ + 1]
  /\ Become(w, IF Awaited(w) THEN [w EXCEPT !.todo = @ \ {r}] ELSE w)
  /\ UNCHANGED <<storage, loop, exec, history,
                 signalled, closing, closed, faults, restarts>>

(* WriteData gets one more record into the backend.  Not every pump keeps   *)
(* the order of the slice: some write its parts concurrently or sort them.  *)
WriteRecord(w, r) ==
  /\ w.phase = "write"
  /\ r \in w.todo
  /\ copies' = [copies EXCEPT ![w.pump][r] = @ + 1]
  /\ Become(w, [w EXCEPT !.todo = @ \ {r}])
  /\ UNCHANGED <<storage, loop, exec, history,
                 signalled, closing, closed, faults, restarts>>

(* WriteData returns.  It may leave records unwritten when the backend      *)
(* fails or when its context is over.                                       *)
WriteReturns(w) ==
  /\ w.phase = "write"
  /\ w.todo # {} => w.pump \in Flaky \/ ~Awaited(w)
  /\ (w.pump \in Strict /\ w.nil) => w.todo # {}
  /\ failed' = [failed EXCEPT ![w.pump] = @ \cup w.todo]
  /\ Become(w, [w EXCEPT !.todo = {}, !.phase = "send"])
  /\ UNCHANGED <<storage, loop, exec, copies, dropped, sent,
                 signalled, closing, closed, faults, restarts>>

(* The goroutine sends the result on its channel and ends.                  *)
(* Mistake: an unbuffered channel.                                          *)
ChannelUnbuffered == 0

ChannelCapacity == 1

SendResult(w) ==
  /\ w.phase = "send"
  /\ Awaited(w) \/ ChannelCapacity > 0
  /\ exec' = IF Awaited(w) THEN [exec EXCEPT ![w.pump] = "answered"] ELSE exec
  /\ writers' = writers \ {w}
  /\ UNCHANGED <<storage, loop, copies, history,
                 signalled, closing, closed, faults, restarts>>

ReceiveResult(p) ==
  /\ exec[p] = "answered"
  /\ exec' = [exec EXCEPT ![p] = "done"]
  /\ UNCHANGED <<storage, loop, writers, copies, history,
                 signalled, closing, closed, faults, restarts>>

(* The context's deadline passes before, or together with, the result.      *)
DeadlineExceeded(p) ==
  /\ p \in Timed
  /\ exec[p] \in {"waiting", "answered"}
  /\ exec' = [exec EXCEPT ![p] = "done"]
  /\ UNCHANGED <<storage, loop, writers, copies, history,
                 signalled, closing, closed, faults, restarts>>

-----------------------------------------------------------------------------
(* Shutdown, crash and restart of the process.                              *)

Signal ==
  /\ pc # "down"
  /\ ~signalled
  /\ signalled' = TRUE
  /\ UNCHANGED <<storage, loop, exec, writers, copies, history,
                 closing, closed, faults, restarts>>

(* Mistake: the signal is noticed while writeToPumps still waits.           *)
checkShutdownEarly ==
  /\ pc = "check" \/ (pc = "dispatch" /\ signalled)
  /\ pc' = IF signalled THEN "shutdown" ELSE "tick"
  /\ UNCHANGED <<storage, visit, batch, exec, writers, copies, history,
                 signalled, closing, closed, faults, restarts>>

(* Mistake: the shutdown is put off until abandoned goroutines have ended.  *)
checkShutdownWaits ==
  /\ pc = "check"
  /\ pc' = IF signalled /\ writers = {} THEN "shutdown" ELSE "tick"
  /\ UNCHANGED <<storage, visit, batch, exec, writers, copies, history,
                 signalled, closing, closed, faults, restarts>>

checkShutdown ==
  /\ pc = "check"
  /\ pc' = IF signalled THEN "shutdown" ELSE "tick"
  /\ UNCHANGED <<storage, visit, batch, exec, writers, copies, history,
                 signalled, closing, closed, faults, restarts>>

(* Shutdown is called on one pump after the other, on the loop's own        *)
(* goroutine and without a timeout.                                         *)
ShutdownPump(p) ==
  /\ pc = "shutdown"
  /\ closing = {} /\ p \notin closed
  /\ closing' = {p}
  /\ closed' = closed \cup {p}
  /\ UNCHANGED <<storage, loop, exec, writers, copies, history,
                 signalled, faults, restarts>>

ShutdownReturns(p) ==
  /\ p \in closing
  /\ closing' = {}
  /\ UNCHANGED <<storage, loop, exec, writers, copies, history,
                 signalled, closed, faults, restarts>>

ShutdownDone ==
  /\ pc = "shutdown"
  /\ closing = {} /\ closed = Pump
  /\ pc' = "stopped"
  /\ UNCHANGED <<storage, visit, batch, exec, writers, copies, history,
                 signalled, closing, closed, faults, restarts>>

(* The process ends: all of its memory and goroutines are gone.             *)
Die ==
  /\ pc' = "down"
  /\ visit' = FirstVisit
  /\ batch' = {}
  /\ exec' = [p \in Pump |-> "idle"]
  /\ writers' = {}
  /\ failed' = [s \in Sink |-> failed[s] \cup
                  UNION {w.todo : w \in {v \in writers : v.pump = s}}]
  /\ dropped' = IF pc = "dispatch" THEN dropped ELSE dropped \cup batch
  /\ signalled' = FALSE
  /\ closing' = {}
  /\ closed' = {}
  /\ UNCHANGED <<storage, copies, sent, restarts>>

Exit == pc = "stopped" /\ Die /\ UNCHANGED faults       \* main returns

Kill == pc # "down" /\ Fault("kill") /\ Die

(* A nil key fails the type assertion of filterData or of the pump.         *)
Panic(w) ==
  /\ w.nil
  /\ \/ w.phase = "filter" /\ w.pump \in Configured
     \/ w.phase = "write" /\ w.pump \in Strict
  /\ Die
  /\ UNCHANGED faults

Restart ==
  /\ pc = "down"
  /\ restarts < MaxRestarts
  /\ restarts' = restarts + 1
  /\ pc' = "tick"
  /\ UNCHANGED <<storage, visit, batch, exec, writers, copies, history,
                 signalled, closing, closed, faults>>

-----------------------------------------------------------------------------
LoopStep ==
  \/ Tick \/ SkipUptime \/ Pop \/ PopFails \/ PopReplyLost
  \/ Expire \/ ExpireFails \/ NothingPopped \/ writeToPumps \/ WaitReturns
  \/ checkShutdown \/ ShutdownDone \/ Exit
  \/ \E p \in Pump : ShutdownPump(p)

UptimeStep == \E A \in SUBSET batch : WriteUptimeData(A)

WriterStep(p) ==
  \E w \in writers :
    /\ w.pump = p
    /\ \/ filterData(w)
       \/ \E r \in w.todo : WriteRecord(w, r)
       \/ WriteReturns(w)
       \/ SendResult(w)
       \/ Panic(w)

ExecStep(p) == ReceiveResult(p) \/ DeadlineExceeded(p)

Environment ==
  \/ \E r \in Record, k \in Key : GatewayPush(r, k)
  \/ \E k \in Key : ListExpires(k)
  \/ Signal \/ Kill \/ Restart

Next ==
  \/ LoopStep
  \/ UptimeStep
  \/ \E p \in Pump : WriterStep(p) \/ ExecStep(p) \/ ShutdownReturns(p)
  \/ Environment

Spec == Init /\ [][Next]_vars

SendStep(p) == \E w \in writers : w.pump = p /\ SendResult(w)

(* The Go scheduler runs every goroutine that can run, timers fire, and a   *)
(* backend that is not stuck answers a write and lets a Shutdown return.    *)
Fairness ==
  /\ WF_vars(LoopStep)
  /\ UptimePump \notin Stuck => WF_vars(UptimeStep)
  /\ \A p \in Pump : WF_vars(ExecStep(p)) /\ WF_vars(SendStep(p))
  /\ \A p \in Pump \ Stuck : WF_vars(WriterStep(p)) /\ WF_vars(ShutdownReturns(p))

FairSpec == Spec /\ Fairness

-----------------------------------------------------------------------------
(* Invariants.                                                              *)

TypeOK ==
  /\ home \in [Record -> Key \cup {NoKey}]
  /\ store \in [Key -> SUBSET Record]
  /\ armed \in SUBSET Key
  /\ pc \in Location
  /\ visit \in Visit
  /\ batch \in SUBSET Record
  /\ exec \in [Pump -> ExecState]
  /\ writers \in SUBSET Writer
  /\ copies \in [Sink -> [Record -> Nat]]
  /\ failed \in [Sink -> SUBSET Record]
  /\ dropped \in SUBSET Record
  /\ sent \in SUBSET Record
  /\ signalled \in BOOLEAN
  /\ closing \in SUBSET Pump
  /\ closed \in SUBSET Pump
  /\ faults \in 0 .. MaxFaults
  /\ restarts \in 0 .. MaxRestarts

InList(r) == home[r] # NoKey /\ r \in store[home[r]]

(* What the loop has popped and not yet handed on.                          *)
Held == IF pc \in {"expire", "decode"} THEN batch ELSE {}

(* Every record the gateway pushed is in exactly one place: its list, the   *)
(* loop's hands, handed to the pumps, or lost for a reason the code knows   *)
(* (TTL, failed Expire, lost reply, death of the process).  GetAndDeleteSet *)
(* neither leaves behind nor swallows a record at the chunk boundary.       *)
Accounted ==
  \A r \in Record :
    /\ home[r] # NoKey <=> InList(r) \/ r \in Held \cup sent \cup dropped
    /\ InList(r) => r \notin Held \cup sent \cup dropped
    /\ r \in Held => r \notin sent \cup dropped
    /\ r \in sent => r \notin dropped

(* A backend receives a record at most once, whatever timeouts, abandoned   *)
(* goroutines, crashes and restarts do (writeToPumps, execPumpWriting).     *)
AtMostOnce == \A s \in Sink, r \in Record : copies[s][r] <= 1

(* writeToPumps skips no pump: each pump has written a dispatched record,   *)
(* rejected it, lost it to an error, or is still going to write it.         *)
Settled(p, r) ==
  \/ copies[p][r] > 0
  \/ p \in Configured /\ r \in Blocked[p]
  \/ r \in Corrupt
  \/ r \in failed[p]
  \/ \E w \in writers : w.pump = p /\ r \in w.todo

FanOut ==
  \A r \in sent :
    IF home[r] = UptimeKey
    THEN copies[UptimePump][r] > 0 \/ r \in failed[UptimePump] \cup Corrupt
    ELSE \A p \in Pump : Settled(p, r)

(* Two WriteData of a pump without timeout never run at the same time: the  *)
(* pumps rely on it, most of them keep unguarded state.                     *)
UntimedSequential ==
  \A v, w \in writers : v.pump = w.pump /\ v.pump \notin Timed => v = w

(* Shutdown of a pump without timeout finds none of its goroutines running. *)
ShutdownQuiet == \A w \in writers : w.pump \in closed => w.pump \in Timed

(* main.go:545, "wait till all the pumps finish": when wg.Wait returns and  *)
(* the process stops, no pump is still writing.                             *)
AllPumpsFinished == pc = "stopped" => writers = {}

(* Action property: a pump without timeout gets the slices of a list in the *)
(* order the gateway pushed them, over chunks, passes and restarts: when it *)
(* gets a record, it has a newer one of that list only from the same slice. *)
TakesOldestFirst ==
  \A p \in Pump \ Timed, r \in Record :
    copies'[p][r] > copies[p][r] =>
      \A q \in Record : home[q] = home[r] /\ q > r =>
        copies[p][q] = 0 \/ \E w \in writers : w.pump = p /\ {q, r} \subseteq w.keys

OldestFirst == [][TakesOldestFirst]_vars

-----------------------------------------------------------------------------
(* The loop implements Delivery: the lists are its queues, and the records  *)
(* in the loop's hands or handed to the pumps are the taken ones.           *)

Promise == INSTANCE Delivery WITH
  Queue <- Key, queue <- store, taken <- Held \cup sent, lost <- dropped

(* Every step of the loop, of the goroutines it starts and abandons, of the *)
(* storage and of a dying process is one that Delivery allows.              *)
Delivers == Promise!Spec

-----------------------------------------------------------------------------
(* Liveness, under FairSpec.                                                *)

Over == signalled \/ pc = "down"

(* Every list the gateway writes is read: a record leaves its list unless   *)
(* the pump is told to stop (the loop over shards and serializers).         *)
Purged(k) == k = UptimeKey => ~DontPurgeUptimeData

EveryRecordCollected ==
  \A r \in Record : InList(r) /\ Purged(home[r]) ~> ~InList(r) \/ Over

(* A healthy pump gets what was dispatched even when another pump never     *)
(* answers (execPumpWriting isolates the pumps from each other).            *)
HealthyPumpServed ==
  \A p \in Pump \ (Stuck \cup Flaky \cup Timed), r \in Record :
    r \in sent /\ home[r] # UptimeKey ~>
      \/ copies[p][r] > 0
      \/ p \in Configured /\ r \in Blocked[p]
      \/ r \in Corrupt
      \/ pc = "down"

(* A goroutine whose WriteData has returned ends, also after it was         *)
(* abandoned: the channel of execPumpWriting has room for a result nobody   *)
(* reads.                                                                   *)
WritersEnd ==
  \A p \in Pump : []<>(\A w \in writers : w.pump = p => w.phase # "send")

(* A signal stops the process, next to goroutines that never return, unless *)
(* it hangs in the Shutdown of a pump whose backend does not answer.        *)
ShutdownCompletes == signalled ~> pc = "down" \/ closing \cap Stuck # {}

=============================================================================
