------------------------------ MODULE Resurface ------------------------------
(***************************************************************************)
(* The Resurface pump (pumps/resurface.go).  WriteData only puts a chunk   *)
(* into a queue, from which a worker hands its records to the HTTP logger. *)
(* Flush, which Shutdown calls, makes WriteData close the queue, waits for *)
(* the worker and starts over with a new queue and a new worker.           *)
(*                                                                         *)
(* WriteData is called by the goroutines of execPumpWriting, one chunk     *)
(* after the other; if the pump has a timeout a call may be left behind    *)
(* and run next to the following ones and next to Flush.  The field        *)
(* "enabled" is read and written without a lock.  A channel operand is     *)
(* evaluated before the operation blocks on it.                            *)
(***************************************************************************)
EXTENDS Integers, Sequences, FiniteSets, SequencesExt

CONSTANTS
  Capacity,    \* of a queue, 5 in the code
  MaxChunks,   \* bound: chunks the purge loop writes
  MaxFlushes,  \* bound: calls of Flush
  MaxBehind    \* bound: calls left behind that have not returned

ASSUME ResurfaceAssumption ==
  /\ Capacity \in Nat \ {0}
  /\ MaxChunks \in Nat
  /\ MaxFlushes \in Nat
  /\ MaxBehind \in Nat

Chunk  == 1 .. MaxChunks
Gen    == 1 .. MaxFlushes + 1
Flush  == 0                      \* the call of WriteData that Flush makes
Caller == Chunk \cup {Flush}
None   == 0

VARIABLES
  timed,     \* whether the pump has a timeout
  stuck,     \* whether the logger may never take a chunk
  enabled,   \* rp.enabled
  gen,       \* rp.data: the number of the current queue
  queue,     \* [Gen -> Seq(Chunk)]
  open,      \* the queues that are not closed
  worker,    \* [Gen -> state of the worker of that queue]
  held,      \* [Gen -> the chunk its worker is writing]
  call,      \* [Caller -> [at, q, peek]]: where a WriteData is
  over,      \* the chunks whose context is over
  main,      \* what the purge loop does
  next,      \* the chunk it writes
  sent,      \* history: chunks sent to a queue, in this order
  written,   \* history: chunks written by a worker, in this order
  moved,     \* history: chunks received by WriteData
  panicked   \* the process died of a panic

queues  == <<gen, queue, open>>
workers == <<worker, held>>
history == <<sent, written, moved>>
config  == <<timed, stuck>>
vars    == <<config, enabled, queues, workers, call, over, main, next, history, panicked>>

Absent == [at |-> "none", q |-> None, peek |-> None]

ResurfaceInit ==
  /\ timed \in BOOLEAN
  /\ stuck \in BOOLEAN
  /\ enabled = TRUE
  /\ gen = 1
  /\ queue = [g \in Gen |-> <<>>]
  /\ open = {1}
  /\ worker = [g \in Gen |-> IF g = 1 THEN "idle" ELSE "none"]
  /\ held = [g \in Gen |-> None]
  /\ call = [c \in Caller |-> Absent]
  /\ over = {}
  /\ main = "idle"
  /\ next = 0
  /\ sent = <<>>
  /\ written = <<>>
  /\ moved = {}
  /\ panicked = FALSE

At(c, where)   == call[c].at = where
Goes(c, where) == call' = [call EXCEPT ![c].at = where]

Panics ==
  panicked' = TRUE /\ UNCHANGED <<config, enabled, queues, workers, call, over, main, next, history>>

-----------------------------------------------------------------------------
(* The worker of queue g: writeData.                                        *)

TakeChunk(g) ==
  /\ worker[g] = "idle" /\ queue[g] # <<>>
  /\ worker' = [worker EXCEPT ![g] = "busy"]
  /\ held' = [held EXCEPT ![g] = Head(queue[g])]
  /\ queue' = [queue EXCEPT ![g] = Tail(@)]
  /\ UNCHANGED <<config, enabled, gen, open, call, over, main, next, history, panicked>>

(* The records of the chunk that have raw data are sent to the logger.      *)
FinishChunk(g) ==
  /\ worker[g] = "busy"
  /\ written' = Append(written, held[g])
  /\ worker' = [worker EXCEPT ![g] = "idle"]
  /\ held' = [held EXCEPT ![g] = None]
  /\ UNCHANGED <<config, enabled, queues, call, over, main, next, sent, moved, panicked>>

(* The queue is closed and empty: range ends, wg.Done.                      *)
End(g) ==
  /\ worker[g] = "idle" /\ queue[g] = <<>> /\ g \notin open
  /\ worker' = [worker EXCEPT ![g] = "done"]
  /\ UNCHANGED <<held, config, enabled, queues, call, over, main, next, history, panicked>>

-----------------------------------------------------------------------------
(* WriteData.                                                               *)

ReadEnabled(c) ==
  /\ At(c, "start")
  /\ Goes(c, IF enabled THEN "send" ELSE "peek")
  /\ UNCHANGED <<config, enabled, queues, workers, over, main, next, history, panicked>>

(* The operand rp.data of a send is evaluated; from here on it may block.   *)
Evaluate(c) ==
  /\ call[c].at \in {"send", "putBack"} /\ call[c].q = None
  /\ call' = [call EXCEPT ![c].q = gen]
  /\ UNCHANGED <<config, enabled, queues, workers, over, main, next, history, panicked>>

Sendable(g) == g \in open /\ Len(queue[g]) < Capacity

SendChunk(c) ==
  /\ At(c, "send") /\ Sendable(call[c].q)
  /\ queue' = [queue EXCEPT ![call[c].q] = Append(@, c)]
  /\ sent' = Append(sent, c)
  /\ Goes(c, "returned")
  /\ UNCHANGED <<config, enabled, gen, open, workers, over, main, next, written, moved, panicked>>

GiveUp(c) ==
  /\ At(c, "send") /\ call[c].q # None /\ c \in over
  /\ Goes(c, "returned")
  /\ UNCHANGED <<config, enabled, queues, workers, over, main, next, history, panicked>>

SendOnClosed(c) ==
  /\ call[c].at \in {"send", "putBack"} /\ call[c].q # None
  /\ call[c].q \notin open
  /\ Panics

(* The pump is disabled: the queue is looked at and closed.                 *)
Receive(c) ==
  /\ At(c, "peek") /\ queue[gen] # <<>>
  /\ queue' = [queue EXCEPT ![gen] = Tail(@)]
  /\ call' = [call EXCEPT ![c] = [at |-> "putBack", q |-> None, peek |-> Head(queue[gen])]]
  /\ moved' = moved \cup {Head(queue[gen])}
  /\ UNCHANGED <<config, enabled, gen, open, workers, over, main, next, sent, written, panicked>>

ReceiveFromClosed(c) ==
  /\ At(c, "peek") /\ queue[gen] = <<>> /\ gen \notin open
  /\ Goes(c, "returned")
  /\ UNCHANGED <<config, enabled, queues, workers, over, main, next, history, panicked>>

(* The default of the select, or its ctx.Done.                              *)
NothingToReceive(c) ==
  /\ At(c, "peek")
  /\ (queue[gen] = <<>> /\ gen \in open) \/ c \in over
  /\ Goes(c, "close")
  /\ UNCHANGED <<config, enabled, queues, workers, over, main, next, history, panicked>>

(* Mistake: the chunk that was received is not sent back.                   *)
PutBackForgotten(c) ==
  /\ At(c, "putBack") /\ Sendable(call[c].q)
  /\ call' = [call EXCEPT ![c] = [at |-> "close", q |-> None, peek |-> None]]
  /\ UNCHANGED <<config, enabled, queues, workers, over, main, next, history, panicked>>

PutBack(c) ==
  /\ At(c, "putBack") /\ Sendable(call[c].q)
  /\ queue' = [queue EXCEPT ![call[c].q] = Append(@, call[c].peek)]
  /\ call' = [call EXCEPT ![c] = [at |-> "close", q |-> None, peek |-> None]]
  /\ UNCHANGED <<config, enabled, gen, open, workers, over, main, next, history, panicked>>

(* Mistake: the queue is left open.                                         *)
CloseForgotten(c) ==
  /\ At(c, "close") /\ gen \in open
  /\ Goes(c, "returned")
  /\ UNCHANGED <<config, enabled, queues, workers, over, main, next, history, panicked>>

Close(c) ==
  /\ At(c, "close") /\ gen \in open
  /\ open' = open \ {gen}
  /\ Goes(c, "returned")
  /\ UNCHANGED <<config, enabled, gen, queue, workers, over, main, next, history, panicked>>

CloseClosed(c) ==
  /\ At(c, "close") /\ gen \notin open
  /\ Panics

-----------------------------------------------------------------------------
(* The purge loop: execPumpWriting chunk by chunk, and Flush.               *)

StartWrite ==
  /\ main = "idle" /\ next < MaxChunks
  /\ Cardinality({c \in over : ~At(c, "returned")}) < MaxBehind
  /\ next' = next + 1
  /\ Goes(next', "start")
  /\ main' = "writing"
  /\ UNCHANGED <<config, enabled, queues, workers, over, history, panicked>>

Deadline ==
  /\ timed /\ main = "writing"
  /\ over' = over \cup {next}
  /\ main' = "idle"
  /\ UNCHANGED <<config, enabled, queues, workers, call, next, history, panicked>>

WriteDone ==
  /\ main = "writing" /\ At(next, "returned")
  /\ over' = over \cup {next}
  /\ main' = "idle"
  /\ UNCHANGED <<config, enabled, queues, workers, call, next, history, panicked>>

BeginFlush ==
  /\ main = "idle" /\ gen <= MaxFlushes
  /\ enabled' = FALSE
  /\ Goes(Flush, "start")
  /\ main' = "flushing"
  /\ UNCHANGED <<config, queues, workers, over, next, history, panicked>>

AllWorkersDone == \A g \in Gen : worker[g] \in {"none", "done"}

(* initWorker up to the start of the worker.                                *)
NewWorker ==
  /\ gen' = gen + 1
  /\ open' = open \cup {gen'}
  /\ worker' = [worker EXCEPT ![gen'] = "idle"]
  /\ call' = [call EXCEPT ![Flush] = Absent]
  /\ main' = "enabling"
  /\ UNCHANGED <<held, config, enabled, queue, over, next, history, panicked>>

WorkersDone == main = "flushing" /\ At(Flush, "returned") /\ AllWorkersDone /\ NewWorker

(* Mistake: initWorker keeps the queue that was closed.                     *)
EnableClosed ==
  /\ main = "enabling"
  /\ enabled' = TRUE
  /\ open' = open \ {gen}
  /\ main' = "idle"
  /\ UNCHANGED <<config, gen, queue, workers, call, over, next, history, panicked>>

Enable ==
  /\ main = "enabling"
  /\ enabled' = TRUE
  /\ main' = "idle"
  /\ UNCHANGED <<config, queues, workers, call, over, next, history, panicked>>

WorkerStep(g) == TakeChunk(g) \/ FinishChunk(g) \/ End(g)

WriteDataStep(c) ==
  \/ ReadEnabled(c) \/ Evaluate(c) \/ SendChunk(c) \/ GiveUp(c) \/ SendOnClosed(c)
  \/ Receive(c) \/ ReceiveFromClosed(c) \/ NothingToReceive(c)
  \/ PutBack(c) \/ Close(c) \/ CloseClosed(c)

LoopStep == WriteDone \/ WorkersDone \/ Enable

Next ==
  /\ ~panicked
  /\ \/ \E g \in Gen : WorkerStep(g)
     \/ \E c \in Caller : WriteDataStep(c)
     \/ LoopStep \/ StartWrite \/ Deadline \/ BeginFlush

Spec == ResurfaceInit /\ [][Next]_vars

(* Every goroutine that can run does, timers fire, and a logger that is not *)
(* stuck takes what it is given.                                            *)
FairSpec ==
  /\ Spec
  /\ \A g \in Gen : WF_vars(~panicked /\ ~stuck /\ WorkerStep(g))
  /\ \A c \in Caller : WF_vars(~panicked /\ WriteDataStep(c))
  /\ WF_vars(~panicked /\ LoopStep)
  /\ WF_vars(~panicked /\ Deadline)

-----------------------------------------------------------------------------
TypeOK ==
  /\ timed \in BOOLEAN
  /\ stuck \in BOOLEAN
  /\ enabled \in BOOLEAN
  /\ gen \in Gen
  /\ queue \in [Gen -> Seq(Chunk)]
  /\ \A g \in Gen : Len(queue[g]) <= Capacity
  /\ open \subseteq 1 .. gen
  /\ worker \in [Gen -> {"none", "idle", "busy", "done"}]
  /\ held \in [Gen -> Chunk \cup {None}]
  /\ call \in [Caller -> [at : {"none", "start", "send", "peek", "putBack", "close", "returned"},
                          q : Gen \cup {None}, peek : Chunk \cup {None}]]
  /\ over \subseteq 1 .. next
  /\ main \in {"idle", "writing", "flushing", "enabling"}
  /\ next \in Chunk \cup {0}
  /\ sent \in Seq(Chunk)
  /\ written \in Seq(Chunk)
  /\ moved \subseteq Chunk
  /\ panicked \in BOOLEAN

Sent == ToSet(sent)
Written  == ToSet(written)

InQueues(c) ==
  {p \in Gen \X (1 .. Capacity) : p[2] <= Len(queue[p[1]]) /\ queue[p[1]][p[2]] = c}
InHands(c)  == {g \in Gen : held[g] = c}
InCalls(c)  == {d \in Caller : call[d].peek = c}

(* Chunks are written in the order they were accepted; only a chunk that    *)
(* WriteData received and sent to the end of the queue is overtaken.        *)
InOrder ==
  \A m, n \in DOMAIN sent :
    m < n /\ sent[n] \in Written /\ sent[m] \notin moved =>
      \E k, l \in DOMAIN written :
        k < l /\ written[k] = sent[m] /\ written[l] = sent[n]

(* A chunk that WriteData accepted is in exactly one place until it has     *)
(* been written once: in a queue, with a worker, or with the WriteData that *)
(* looks at the queue before it closes it.  The order is kept (InOrder).    *)
Conserved ==
  /\ TypeOK
  /\ InOrder
  /\ \A c \in Chunk :
       Cardinality(InQueues(c)) + Cardinality(InHands(c)) + Cardinality(InCalls(c))
         + Cardinality({n \in DOMAIN written : written[n] = c})
       = IF c \in Sent THEN 1 ELSE 0

(* When Flush returns, every chunk accepted before it was called has been   *)
(* written; only a call left behind by its timeout can hold one back.       *)
FlushDrains ==
  main = "enabling" =>
    /\ \A g \in Gen \ {gen} : queue[g] = <<>> /\ held[g] = None
    /\ ~timed => Sent = Written

(* Without a timeout nobody sends to a closed queue or closes it again, and *)
(* a write that returned has been accepted. With or without one, a Flush    *)
(* that returns leaves nothing behind (FlushDrains).                        *)
UntimedSafe ==
  /\ FlushDrains
  /\ ~timed => ~panicked /\ \A c \in Chunk : At(c, "returned") => c \in Sent

(* The put-back of call c waits for room in a queue that others filled      *)
(* again behind the chunk it had received: it does not look at its context. *)
HeldUp(c) == At(c, "putBack") /\ call[c].q \in open /\ ~Sendable(call[c].q)

(* Every call ends. Flush does, also when the queue is full and when calls  *)
(* are left behind; a write does because the worker makes room, or the      *)
(* deadline frees it even when the logger takes nothing any more: but for a *)
(* put-back to a queue that is full again, which no deadline frees.         *)
CallsEnd ==
  /\ main = "flushing" ~> main = "enabling" \/ panicked \/ stuck
  /\ \A c \in Chunk :
       At(c, "start") ~> \/ At(c, "returned")
                         \/ panicked
                         \/ stuck /\ (~timed \/ HeldUp(c))

=============================================================================
