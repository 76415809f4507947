----------------------------- MODULE StatsdSink -----------------------------
(***************************************************************************)
(* The sink of the instrumentation (instrumentation_statsd_sink.go): every *)
(* operation is a command on one channel of cmdChanBuffSize places, read   *)
(* by the goroutine of loop(), which packs metrics into datagrams of at    *)
(* most maxUdpBytes.  Drain and Stop also wait on a channel without places *)
(* that all callers share; a ticker goroutine sends Flush commands.        *)
(*                                                                         *)
(* The program itself only emits (instrumentation_helpers.go); Drain and   *)
(* Stop are the exported operations of the sink.  A metric is the number   *)
(* of its command and a length; its text, the prefix buffers and the       *)
(* sanitising of names are left out.                                       *)
(***************************************************************************)
EXTENDS Integers, Sequences, FiniteSets, SequencesExt

CONSTANTS
  SinkCaller,      \* goroutines that use the sink
  Lengths,         \* the lengths of the metrics one emit makes: a set of sequences
  cmdChanBuffSize,
  maxUdpBytes,
  MaxCommands,     \* bound on the calls
  MaxTicks         \* bound on the Flush commands in the channel at a time

\* A metric has at least a colon and the letters of its type.
ASSUME SinkAssumption ==
  /\ Lengths \subseteq Seq(Nat \ {0})
  /\ {cmdChanBuffSize, maxUdpBytes, MaxCommands} \subseteq Nat

VARIABLES
  calling,    \* per caller: the command of its call, or Idle
  blocked,    \* per caller: still waiting for a place in the channel
  cmdChan,
  udpBuf,     \* metrics in the buffer
  datagrams,  \* the datagrams written
  loop,       \* "receive", "drain", "drained", "stopped" (waiting), "ended"
  ncommands,  \* calls made so far
  emitted,    \* the commands of the emits that are in the channel or beyond, in order
  due,        \* per caller in Drain: what was emitted before its call
  drained,    \* whether every Drain found, as it returned, its due metrics sent
  crossed     \* whether a Drain or Stop began while another was going on

sinkVars == <<calling, blocked, cmdChan, udpBuf, datagrams, loop, ncommands, emitted, due, drained, crossed>>

Idle == [kind |-> "none", id |-> 0, lengths |-> <<>>]
FlushCommand == [Idle EXCEPT !.kind = "flush"]

SinkInit ==
  /\ calling = [c \in SinkCaller |-> Idle] /\ blocked = [c \in SinkCaller |-> FALSE]
  /\ cmdChan = <<>> /\ udpBuf = <<>> /\ datagrams = <<>> /\ loop = "receive"
  /\ ncommands = 0 /\ emitted = <<>> /\ due = [c \in SinkCaller |-> <<>>]
  /\ drained = TRUE /\ crossed = FALSE

-----------------------------------------------------------------------------
(* The metrics of commands, and how they are packed.                        *)

Metrics(cmd) == [i \in DOMAIN cmd.lengths |-> [id |-> cmd.id, length |-> cmd.lengths[i]]]

Bytes(buf) ==
  LET sum[i \in 0 .. Len(buf)] == IF i = 0 THEN 0 ELSE sum[i - 1] + buf[i].length
  IN sum[Len(buf)]

\* flush: nothing is written for an empty buffer.
flush(out) == IF out.buf = <<>> THEN out ELSE [buf |-> <<>>, sent |-> Append(out.sent, out.buf)]

\* As writeStatsDMetric, of a sink that looks at the buffer only.
writeStatsDMetricTooLate(out, m) ==
  IF m.length > maxUdpBytes THEN out
  ELSE IF Bytes(out.buf) > maxUdpBytes
       THEN [buf |-> <<m>>, sent |-> Append(out.sent, out.buf)]
       ELSE [out EXCEPT !.buf = Append(@, m)]

writeStatsDMetric(out, m) ==
  IF m.length > maxUdpBytes THEN out
  ELSE IF m.length + Bytes(out.buf) > maxUdpBytes
       THEN [buf |-> <<m>>, sent |-> Append(out.sent, out.buf)]
       ELSE [out EXCEPT !.buf = Append(@, m)]

processCmd(out, cmd) ==
  LET ms == Metrics(cmd)
      done[i \in 0 .. Len(ms)] == IF i = 0 THEN out ELSE writeStatsDMetric(done[i - 1], ms[i])
  IN done[Len(ms)]

Out == [buf |-> udpBuf, sent |-> datagrams]
Put(out) == udpBuf' = out.buf /\ datagrams' = out.sent

-----------------------------------------------------------------------------
(* The callers.                                                             *)

Waits(c) == calling[c].kind \in {"drain", "stop"}

Call(c, cmd) ==
  /\ calling[c] = Idle
  /\ ncommands < MaxCommands
  /\ ncommands' = ncommands + 1
  /\ calling' = [calling EXCEPT ![c] = cmd]
  /\ blocked' = [blocked EXCEPT ![c] = TRUE]
  /\ UNCHANGED <<cmdChan, udpBuf, datagrams, loop, emitted, drained>>

Emit(c) ==
  \E lengths \in Lengths :
    /\ Call(c, [kind |-> "emit", id |-> ncommands + 1, lengths |-> lengths])
    /\ UNCHANGED <<due, crossed>>

DrainOrStop(c) ==
  \E kind \in {"drain", "stop"} :
    /\ Call(c, [Idle EXCEPT !.kind = kind])
    /\ due' = [due EXCEPT ![c] = emitted]
    /\ crossed' = (crossed \/ kind = "stop" \/ \E d \in SinkCaller : Waits(d))

\* The send on cmdChan; an emit returns with it.
SendCommand(c) ==
  /\ blocked[c]
  /\ Len(cmdChan) < cmdChanBuffSize
  /\ cmdChan' = Append(cmdChan, calling[c])
  /\ blocked' = [blocked EXCEPT ![c] = FALSE]
  /\ IF Waits(c) THEN UNCHANGED <<calling, emitted>>
     ELSE calling' = [calling EXCEPT ![c] = Idle] /\ emitted' = Append(emitted, calling[c])
  /\ UNCHANGED <<udpBuf, datagrams, loop, ncommands, due, drained, crossed>>

\* The ticker goroutine, until loop() stops the ticker.
Tick ==
  /\ loop # "ended"
  /\ Len(cmdChan) < cmdChanBuffSize
  /\ Len(SelectSeq(cmdChan, LAMBDA cmd : cmd = FlushCommand)) < MaxTicks
  /\ cmdChan' = Append(cmdChan, FlushCommand)
  /\ UNCHANGED <<calling, blocked, udpBuf, datagrams, loop, ncommands, emitted, due, drained, crossed>>

-----------------------------------------------------------------------------
(* loop().                                                                  *)

ReceiveCommand ==
  /\ loop = "receive" /\ cmdChan # <<>>
  /\ cmdChan' = Tail(cmdChan)
  /\ LET cmd == Head(cmdChan) IN
       /\ Put(IF cmd.kind = "emit" THEN processCmd(Out, cmd)
              ELSE IF cmd.kind = "flush" THEN flush(Out) ELSE Out)
       /\ loop' = IF cmd.kind = "drain" THEN "drain"
                  ELSE IF cmd.kind = "stop" THEN "stopped" ELSE loop
  /\ UNCHANGED <<calling, blocked, ncommands, emitted, due, drained, crossed>>

\* While it drains, every command goes to processCmd, which does nothing for
\* Flush, Drain and Stop.
DrainReceive ==
  /\ loop = "drain" /\ cmdChan # <<>>
  /\ cmdChan' = Tail(cmdChan)
  /\ Put(processCmd(Out, Head(cmdChan)))
  /\ UNCHANGED <<calling, blocked, loop, ncommands, emitted, due, drained, crossed>>

\* As DrainEmpty, of a loop that answers only when there was something to flush.
DrainEmptySilent ==
  /\ loop = "drain" /\ cmdChan = <<>>
  /\ Put(flush(Out))
  /\ loop' = IF udpBuf = <<>> THEN "receive" ELSE "drained"
  /\ UNCHANGED <<calling, blocked, cmdChan, ncommands, emitted, due, drained, crossed>>

DrainEmpty ==
  /\ loop = "drain" /\ cmdChan = <<>>
  /\ Put(flush(Out))
  /\ loop' = "drained"
  /\ UNCHANGED <<calling, blocked, cmdChan, ncommands, emitted, due, drained, crossed>>

SentIds == {m.id : m \in UNION {ToSet(datagrams[i]) : i \in DOMAIN datagrams}}
Fitting(cmds) == {cmd \in ToSet(cmds) : \E i \in DOMAIN cmd.lengths : cmd.lengths[i] <= maxUdpBytes}

\* Any caller of Drain whose command has been taken by the channel may receive.
DrainDone(c) ==
  /\ loop = "drained" /\ calling[c].kind = "drain" /\ ~blocked[c]
  /\ loop' = "receive"
  /\ calling' = [calling EXCEPT ![c] = Idle]
  /\ drained' = (drained /\ {cmd.id : cmd \in Fitting(due[c])} \subseteq SentIds)
  /\ due' = [due EXCEPT ![c] = <<>>]
  /\ UNCHANGED <<blocked, cmdChan, udpBuf, datagrams, ncommands, emitted, crossed>>

\* The loop ends with what is in the buffer and the channel.
StopDone(c) ==
  /\ loop = "stopped" /\ calling[c].kind = "stop" /\ ~blocked[c]
  /\ loop' = "ended"
  /\ calling' = [calling EXCEPT ![c] = Idle]
  /\ due' = [due EXCEPT ![c] = <<>>]
  /\ UNCHANGED <<blocked, cmdChan, udpBuf, datagrams, ncommands, emitted, drained, crossed>>

-----------------------------------------------------------------------------
SinkLoop == ReceiveCommand \/ DrainReceive \/ DrainEmpty \/ \E c \in SinkCaller : DrainDone(c) \/ StopDone(c)

SinkNext == \/ \E c \in SinkCaller : Emit(c) \/ DrainOrStop(c) \/ SendCommand(c)
            \/ Tick
            \/ SinkLoop

\* The scheduler runs the loop, senders get a free place in the order of their
\* arrival, and the ticker, at ten commands a second, does not keep a channel
\* from ever being found empty.
SinkFairness == /\ WF_sinkVars(SinkLoop)
                /\ SF_sinkVars(DrainEmpty)
                /\ \A c \in SinkCaller : SF_sinkVars(SendCommand(c))

-----------------------------------------------------------------------------
(* Properties.                                                              *)

SinkTypeOK ==
  /\ \A c \in SinkCaller : calling[c].kind \in {"none", "emit", "drain", "stop"} /\ blocked[c] \in BOOLEAN
  /\ Len(cmdChan) <= cmdChanBuffSize
  /\ loop \in {"receive", "drain", "drained", "stopped", "ended"}
  /\ ncommands \in 0..MaxCommands /\ crossed \in BOOLEAN

\* The metrics of a command that fit into a datagram.
Packable(cmd) ==
  LET ms == Metrics(cmd)
      kept[i \in 0 .. Len(ms)] ==
        IF i = 0 THEN <<>>
        ELSE IF ms[i].length > maxUdpBytes THEN kept[i - 1] ELSE Append(kept[i - 1], ms[i])
  IN kept[Len(ms)]

Of(cmds) == FlattenSeq([i \in DOMAIN cmds |-> Packable(cmds[i])])

\* Every metric that fits into a datagram is in exactly one place, in the order
\* of the emits: sent, in the buffer or still a command; no datagram is empty or
\* too long; and a Drain that no other Drain or Stop crosses returns only when
\* all that was emitted before it has been sent (loop, flush and
\* writeStatsDMetric, instrumentation_statsd_sink.go:157-193 and 289-317).
SinkInOrder ==
  /\ SinkTypeOK
  /\ FlattenSeq(datagrams) \o udpBuf \o Of(cmdChan) = Of(emitted)
  /\ \A i \in DOMAIN datagrams : Bytes(datagrams[i]) \in 1..maxUdpBytes
  /\ Bytes(udpBuf) <= maxUdpBytes
  /\ crossed \/ drained

\* As long as nobody calls Stop and no two Drains cross, every call returns, also
\* when the channel is full (instrumentation_statsd_sink.go:127-155).
SinkCallsReturn == \A c \in SinkCaller : (calling[c] # Idle) ~> (calling[c] = Idle \/ crossed)
=============================================================================
