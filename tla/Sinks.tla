------------------------------- MODULE Sinks -------------------------------
(***************************************************************************)
(* WriteData of the pumps that turn each record into a message and hand    *)
(* the messages to a client library.  They differ in what they do with a   *)
(* value that is no record, in how they cut the slice into requests, in    *)
(* what becomes of a failed request or of a context that is over, and in   *)
(* whether messages wait in the client: a profile says so for each pump.   *)
(*                                                                         *)
(* Calls of WriteData follow each other.  A call left behind by a timeout  *)
(* shares the client, or the map of the Prometheus pump, with the next.    *)
(***************************************************************************)
EXTENDS Integers, Sequences, SequencesExt

CONSTANTS
  Item,        \* values of a slice: [class, size]
  Lengths,     \* bound: Lengths[c] is the longest slice of call c
  Limit,       \* batch_size, batch_max_content_length
  MaxRetries,  \* max_retries of the Splunk pump
  MaxFaults    \* bound: requests that fail, answers that are lost

(* "nil" did not decode, "bad" cannot be converted to a message, "out" is   *)
(* left out by the sampling of the Moesif pump.                             *)
Class == {"nil", "bad", "out", "ok"}

ASSUME SinksAssumption ==
  /\ Item \subseteq [class : Class, size : Nat \ {0}]
  /\ Lengths \in Seq(Nat)
  /\ Limit \in Nat \ {0}
  /\ MaxRetries \in Nat
  /\ MaxFaults \in Nat

-----------------------------------------------------------------------------
(* The profiles.                                                            *)
(*   nil, bad  what such a value does: "exit" ends the process, "error" the *)
(*             call, "skip" leaves it out, "blank" sends an empty message   *)
(*   cut       a request for "each" record, for "limit" values, for as many *)
(*             as fit into a "size", or for the whole "slice"               *)
(*   error     a failed request is "returned" or only "logged"              *)
(*   over      a context that is over fails the "request", makes WriteData  *)
(*             return "nil" or "error", makes it "skip" the records, or is  *)
(*             "unseen"                                                     *)
(*   client    messages wait in a "buffer" of the client, in the "map" of   *)
(*             the pump, or "none" of them does                             *)
(*   flush     when what waits is sent: after a "write", at "shutdown"      *)
(* DogStatsd and Moesif stand for these pumps with their buffering on.  A   *)
(* tag that the DogStatsD pump does not know fails every call and is left   *)
(* out, and so are retries within a client library.                         *)

Direct(nil, bad, cut, error, over) ==
  [nil |-> nil, bad |-> bad, cut |-> cut, error |-> error, over |-> over,
   client |-> "none", flush |-> {}]

Buffered(nil, bad, over, flush) ==
  [nil |-> nil, bad |-> bad, cut |-> "each", error |-> "logged", over |-> over,
   client |-> "buffer", flush |-> flush]

Kinesis    == Direct("skip", "blank", "limit", "logged", "request")
SQS        == Direct("blank", "blank", "limit", "returned", "request")
Timestream == Direct("exit", "fine", "limit", "returned", "request")
Kafka      == Direct("exit", "blank", "slice", "logged", "request")
CSV        == Direct("error", "fine", "slice", "logged", "unseen")
Influx     == Direct("exit", "skip", "slice", "logged", "unseen")
Graylog    == Direct("exit", "exit", "each", "logged", "unseen")
Statsd     == Direct("exit", "fine", "each", "logged", "unseen")
StdOut     == Direct("exit", "blank", "each", "logged", "nil")
Syslog     == Direct("exit", "fine", "each", "logged", "nil")
Splunk     == Direct("exit", "error", "each", "returned", "request")
SplunkBatch       == [Splunk EXCEPT !.cut = "size"]
Elasticsearch     == Direct("skip", "fine", "each", "logged", "skip")
ElasticsearchBulk == Buffered("skip", "fine", "skip", {"shutdown"})
DogStatsd         == Buffered("exit", "fine", "unseen", {"shutdown"})
Influx2           == Buffered("exit", "fine", "unseen", {"shutdown"})
Influx2Flush      == Buffered("exit", "fine", "unseen", {"write", "shutdown"})
Moesif            == Buffered("blank", "exit", "unseen", {"shutdown"})
Segment           == Buffered("exit", "skip", "unseen", {})
Logzio            == Buffered("exit", "error", "unseen", {})
Prometheus ==
  [nil |-> "exit", bad |-> "fine", cut |-> "each", error |-> "logged", over |-> "error",
   client |-> "map", flush |-> {"write"}]

Profile ==
  [kinesis |-> Kinesis, sqs |-> SQS, timestream |-> Timestream, kafka |-> Kafka, csv |-> CSV,
   influx |-> Influx, graylog |-> Graylog, statsd |-> Statsd, stdout |-> StdOut, syslog |-> Syslog,
   splunk |-> Splunk, splunkBatch |-> SplunkBatch, elasticsearch |-> Elasticsearch,
   elasticsearchBulk |-> ElasticsearchBulk, dogstatsd |-> DogStatsd, influx2 |-> Influx2,
   influx2Flush |-> Influx2Flush, moesif |-> Moesif, segment |-> Segment, logzio |-> Logzio,
   prometheus |-> Prometheus]

Call    == DOMAIN Lengths
Message == UNION {{<<c, n>> : n \in 1 .. Lengths[c]} : c \in Call}

VARIABLES
  pump,      \* which pump
  timed,     \* whether it has a timeout
  slice,     \* slice[c]: the values of call c
  call,      \* call[c]: where call c is, see Idle
  waiting,   \* messages in the client or the map
  delivered, \* how often the backend has each message
  file,      \* file[c]: the file that call c of the CSV pump has opened
  overwritten, \* rows of the CSV pump that another call has written over
  offered,   \* history: offered[c] is the sequence of requests of call c
  over,      \* the calls whose context is over
  main,      \* what the purge loop does
  next,      \* the call it waits for
  died,      \* the process ended in WriteData
  faults     \* bounded by MaxFaults

config  == <<pump, timed>>
csv     == <<file, overwritten>>
loop    == <<over, main, next>>
backend == <<waiting, delivered>>
vars    == <<config, csv, slice, call, backend, offered, loop, died, faults>>

(* pos values are done, batch is the next request, rest what follows it.    *)
Idle == [at |-> "none", pos |-> 0, batch |-> <<>>, rest |-> <<>>, tries |-> 0]

Init ==
  /\ pump \in DOMAIN Profile
  /\ timed \in BOOLEAN
  /\ slice = [c \in Call |-> <<>>]
  /\ call = [c \in Call |-> Idle]
  /\ waiting = {}
  /\ delivered = [m \in Message |-> 0]
  /\ file = [c \in Call |-> "none"]
  /\ overwritten = {}
  /\ offered = [c \in Call |-> <<>>]
  /\ over = {}
  /\ main = "idle"
  /\ next = 0
  /\ died = FALSE
  /\ faults = 0

P == Profile[pump]

At(c, where)   == call[c].at = where
Goes(c, where) == call' = [call EXCEPT ![c].at = where]
Fault          == faults < MaxFaults /\ faults' = faults + 1
Deliver(M)     == delivered' = [m \in Message |-> IF m \in M THEN delivered[m] + 1 ELSE delivered[m]]

-----------------------------------------------------------------------------
(* The purge loop, and Shutdown at its end.                                 *)

(* A value is left out where the pump does not tell it from another one.    *)
Told(v) ==
  /\ v.class = "bad" => P.bad # "fine"
  /\ v.class = "out" => pump = "moesif"
  /\ v.size > Limit => P.cut = "size"

StartWrite ==
  /\ main = "idle" /\ next < Len(Lengths)
  /\ next' = next + 1
  /\ main' = "writing"
  /\ \E s \in BoundedSeq({v \in Item : Told(v)}, Lengths[next']) : slice' = [slice EXCEPT ![next'] = s]
  /\ Goes(next', "loop")
  /\ UNCHANGED <<config, csv, backend, offered, over, died, faults>>

Returned(c) == call[c].at \in {"nil", "error"}

WriteDone ==
  /\ main = "writing" /\ Returned(next)
  /\ main' = "idle"
  /\ UNCHANGED <<config, csv, slice, call, backend, offered, over, next, died, faults>>

Deadline ==
  /\ timed /\ main = "writing"
  /\ over' = over \cup {next}
  /\ main' = "idle"
  /\ UNCHANGED <<config, csv, slice, call, backend, offered, next, died, faults>>

(* Mistake: what a write leaves in the client is not sent at the end.       *)
FlushesAtShutdownOnlyWrites == "write" \in P.flush

FlushesAtShutdown == "shutdown" \in P.flush

(* The process ends with Shutdown, whatever still runs.                     *)
Shutdown ==
  /\ main = "idle"
  /\ main' = "stopped"
  /\ IF ~FlushesAtShutdown THEN UNCHANGED <<backend, faults>>
     ELSE /\ waiting' = {}
          /\ \/ Deliver(waiting) /\ UNCHANGED faults
             \/ UNCHANGED delivered /\ Fault
  /\ UNCHANGED <<config, csv, slice, call, offered, over, next, died>>

-----------------------------------------------------------------------------
(* The file of the CSV pump, which the first call does not find.  A call    *)
(* looks for it and then appends to it or creates it, which cuts off what   *)
(* others wrote in between and leaves the call with an offset of its own.   *)
(* That there is no file to write to is only logged.                        *)

FileExists == \E c \in Call : file[c] \in {"created", "append"}
Rows       == {m \in Message : delivered[m] > 0}

LooksForFile(c) ==
  /\ pump = "csv" /\ At(c, "loop") /\ file[c] = "none"
  /\ \/ ~FileExists /\ file' = [file EXCEPT ![c] = "missing"] /\ UNCHANGED faults
     \/ FileExists /\ file' = [file EXCEPT ![c] = "append"] /\ UNCHANGED faults
     \/ FileExists /\ file' = [file EXCEPT ![c] = "failed"] /\ Fault
  /\ UNCHANGED <<config, slice, call, backend, overwritten, offered, loop, died>>

Creates(c) ==
  /\ file[c] = "missing"
  /\ \/ /\ file' = [file EXCEPT ![c] = "created"]
        /\ overwritten' = overwritten \cup Rows
        /\ UNCHANGED faults
     \/ file' = [file EXCEPT ![c] = "failed"] /\ UNCHANGED overwritten /\ Fault
  /\ UNCHANGED <<config, slice, call, backend, offered, loop, died>>

(* What a call writes at its own offset may come to lie on rows of others:  *)
(* which ones depends on their lengths.                                     *)
WritesOver(c) ==
  \E rows \in SUBSET {m \in Rows : file[c] = "created" /\ m[1] # c} :
    overwritten' = overwritten \cup rows

-----------------------------------------------------------------------------
(* WriteData of call c: the loop over the values.                           *)

HasFile(c) == pump = "csv" => file[c] \notin {"none", "missing"}

Reaction(c, n) ==
  CASE slice[c][n].class = "nil" -> P.nil
    [] slice[c][n].class = "bad" -> P.bad
    [] slice[c][n].class = "out" -> IF pump = "moesif" THEN "skip" ELSE "fine"
    [] OTHER                     -> "fine"

(* The next value is looked at, and the context before it where the loop    *)
(* does so.                                                                 *)
Looks(c) ==
  /\ At(c, "loop") /\ HasFile(c) /\ call[c].pos < Len(slice[c])
  /\ c \in over => P.over \in {"request", "unseen"}

NextIs(c, reactions) == Looks(c) /\ Reaction(c, call[c].pos + 1) \in reactions

SeesOver(c) ==
  /\ At(c, "loop") /\ call[c].pos < Len(slice[c])
  /\ c \in over
  /\ \/ P.over = "nil" /\ Goes(c, "nil")
     \/ P.over = "error" /\ Goes(c, "error")
     \/ P.over = "skip" /\ call' = [call EXCEPT ![c].pos = @ + 1]
  /\ UNCHANGED <<config, csv, slice, backend, offered, loop, died, faults>>

(* A failed type assertion, or log.Fatal.                                   *)
Die(c) ==
  /\ NextIs(c, {"exit"})
  /\ died' = TRUE
  /\ UNCHANGED <<config, csv, slice, call, backend, offered, loop, faults>>

Refuse(c) ==
  /\ NextIs(c, {"error"})
  /\ Goes(c, "error")
  /\ UNCHANGED <<config, csv, slice, backend, offered, loop, died, faults>>

(* A request is complete after the values done and with the messages ms.    *)
Due(c, done, ms) ==
  /\ ms # <<>>
  /\ \/ P.cut = "each"
     \/ P.cut = "limit" /\ (done % Limit = 0 \/ done = Len(slice[c]))

After(c, done, ms) == IF Due(c, done, ms) THEN "send" ELSE "loop"

Skip(c) ==
  /\ NextIs(c, {"skip"})
  /\ LET done == call[c].pos + 1
     IN call' = [call EXCEPT ![c].pos = done, ![c].at = After(c, done, call[c].batch)]
  /\ UNCHANGED <<config, csv, slice, backend, offered, loop, died, faults>>

Size(c, ms) ==
  LET upTo[k \in 0 .. Len(ms)] == IF k = 0 THEN 0 ELSE upTo[k - 1] + slice[c][ms[k]].size
  IN  upTo[Len(ms)]

(* Mistake: the new message is not counted.                                 *)
OverflowsBefore(c, n) == Size(c, call[c].batch) > Limit

Overflows(c, n) == Size(c, call[c].batch) + slice[c][n].size > Limit

(* The Splunk pump sends its buffer, an empty one too, before the message   *)
(* that does not fit any more.                                              *)
Take(c) ==
  /\ NextIs(c, {"fine", "blank"})
  /\ LET done == call[c].pos + 1
     IN call' = IF P.cut = "size" /\ Overflows(c, done)
                THEN [call EXCEPT ![c].pos = done, ![c].rest = <<done>>, ![c].at = "send"]
                ELSE [call EXCEPT ![c].pos = done, ![c].batch = Append(@, done),
                                  ![c].at = After(c, done, Append(call[c].batch, done))]
  /\ UNCHANGED <<config, csv, slice, backend, offered, loop, died, faults>>

(* Mistake: what is left after the last value is not sent.                  *)
LeftoverDropped(c) == FALSE

Leftover(c) == call[c].batch # <<>>

(* After the last value: the rest is sent, waiting messages are flushed.    *)
(* Into a new file of the CSV pump there still goes its first line.         *)
LoopEnds(c) ==
  /\ At(c, "loop") /\ HasFile(c) /\ call[c].pos = Len(slice[c])
  /\ Goes(c, IF Leftover(c) THEN "send" ELSE IF "write" \in P.flush THEN "flush" ELSE "nil")
  /\ IF Leftover(c) THEN UNCHANGED overwritten ELSE WritesOver(c)
  /\ UNCHANGED <<config, file, slice, backend, offered, loop, died, faults>>

-----------------------------------------------------------------------------
(* Requests.                                                                *)

Messages(c) == {<<c, n>> : n \in ToSet(call[c].batch)}
Offer(c)    == offered' = [offered EXCEPT ![c] = Append(@, call[c].batch)]
Continue(c) ==
  call' = [call EXCEPT ![c].at = "loop", ![c].batch = call[c].rest, ![c].rest = <<>>, ![c].tries = 0]

(* The client puts the messages into its buffer, or the Prometheus pump     *)
(* counts them in its map.                                                  *)
Hold(c) ==
  /\ At(c, "send") /\ P.client # "none"
  /\ \/ waiting' = waiting \cup Messages(c) /\ UNCHANGED faults
     \/ P.client = "buffer" /\ UNCHANGED waiting /\ Fault
  /\ Offer(c) /\ Continue(c)
  /\ UNCHANGED <<config, csv, slice, delivered, loop, died>>

(* What is never taken: an entry without data in a request to SQS or        *)
(* Kinesis, a request without events to Splunk, rows without a file.        *)
Spoils(c, n) == pump \in {"sqs", "kinesis"} /\ Reaction(c, n) = "blank"

Invalid(c) ==
  call[c].batch = <<>> \/ file[c] = "failed" \/ \E n \in ToSet(call[c].batch) : Spoils(c, n)

Requests(c) == At(c, "send") /\ P.client = "none"

(* Kinesis and SQS may take a part of the entries; the pumps do not look.   *)
Accepted(c) ==
  /\ Requests(c) /\ ~Invalid(c) /\ (c \in over => P.over # "request")
  /\ \/ Deliver(Messages(c)) /\ UNCHANGED faults
     \/ /\ pump \in {"kinesis", "sqs"} /\ Fault
        /\ \E M \in SUBSET Messages(c) : Deliver(M)
  /\ WritesOver(c) /\ Offer(c) /\ Continue(c)
  /\ UNCHANGED <<config, file, slice, waiting, loop, died>>

(* Mistake: errors of the service are logged only.                          *)
AfterFailureGoesOn(c) == Continue(c)

AfterFailure(c) == IF P.error = "returned" THEN Goes(c, "error") ELSE Continue(c)

MayRetry(c) ==
  pump \in {"splunk", "splunkBatch"} /\ ~Invalid(c) /\ call[c].tries < MaxRetries

(* The request does not get there, or its answer gets lost; a context that  *)
(* is over counts as a failure that may be tried again.                     *)
Fails(c) ==
  /\ Requests(c) /\ WritesOver(c)
  /\ IF Invalid(c) \/ (c \in over /\ P.over = "request") THEN UNCHANGED <<delivered, faults>>
     ELSE Fault /\ (UNCHANGED delivered \/ Deliver(Messages(c)))

Retry(c) ==
  /\ Fails(c) /\ MayRetry(c)
  /\ call' = [call EXCEPT ![c].tries = @ + 1]
  /\ UNCHANGED <<config, file, slice, waiting, offered, loop, died>>

(* No retry is left, or the answer was one that is not tried again.         *)
GivesUp(c) ==
  /\ Fails(c)
  /\ MayRetry(c) => c \notin over
  /\ Offer(c) /\ AfterFailure(c)
  /\ UNCHANGED <<config, file, slice, waiting, loop, died>>

(* The buffer of the CSV writer is full and goes to the file.  An error     *)
(* here ends the call; that of the last Flush is not looked at.             *)
Spill(c) ==
  /\ pump = "csv" /\ At(c, "loop") /\ call[c].batch # <<>> /\ call[c].pos < Len(slice[c])
  /\ \/ ~Invalid(c) /\ Deliver(Messages(c)) /\ Continue(c) /\ UNCHANGED faults
     \/ UNCHANGED delivered /\ Goes(c, "error") /\ (IF Invalid(c) THEN UNCHANGED faults ELSE Fault)
  /\ WritesOver(c) /\ Offer(c)
  /\ UNCHANGED <<config, file, slice, waiting, loop, died>>

-----------------------------------------------------------------------------
(* What waits.                                                              *)

(* The client sends a message when it sees fit.                             *)
ClientSends ==
  /\ P.client = "buffer"
  /\ \E m \in waiting :
       /\ waiting' = waiting \ {m}
       /\ \/ Deliver({m}) /\ UNCHANGED faults
          \/ UNCHANGED delivered /\ Fault
  /\ UNCHANGED <<config, csv, slice, call, offered, loop, died>>

Flush(c) ==
  /\ At(c, "flush") /\ P.client = "buffer"
  /\ waiting' = {}
  /\ Deliver(waiting)
  /\ Goes(c, "nil")
  /\ UNCHANGED <<config, csv, slice, offered, loop, died, faults>>

(* Expose adds the counters of the map to the metric, then makes a new map. *)
ExposeAdds(c) ==
  /\ At(c, "flush") /\ P.client = "map"
  /\ Deliver(waiting)
  /\ Goes(c, "newMap")
  /\ UNCHANGED <<config, csv, slice, waiting, offered, loop, died, faults>>

ExposeResets(c) ==
  /\ At(c, "newMap")
  /\ waiting' = {}
  /\ Goes(c, "nil")
  /\ UNCHANGED <<config, csv, slice, delivered, offered, loop, died, faults>>

(* Two calls use the map at once: the runtime may end the process.          *)
MapRace ==
  /\ P.client = "map"
  /\ \E c, d \in Call : c # d /\ call[c].at \in {"send", "flush"} /\ call[d].at \in {"send", "flush"}
  /\ died' = TRUE
  /\ UNCHANGED <<config, csv, slice, call, backend, offered, loop, faults>>

(* The Moesif pump reads its configuration again after an event; an answer  *)
(* that breaks off is log.Fatal.                                            *)
ConfigBreaksOff(c) ==
  /\ pump = "moesif" /\ At(c, "loop") /\ offered[c] # <<>>
  /\ Fault
  /\ died' = TRUE
  /\ UNCHANGED <<config, csv, slice, call, backend, offered, loop>>

WriteDataStep(c) ==
  \/ LooksForFile(c) \/ Creates(c) \/ SeesOver(c) \/ Die(c) \/ Refuse(c) \/ Skip(c) \/ Take(c) \/ LoopEnds(c)
  \/ Hold(c) \/ Accepted(c) \/ Retry(c) \/ GivesUp(c) \/ Spill(c)
  \/ Flush(c) \/ ExposeAdds(c) \/ ExposeResets(c) \/ ConfigBreaksOff(c)

Next ==
  /\ ~died /\ main # "stopped"
  /\ \/ \E c \in Call : WriteDataStep(c)
     \/ StartWrite \/ WriteDone \/ Deadline \/ Shutdown \/ ClientSends \/ MapRace

Spec == Init /\ [][Next]_vars

-----------------------------------------------------------------------------
TypeOK ==
  /\ pump \in DOMAIN Profile
  /\ timed \in BOOLEAN
  /\ \A c \in Call :
       /\ slice[c] \in Seq(Item) /\ Len(slice[c]) <= Lengths[c]
       /\ call[c].at \in {"none", "loop", "send", "flush", "newMap", "nil", "error"}
       /\ call[c].pos \in 0 .. Len(slice[c])
       /\ call[c].batch \in Seq(1 .. call[c].pos)
       /\ call[c].rest \in Seq(1 .. call[c].pos)
       /\ call[c].tries \in 0 .. MaxRetries
  /\ waiting \subseteq Message
  /\ delivered \in [Message -> Nat]
  /\ file \in [Call -> {"none", "missing", "created", "append", "failed"}]
  /\ overwritten \subseteq Message
  /\ over \subseteq 1 .. next
  /\ main \in {"idle", "writing", "stopped"}
  /\ next \in Call \cup {0}
  /\ died \in BOOLEAN
  /\ faults \in 0 .. MaxFaults

Real(c)      == {n \in DOMAIN slice[c] : slice[c][n].class = "ok"}
Ascending(s) == \A i, j \in DOMAIN s : i < j => s[i] < s[j]
InOrder(bs)  == /\ \A b \in ToSet(bs) : Ascending(b)
                /\ \A i, j \in DOMAIN bs : i < j => \A m \in ToSet(bs[i]), n \in ToSet(bs[j]) : m < n

(* The requests of a call follow the slice without repetition and respect   *)
(* the limits.  A backend has a message twice only if the Splunk pump tried *)
(* again, or if two calls of the Prometheus pump expose the same map.       *)
EachRecordOnce ==
  /\ TypeOK
  /\ \A c \in Call :
       /\ InOrder(offered[c])
       /\ \A b \in ToSet(offered[c]) :
            /\ P.cut = "each" => Len(b) = 1
            /\ P.cut = "limit" => Len(b) <= Limit
            /\ P.cut = "size" => Len(b) <= 1 \/ Size(c, b) <= Limit
  /\ \A m \in Message :
       delivered[m] <= IF pump \in {"splunk", "splunkBatch"} THEN 1 + MaxRetries
                       ELSE IF pump = "prometheus" /\ timed THEN Len(Lengths) ELSE 1

InBackend(c, n) == delivered[<<c, n>>] > 0 /\ <<c, n>> \notin overwritten
Arrived(c, n)   == InBackend(c, n) \/ <<c, n>> \in waiting

(* The earlier of two calls was left behind, so that both ran.              *)
Overlap(c, d) == (IF c < d THEN c ELSE d) \in over

Spoiled(c) == \E n \in DOMAIN slice[c] : Spoils(c, n)

(* A nil result means that every record was handed over.  It also means     *)
(* that the service has them, or the client, if the pump returns errors; if *)
(* it only logs them, nothing must have failed: of Kinesis, no entry either *)
(* that spoils its request.  The stdout, syslog and Elasticsearch pumps     *)
(* answer nil for what they leave out when the context is over, and rows of *)
(* the CSV pump may be lost to a call that ran at the same time and created *)
(* the file (csv.go:77-89).                                                 *)
HonestResult ==
  \A c \in Call : At(c, "nil") =>
    \A n \in Real(c) :
      \/ c \in over /\ P.over \in {"nil", "skip"}
      \/ pump = "prometheus" /\ timed
      \/ /\ \E b \in ToSet(offered[c]) : n \in ToSet(b)
         /\ \/ P.error = "returned" /\ pump # "sqs"
            \/ /\ faults = 0 /\ (c \in over => P.over # "request")
               /\ pump = "kinesis" => ~Spoiled(c)
               /\ ~\E d \in Call \ {c} : file[d] = "created" /\ Overlap(c, d)
            => Arrived(c, n)

(* A value that does not decode or convert, and that the pump passes over   *)
(* or sends as an empty message.                                            *)
PassedOver(c, n) == Reaction(c, n) \in {"fine", "skip", "blank"} /\ ~Spoils(c, n)

StartsTooLarge(c) == pump = "splunkBatch" /\ slice[c] # <<>> /\ slice[c][1].size > Limit

(* If nothing fails and nothing takes too long, a slice costs a record only *)
(* for a value that the pump does not pass over, or because the Splunk pump *)
(* sends an empty request before a first event that is too large.  The      *)
(* process ends in WriteData only for such a value.                         *)
HarmsNoOther ==
  ~timed /\ faults = 0 =>
    /\ \A c \in Call :
         Returned(c) /\ ~StartsTooLarge(c) /\ (\A n \in DOMAIN slice[c] : PassedOver(c, n)) =>
           At(c, "nil") /\ \A n \in Real(c) : Arrived(c, n)
    /\ died => \E c \in Call : \E n \in DOMAIN slice[c] : Reaction(c, n) = "exit"

(* After Shutdown nothing is left in a client or a map: what untimed writes *)
(* reported as written is in the backend.  The Segment and Logzio clients   *)
(* are not flushed, and a spoiled request to Kinesis is only logged.        *)
ShutdownDelivers ==
  main = "stopped" /\ ~timed /\ faults = 0 /\ (P.client = "buffer" => P.flush # {}) =>
    \A c \in Call : At(c, "nil") /\ ~Spoiled(c) => \A n \in Real(c) : InBackend(c, n)

=============================================================================
