----------------------------- MODULE Sinks_proofs -----------------------------
(* Proofs about the pumps that hand messages to a client library: types,     *)
(* requests that follow the slice, honest results, what a bad value or       *)
(* Shutdown does to the other records.                                       *)
EXTENDS Sinks, DataFacts, TLAPS

-----------------------------------------------------------------------------
(* The inductive invariant.                                                  *)

Place == {"none", "loop", "send", "flush", "newMap", "nil", "error"}

CallRecord == [at : Place, pos : Nat, batch : Seq(Nat), rest : Seq(Nat), tries : Nat]

Types ==
  /\ TypeOK
  /\ slice \in [Call -> Seq(Item)]
  /\ call \in [Call -> CallRecord]
  /\ offered \in [Call -> Seq(Seq(Nat))]

Running(c) == call[c].at \in {"loop", "send", "flush", "newMap"}

(* Calls start in order; without a timeout only the one that the purge loop  *)
(* waits for runs.                                                           *)
Loop ==
  /\ \A c \in Call : IF c > next
                     THEN slice[c] = <<>> /\ call[c] = Idle /\ offered[c] = <<>>
                     ELSE ~At(c, "none")
  /\ main = "writing" => next # 0
  /\ ~timed => over = {} /\ \A c \in Call : Running(c) => c = next /\ main = "writing"

(* The values that a request of call c had in it.                            *)
Sent(c) == UNION {ToSet(b) : b \in ToSet(offered[c])}

(* What was offered is in front of the batch, and the batch of the rest.     *)
Order(c) ==
  /\ InOrder(offered[c])
  /\ Sent(c) \subseteq 1 .. call[c].pos
  /\ call[c].at \in {"loop", "send"} =>
       /\ Ascending(call[c].batch)
       /\ \A m \in Sent(c), n \in ToSet(call[c].batch) \cup ToSet(call[c].rest) : m < n
       /\ \A m \in ToSet(call[c].batch), n \in ToSet(call[c].rest) : m < n

(* The limits of a request.                                                  *)
Fits(c, b) ==
  /\ P.cut = "each" => Len(b) = 1
  /\ P.cut = "limit" => Len(b) <= Limit
  /\ P.cut = "size" => Len(b) <= 1 \/ Size(c, b) <= Limit

(* The batch as it is filled.                                                *)
Filling(c) ==
  LET r == call[c]
  IN  At(c, "loop") =>
        /\ r.rest = <<>> /\ r.tries = 0
        /\ P.cut = "each" => r.batch = <<>>
        /\ P.cut = "limit" => Len(r.batch) <= r.pos % Limit
        /\ P.cut = "size" => Len(r.batch) <= 1 \/ Size(c, r.batch) <= Limit
        /\ P.cut = "size" /\ r.batch = <<>> => r.pos = 0 \/ r.pos = Len(slice[c])

(* A request that is to be sent.  Only the Splunk pump has something behind  *)
(* it, or nothing in it.                                                     *)
Sending(c) ==
  LET r == call[c]
  IN  At(c, "send") =>
        /\ Fits(c, r.batch)
        /\ r.batch = <<>> => StartsTooLarge(c)
        /\ r.rest = <<>> \/ (P.cut = "size" /\ r.rest = <<r.pos>>)
        /\ P.cut = "size" /\ r.rest = <<>> => r.pos = Len(slice[c])
        /\ r.tries # 0 => pump \in {"splunk", "splunkBatch"}

(* After the loop.                                                           *)
Ended(c) ==
  LET r == call[c]
  IN  /\ call[c].at \in {"flush", "newMap"} =>
           r.pos = Len(slice[c]) /\ r.batch = <<>> /\ r.rest = <<>> /\ P.client # "none"
      /\ At(c, "newMap") => P.client = "map"
      /\ At(c, "nil") => \/ r.pos = Len(slice[c]) /\ r.batch = <<>> /\ r.rest = <<>>
                         \/ c \in over /\ P.over = "nil"

Shape(c) ==
  /\ \A b \in ToSet(offered[c]) : Fits(c, b)
  /\ Filling(c) /\ Sending(c) /\ Ended(c)

(* A value the loop has passed was offered or is going to be.                *)
Covered(c) ==
  ~At(c, "error") =>
    \A n \in 1 .. call[c].pos :
      Reaction(c, n) \in {"fine", "blank"} =>
        \/ c \in over /\ P.over \in {"nil", "skip"}
        \/ n \in Sent(c) \/ n \in ToSet(call[c].batch) \/ n \in ToSet(call[c].rest)

Exposed == {c \in Call : call[c].at \in {"newMap", "nil"}}

(* How often the backend has a message: not before it was offered, but for   *)
(* the attempts of a request that is tried again;                            *)
Fresh ==
  \A c \in Call : \A n \in 1 .. Lengths[c] :
    n \notin Sent(c) =>
      /\ <<c, n>> \notin waiting
      /\ delivered[<<c, n>>] <= IF n \in ToSet(call[c].batch) THEN call[c].tries ELSE 0

(* without a client that keeps messages, once for each attempt;              *)
OncePerTry ==
  P.client = "none" =>
    /\ waiting = {}
    /\ \A m \in Message :
         delivered[m] <= IF pump \in {"splunk", "splunkBatch"} THEN 1 + MaxRetries ELSE 1

(* with a buffer, once and not as long as it waits;                          *)
OnceBuffered ==
  P.client = "buffer" => \A m \in Message : delivered[m] <= IF m \in waiting THEN 0 ELSE 1

(* with a map, once for each call that has exposed it.                       *)
OncePerCall ==
  P.client = "map" =>
    /\ \A m \in Message : delivered[m] <= Cardinality(Exposed)
    /\ ~timed => /\ \A m \in Message : delivered[m] <= 1
                 /\ \A m \in waiting : delivered[m] > 0 <=> \E c \in Call : At(c, "newMap")

Backend == Fresh /\ OncePerTry /\ OnceBuffered /\ OncePerCall

(* The pump hears of a failure, or there was none.                           *)
Sure(c) ==
  \/ P.error = "returned" /\ pump # "sqs"
  \/ /\ faults = 0 /\ (c \in over => P.over # "request")
     /\ pump = "kinesis" => ~Spoiled(c)

(* Taken once, though perhaps written over since.                            *)
Taken(c, n) == delivered[<<c, n>>] > 0 \/ <<c, n>> \in waiting

Arrivals ==
  ~(pump = "prometheus" /\ timed) =>
    \A c \in Call : Sure(c) /\ ~At(c, "error") => \A n \in Sent(c) : Taken(c, n)

(* Without a timeout, a call of the Prometheus pump has exposed its records. *)
Exposes ==
  P.client = "map" /\ ~timed /\ faults = 0 =>
    \A c \in Exposed : \A n \in Sent(c) : delivered[<<c, n>>] > 0

(* Why a call that nothing disturbs fails, and why the process ends.         *)
Reasons ==
  ~timed /\ faults = 0 =>
    /\ \A c \in Call : At(c, "error") =>
         StartsTooLarge(c) \/ \E n \in DOMAIN slice[c] : ~PassedOver(c, n)
    /\ died => \E c \in Call : \E n \in DOMAIN slice[c] : Reaction(c, n) = "exit"

Stopped ==
  main = "stopped" /\ P.client = "buffer" /\ P.flush # {} => waiting = {}

(* The file of the CSV pump.  Who has none has written nothing, and a call   *)
(* that runs without being waited for was left behind;                       *)
Unopened(c) == file[c] \in {"none", "missing"}
Opened(c)   == file[c] \in {"created", "append"}

Unfiled == \A c \in Call : file[c] = "failed" => faults # 0

Opening ==
  /\ \A c \in Call : pump # "csv" => file[c] = "none"
  /\ \A c \in Call : file[c] = "missing" => At(c, "loop")
  /\ \A c \in Call : At(c, "none") => file[c] = "none"
  /\ pump = "csv" =>
       \A c \in Call : /\ Unopened(c) => call[c].at \in {"none", "loop"} /\ call[c].batch = <<>>
                       /\ \A n \in 1 .. Lengths[c] : delivered[<<c, n>>] > 0 => Opened(c)

Behind == \A c \in Call : Running(c) => c \in over \/ (c = next /\ main = "writing")

(* who does not find it or has created it runs next to all who have it open; *)
(* only such a call writes over rows.                                        *)
Sharing ==
  \A c, d \in Call : c # d /\ Running(c) /\ file[c] \in {"missing", "created"} /\ Opened(d) => Overlap(c, d)

Covering ==
  \A c \in Call : \A n \in 1 .. Lengths[c] :
    <<c, n>> \in overwritten => \E d \in Call \ {c} : file[d] = "created" /\ Overlap(c, d)

Files == Unfiled /\ Opening /\ Behind /\ Sharing /\ Covering

IInv ==
  /\ Types /\ Loop
  /\ \A c \in Call : Order(c) /\ Shape(c) /\ Covered(c)
  /\ Backend /\ Arrivals /\ Exposes /\ Reasons /\ Stopped /\ Files

-----------------------------------------------------------------------------
(* The profiles.                                                             *)

(* What the profiles of the pumps have in common: which of them return       *)
(* errors, wait in a client, cut by number or size.                          *)
Common ==
  /\ P.cut \in {"each", "limit", "size", "slice"}
  /\ P.error \in {"returned", "logged"}
  /\ P.client \in {"none", "buffer", "map"}
  /\ P.nil # "fine"
  /\ P.client # "none" =>
       /\ P.cut = "each" /\ P.error = "logged" /\ P.over # "request"
       /\ pump \notin {"sqs", "kinesis", "splunk", "splunkBatch", "csv"}
  /\ P.client = "none" => P.flush = {}
  /\ P.client = "buffer" /\ P.flush # {} => "shutdown" \in P.flush
  /\ P.client = "map" <=> pump = "prometheus"
  /\ P.client = "map" =>
       /\ P.flush = {"write"} /\ P.over = "error" /\ P.nil = "exit" /\ P.bad = "fine"
  /\ P.cut = "size" <=> pump = "splunkBatch"
  /\ pump \in {"splunk", "splunkBatch"} =>
       P.error = "returned" /\ P.nil = "exit" /\ P.bad = "error" /\ P.over = "request"
  /\ pump = "sqs" => P.error = "returned"
  /\ pump = "kinesis" => P.error = "logged"
  /\ pump = "csv" => P.cut = "slice" /\ P.error = "logged" /\ P.over = "unseen"
  /\ P.over = "skip" => P.cut = "each"

LEMMA ProfileFacts ==
  ASSUME pump \in DOMAIN Profile
  PROVE  Common
<1>1. pump \in {"kinesis", "sqs", "timestream", "kafka", "csv", "influx", "graylog", "statsd",
                 "stdout", "syslog", "splunk", "splunkBatch", "elasticsearch", "elasticsearchBulk",
                 "dogstatsd", "influx2", "influx2Flush", "moesif", "segment", "logzio", "prometheus"}
  BY DEF Profile
<1>2. CASE pump = "kinesis"
  <2>1. P = Kinesis
    BY <1>2 DEF P, Profile
  <2> QED
    BY <1>2, <2>1 DEF Common, Kinesis, Direct
<1>3. CASE pump = "sqs"
  <2>1. P = SQS
    BY <1>3 DEF P, Profile
  <2> QED
    BY <1>3, <2>1 DEF Common, SQS, Direct
<1>4. CASE pump = "timestream"
  <2>1. P = Timestream
    BY <1>4 DEF P, Profile
  <2> QED
    BY <1>4, <2>1 DEF Common, Timestream, Direct
<1>5. CASE pump = "kafka"
  <2>1. P = Kafka
    BY <1>5 DEF P, Profile
  <2> QED
    BY <1>5, <2>1 DEF Common, Kafka, Direct
<1>6. CASE pump = "csv"
  <2>1. P = CSV
    BY <1>6 DEF P, Profile
  <2> QED
    BY <1>6, <2>1 DEF Common, CSV, Direct
<1>7. CASE pump = "influx"
  <2>1. P = Influx
    BY <1>7 DEF P, Profile
  <2> QED
    BY <1>7, <2>1 DEF Common, Influx, Direct
<1>8. CASE pump = "graylog"
  <2>1. P = Graylog
    BY <1>8 DEF P, Profile
  <2> QED
    BY <1>8, <2>1 DEF Common, Graylog, Direct
<1>9. CASE pump = "statsd"
  <2>1. P = Statsd
    BY <1>9 DEF P, Profile
  <2> QED
    BY <1>9, <2>1 DEF Common, Statsd, Direct
<1>10. CASE pump = "stdout"
  <2>1. P = StdOut
    BY <1>10 DEF P, Profile
  <2> QED
    BY <1>10, <2>1 DEF Common, StdOut, Direct
<1>11. CASE pump = "syslog"
  <2>1. P = Syslog
    BY <1>11 DEF P, Profile
  <2> QED
    BY <1>11, <2>1 DEF Common, Syslog, Direct
<1>12. CASE pump = "splunk"
  <2>1. P = Splunk
    BY <1>12 DEF P, Profile
  <2> QED
    BY <1>12, <2>1 DEF Common, Splunk, Direct
<1>13. CASE pump = "splunkBatch"
  <2>1. P = SplunkBatch
    BY <1>13 DEF P, Profile
  <2> QED
    BY <1>13, <2>1 DEF Common, SplunkBatch, Splunk, Direct
<1>14. CASE pump = "elasticsearch"
  <2>1. P = Elasticsearch
    BY <1>14 DEF P, Profile
  <2> QED
    BY <1>14, <2>1 DEF Common, Elasticsearch, Direct
<1>15. CASE pump = "elasticsearchBulk"
  <2>1. P = ElasticsearchBulk
    BY <1>15 DEF P, Profile
  <2> QED
    BY <1>15, <2>1 DEF Common, ElasticsearchBulk, Buffered
<1>16. CASE pump = "dogstatsd"
  <2>1. P = DogStatsd
    BY <1>16 DEF P, Profile
  <2> QED
    BY <1>16, <2>1 DEF Common, DogStatsd, Buffered
<1>17. CASE pump = "influx2"
  <2>1. P = Influx2
    BY <1>17 DEF P, Profile
  <2> QED
    BY <1>17, <2>1 DEF Common, Influx2, Buffered
<1>18. CASE pump = "influx2Flush"
  <2>1. P = Influx2Flush
    BY <1>18 DEF P, Profile
  <2> QED
    BY <1>18, <2>1 DEF Common, Influx2Flush, Buffered
<1>19. CASE pump = "moesif"
  <2>1. P = Moesif
    BY <1>19 DEF P, Profile
  <2> QED
    BY <1>19, <2>1 DEF Common, Moesif, Buffered
<1>20. CASE pump = "segment"
  <2>1. P = Segment
    BY <1>20 DEF P, Profile
  <2> QED
    BY <1>20, <2>1 DEF Common, Segment, Buffered
<1>21. CASE pump = "logzio"
  <2>1. P = Logzio
    BY <1>21 DEF P, Profile
  <2> QED
    BY <1>21, <2>1 DEF Common, Logzio, Buffered
<1>22. CASE pump = "prometheus"
  <2>1. P = Prometheus
    BY <1>22 DEF P, Profile
  <2> QED
    BY <1>22, <2>1 DEF Common, Prometheus
<1> QED
  BY <1>1, <1>2, <1>3, <1>4, <1>5, <1>6, <1>7, <1>8, <1>9, <1>10, <1>11, <1>12,
     <1>13, <1>14, <1>15, <1>16, <1>17, <1>18, <1>19, <1>20, <1>21, <1>22

-----------------------------------------------------------------------------
(* The size of a request.                                                    *)

(* The sums that Size(c, ms) is made of.                                     *)
IsSums(c, g, ms) ==
  g = [k \in 0 .. Len(ms) |-> IF k = 0 THEN 0 ELSE g[k - 1] + slice[c][ms[k]].size]

LEMMA SizeIsSum ==
  ASSUME slice \in [Call -> Seq(Item)], NEW c \in Call, NEW ms \in Seq(DOMAIN slice[c])
  PROVE  \E g \in [0 .. Len(ms) -> Nat] :
           /\ IsSums(c, g, ms) /\ Size(c, ms) = g[Len(ms)]
<1> DEFINE N == Len(ms)
           w == [k \in 1 .. N |-> slice[c][ms[k]].size]
<1>1. N \in Nat /\ w \in [1 .. N -> Nat]
  <2>1. N \in Nat /\ \A k \in 1 .. N : ms[k] \in DOMAIN slice[c]
    OBVIOUS
  <2>2. \A n \in DOMAIN slice[c] : slice[c][n] \in Item
    OBVIOUS
  <2>3. \A v \in Item : v.size \in Nat
    BY SinksAssumption
  <2> QED
    BY <2>1, <2>2, <2>3
<1>2. \E g : IsSums(c, g, ms)
  <2>1. PICK g \in [0 .. N -> Nat] : g[0] = 0 /\ \A n \in 1 .. N : g[n] = g[n - 1] + w[n]
    <3> HIDE DEF N, w
    <3> QED
      BY <1>1, SumsExist
  <2>2. \A n \in 0 .. N : g[n] = IF n = 0 THEN 0 ELSE g[n - 1] + slice[c][ms[n]].size
    BY <1>1, <2>1
  <2>3. IsSums(c, g, ms)
    BY <2>1, <2>2 DEF IsSums
  <2> QED
    BY <2>3
<1> DEFINE h == CHOOSE g : IsSums(c, g, ms)
<1>3. IsSums(c, h, ms)
  BY <1>2
<1>4. Size(c, ms) = h[N]
  BY DEF Size, IsSums
<1> HIDE DEF h
<1>5. h \in [0 .. N -> Nat]
  <2> DEFINE T == {n \in Nat : n <= N => h[n] \in Nat}
  <2>1. 0 \in T
    BY <1>1, <1>3 DEF IsSums
  <2>2. ASSUME NEW n \in Nat, n \in T
        PROVE  n + 1 \in T
    <3> SUFFICES ASSUME n + 1 <= N
                 PROVE  h[n + 1] \in Nat
      OBVIOUS
    <3>1. n + 1 \in 0 .. N /\ n + 1 # 0 /\ (n + 1) - 1 = n /\ h[n] \in Nat /\ n + 1 \in 1 .. N
      BY <1>1, <2>2
    <3>2. h[n + 1] = h[n] + w[n + 1]
      BY <1>1, <1>3, <3>1 DEF IsSums
    <3> HIDE DEF w
    <3>3. w[n + 1] \in Nat
      BY <1>1, <3>1
    <3> QED
      BY <3>1, <3>2, <3>3
  <2> HIDE DEF T
  <2>3. Nat \subseteq T
    BY <2>1, <2>2, InductiveSet
  <2>4. \A n \in 0 .. N : h[n] \in Nat
    BY <1>1, <2>3 DEF T
  <2> QED
    BY <1>3, <2>4 DEF IsSums
<1> QED
  BY <1>3, <1>4, <1>5

(* Take counts a message by adding its size.                                 *)
LEMMA SizeFacts ==
  ASSUME slice \in [Call -> Seq(Item)], NEW c \in Call, NEW ms \in Seq(DOMAIN slice[c])
  PROVE  /\ Size(c, ms) \in Nat
         /\ ms = <<>> => Size(c, ms) = 0
         /\ \A n \in DOMAIN slice[c] : Size(c, Append(ms, n)) = Size(c, ms) + slice[c][n].size
<1>1. PICK f \in [0 .. Len(ms) -> Nat] : IsSums(c, f, ms) /\ Size(c, ms) = f[Len(ms)]
  BY SizeIsSum
<1>2. Len(ms) \in Nat /\ f[0] = 0
  BY <1>1 DEF IsSums
<1>3. Size(c, ms) \in Nat /\ (ms = <<>> => Size(c, ms) = 0)
  BY <1>1, <1>2
<1>4. ASSUME NEW n \in DOMAIN slice[c]
      PROVE  Size(c, Append(ms, n)) = Size(c, ms) + slice[c][n].size
  <2> DEFINE ns == Append(ms, n)
             N == Len(ms)
  <2>1. /\ ns \in Seq(DOMAIN slice[c]) /\ Len(ns) = N + 1 /\ ns[N + 1] = n
        /\ \A k \in 1 .. N : ns[k] = ms[k]
    BY AppendFacts
  <2> HIDE DEF ns
  <2>2. PICK g \in [0 .. Len(ns) -> Nat] : IsSums(c, g, ns) /\ Size(c, ns) = g[Len(ns)]
    BY <2>1, SizeIsSum
  <2> DEFINE T == {k \in Nat : k <= N => g[k] = f[k]}
  <2>3. /\ g[0] = 0
        /\ \A k \in 1 .. N + 1 : g[k] = g[k - 1] + slice[c][ns[k]].size
        /\ \A k \in 1 .. N : f[k] = f[k - 1] + slice[c][ms[k]].size
    <3>1. g[0] = 0 /\ \A k \in 1 .. N + 1 : k \in 0 .. Len(ns) /\ k # 0
      BY <1>2, <2>1, <2>2 DEF IsSums
    <3>2. \A k \in 1 .. N : k \in 0 .. Len(ms) /\ k # 0
      BY <1>2
    <3>3. \A k \in 0 .. Len(ns) : k # 0 => g[k] = g[k - 1] + slice[c][ns[k]].size
      BY <2>2 DEF IsSums
    <3>4. \A k \in 0 .. Len(ms) : k # 0 => f[k] = f[k - 1] + slice[c][ms[k]].size
      BY <1>1 DEF IsSums
    <3> QED
      BY <3>1, <3>2, <3>3, <3>4
  <2>4. 0 \in T
    BY <1>2, <2>3
  <2>5. ASSUME NEW k \in Nat, k \in T
        PROVE  k + 1 \in T
    <3> SUFFICES ASSUME k + 1 <= N
                 PROVE  g[k + 1] = f[k + 1]
      OBVIOUS
    <3>1. k + 1 \in 1 .. N /\ k + 1 \in 1 .. N + 1 /\ (k + 1) - 1 = k /\ g[k] = f[k]
      BY <1>2, <2>5
    <3> QED
      BY <2>1, <2>3, <3>1
  <2> HIDE DEF T
  <2>6. N \in T
    BY <1>2, <2>4, <2>5, InductiveSet
  <2>7. g[N] = f[N]
    BY <1>2, <2>6 DEF T
  <2>8. g[N + 1] = g[N] + slice[c][n].size
    <3>1. N + 1 \in 1 .. N + 1 /\ (N + 1) - 1 = N
      BY <1>2
    <3> QED
      BY <2>1, <2>3, <3>1
  <2> QED
    BY <1>1, <2>1, <2>2, <2>7, <2>8 DEF ns
<1> QED
  BY <1>3, <1>4

-----------------------------------------------------------------------------
(* What a step of WriteData does to its call.                                *)

Becomes(c, at, pos, batch, rest, tries) ==
  /\ call' \in [Call -> CallRecord]
  /\ \A d \in Call \ {c} : call'[d] = call[d]
  /\ call'[c].at = at /\ call'[c].pos = pos /\ call'[c].batch = batch
  /\ call'[c].rest = rest /\ call'[c].tries = tries

(* Only the place changes.                                                   *)
MovesTo(c, at) ==
  Becomes(c, at, call[c].pos, call[c].batch, call[c].rest, call[c].tries)

Looking(c) == At(c, "loop") /\ call[c].pos < Len(slice[c])

Value(c) == call[c].pos + 1

Passes(c) ==
  /\ Looking(c) /\ UNCHANGED offered
  /\ \E at \in {"loop", "send"} :
       /\ Becomes(c, at, Value(c), call[c].batch, call[c].rest, call[c].tries)
       /\ \/ Reaction(c, Value(c)) = "skip" /\ at = After(c, Value(c), call[c].batch)
          \/ c \in over /\ P.over = "skip" /\ at = "loop"

Overflowing(c) == P.cut = "size" /\ Overflows(c, Value(c))

Adds(c) ==
  /\ Looking(c) /\ UNCHANGED offered
  /\ ~Overflowing(c)
  /\ \E at \in {"loop", "send"} :
       /\ Becomes(c, at, Value(c), Append(call[c].batch, Value(c)), call[c].rest, call[c].tries)
       /\ at = After(c, Value(c), Append(call[c].batch, Value(c)))

Defers(c) ==
  /\ Looking(c) /\ UNCHANGED offered
  /\ Overflowing(c) /\ Reaction(c, Value(c)) \in {"fine", "blank"}
  /\ Becomes(c, "send", Value(c), call[c].batch, <<Value(c)>>, call[c].tries)

Leaves(c) ==
  /\ At(c, "loop") /\ call[c].pos = Len(slice[c]) /\ UNCHANGED offered
  /\ \/ MovesTo(c, "send") /\ call[c].batch # <<>>
     \/ /\ call[c].batch = <<>>
        /\ \/ MovesTo(c, "flush") /\ "write" \in P.flush
           \/ MovesTo(c, "nil") /\ "write" \notin P.flush

Breaks(c) ==
  /\ Looking(c) /\ UNCHANGED offered
  /\ \/ MovesTo(c, "nil") /\ c \in over /\ P.over = "nil"
     \/ MovesTo(c, "error") /\ \/ c \in over
                               \/ Reaction(c, Value(c)) = "error"

Requested(c) ==
  /\ \/ At(c, "send")
     \/ pump = "csv" /\ At(c, "loop") /\ call[c].batch # <<>> /\ call[c].pos < Len(slice[c])
  /\ offered' = [offered EXCEPT ![c] = Append(@, call[c].batch)]

GoesOn(c) ==
  Requested(c) /\ Becomes(c, "loop", call[c].pos, call[c].rest, <<>>, 0)

Ends(c) == Requested(c) /\ MovesTo(c, "error")

Repeats(c) ==
  /\ At(c, "send") /\ UNCHANGED offered
  /\ pump \in {"splunk", "splunkBatch"} /\ call[c].tries < MaxRetries /\ call[c].batch # <<>>
  /\ Becomes(c, "send", call[c].pos, call[c].batch, call[c].rest, call[c].tries + 1)

Finishes(c) ==
  /\ UNCHANGED offered
  /\ \/ At(c, "flush") /\ P.client = "buffer" /\ MovesTo(c, "nil")
     \/ At(c, "flush") /\ P.client = "map" /\ MovesTo(c, "newMap")
     \/ At(c, "newMap") /\ MovesTo(c, "nil")

Moves(c) ==
  \/ Passes(c) \/ Adds(c) \/ Defers(c) \/ Leaves(c) \/ Breaks(c)
  \/ GoesOn(c) \/ Ends(c) \/ Repeats(c) \/ Finishes(c)

LEMMA Profiled ==
  ASSUME Types
  PROVE  Common
BY ProfileFacts DEF Types, TypeOK

LEMMA Typing ==
  ASSUME Types, NEW c \in Call
  PROVE  /\ slice[c] \in Seq(Item) /\ Len(slice[c]) \in Nat /\ DOMAIN slice[c] = 1 .. Len(slice[c])
         /\ call[c] \in CallRecord
         /\ call[c].at \in Place /\ call[c].pos \in 0 .. Len(slice[c])
         /\ call[c].batch \in Seq(1 .. call[c].pos) /\ call[c].rest \in Seq(1 .. call[c].pos)
         /\ call[c].batch \in Seq(Nat) /\ call[c].rest \in Seq(Nat)
         /\ call[c].tries \in 0 .. MaxRetries /\ MaxRetries \in Nat
         /\ offered[c] \in Seq(Seq(Nat))
<1>1. slice[c] \in Seq(Item) /\ call[c] \in CallRecord /\ offered[c] \in Seq(Seq(Nat))
  BY DEF Types
<1>2. MaxRetries \in Nat
  BY SinksAssumption
<1>3. /\ call[c].at \in Place /\ call[c].pos \in Nat /\ call[c].tries \in Nat
      /\ call[c].batch \in Seq(Nat) /\ call[c].rest \in Seq(Nat)
  BY <1>1 DEF CallRecord
<1>4. /\ call[c].pos \in 0 .. Len(slice[c]) /\ call[c].tries \in 0 .. MaxRetries
      /\ call[c].batch \in Seq(1 .. call[c].pos) /\ call[c].rest \in Seq(1 .. call[c].pos)
  BY DEF Types, TypeOK
<1>5. Len(slice[c]) \in Nat /\ DOMAIN slice[c] = 1 .. Len(slice[c])
  BY <1>1
<1> QED
  BY <1>1, <1>2, <1>3, <1>4, <1>5

(* The change of a call, field by field.                                     *)
LEMMA Update ==
  ASSUME Types, NEW c \in Call, NEW at \in Place, NEW pos \in Nat,
         NEW batch \in Seq(Nat), NEW rest \in Seq(Nat), NEW tries \in Nat,
         \/ call' = [call EXCEPT ![c] = [at |-> at, pos |-> pos, batch |-> batch, rest |-> rest,
                                         tries |-> tries]]
         \/ /\ call' = [call EXCEPT ![c].at = at]
            /\ pos = call[c].pos /\ batch = call[c].batch /\ rest = call[c].rest /\ tries = call[c].tries
         \/ /\ call' = [call EXCEPT ![c].pos = pos, ![c].at = at]
            /\ batch = call[c].batch /\ rest = call[c].rest /\ tries = call[c].tries
         \/ /\ call' = [call EXCEPT ![c].pos = pos]
            /\ at = call[c].at /\ batch = call[c].batch /\ rest = call[c].rest /\ tries = call[c].tries
         \/ /\ call' = [call EXCEPT ![c].pos = pos, ![c].rest = rest, ![c].at = at]
            /\ batch = call[c].batch /\ tries = call[c].tries
         \/ /\ call' = [call EXCEPT ![c].pos = pos, ![c].batch = batch, ![c].at = at]
            /\ rest = call[c].rest /\ tries = call[c].tries
         \/ /\ call' = [call EXCEPT ![c].at = at, ![c].batch = batch, ![c].rest = rest, ![c].tries = tries]
            /\ pos = call[c].pos
         \/ /\ call' = [call EXCEPT ![c].tries = tries]
            /\ at = call[c].at /\ pos = call[c].pos /\ batch = call[c].batch /\ rest = call[c].rest
  PROVE  Becomes(c, at, pos, batch, rest, tries)
<1>1. call \in [Call -> CallRecord] /\ call[c] \in CallRecord
  BY Typing DEF Types
<1>2. [at |-> at, pos |-> pos, batch |-> batch, rest |-> rest, tries |-> tries] \in CallRecord
  BY DEF CallRecord
<1>3. call' = [call EXCEPT ![c] = [at |-> at, pos |-> pos, batch |-> batch, rest |-> rest, tries |-> tries]]
  BY <1>1 DEF CallRecord
<1> QED
  BY <1>1, <1>2, <1>3 DEF Becomes

LEMMA LoopMoves ==
  ASSUME Types, NEW c \in Call
  PROVE  /\ Skip(c) => Passes(c)
         /\ Take(c) => Adds(c) \/ Defers(c)
         /\ SeesOver(c) => Passes(c) \/ Breaks(c)
         /\ Refuse(c) => Breaks(c)
         /\ LoopEnds(c) => Leaves(c)
<1> DEFINE r == call[c]
           v == Value(c)
<1>1. /\ r.pos \in Nat /\ r.batch \in Seq(Nat) /\ r.rest \in Seq(Nat) /\ r.tries \in Nat
      /\ v \in Nat /\ Append(r.batch, v) \in Seq(Nat) /\ <<v>> \in Seq(Nat)
  BY Typing DEF Value
<1>2. "loop" \in Place /\ "send" \in Place /\ "nil" \in Place /\ "error" \in Place /\ "flush" \in Place
  BY DEF Place
<1>3. \A done, ms : After(c, done, ms) \in {"loop", "send"}
  BY DEF After
<1>4. ASSUME Skip(c)
      PROVE  Passes(c)
  <2>1. call' = [call EXCEPT ![c].pos = v, ![c].at = After(c, v, r.batch)]
    BY <1>4 DEF Skip, Value
  <2>2. Becomes(c, After(c, v, r.batch), v, r.batch, r.rest, r.tries)
    <3> HIDE DEF v
    <3> QED
      BY <1>1, <1>2, <1>3, <2>1, Update
  <2> QED
    BY <1>3, <1>4, <2>2 DEF Skip, NextIs, Looks, Passes, Looking, Value
<1>5. ASSUME Take(c)
      PROVE  Adds(c) \/ Defers(c)
  <2>1. CASE Overflowing(c)
    <3>1. call' = [call EXCEPT ![c].pos = v, ![c].rest = <<v>>, ![c].at = "send"]
      BY <1>5, <2>1 DEF Take, Value, Overflowing
    <3>2. Becomes(c, "send", v, r.batch, <<v>>, r.tries)
      <4> HIDE DEF v
      <4> QED
        BY <1>1, <1>2, <3>1, Update
    <3> QED
      BY <1>5, <2>1, <3>2 DEF Take, NextIs, Looks, Defers, Looking, Value
  <2>2. CASE ~Overflowing(c)
    <3>1. call' = [call EXCEPT ![c].pos = v, ![c].batch = Append(r.batch, v),
                               ![c].at = After(c, v, Append(r.batch, v))]
      BY <1>5, <2>2 DEF Take, Value, Overflowing
    <3>2. Becomes(c, After(c, v, Append(r.batch, v)), v, Append(r.batch, v), r.rest, r.tries)
      <4> HIDE DEF v
      <4> QED
        BY <1>1, <1>2, <1>3, <3>1, Update
    <3> QED
      BY <1>3, <1>5, <2>2, <3>2 DEF Take, NextIs, Looks, Adds, Looking, Value
  <2> QED
    BY <2>1, <2>2
<1>6. \A at \in {"loop", "send", "nil", "error", "flush"} : Goes(c, at) => MovesTo(c, at)
  <2> TAKE at \in {"loop", "send", "nil", "error", "flush"}
  <2> HAVE Goes(c, at)
  <2>1. at \in Place /\ call' = [call EXCEPT ![c].at = at]
    BY <1>2 DEF Goes
  <2> QED
    BY <1>1, <2>1, Update DEF MovesTo
<1>7. ASSUME SeesOver(c)
      PROVE  Passes(c) \/ Breaks(c)
  <2>1. Looking(c) /\ c \in over /\ UNCHANGED offered
    BY <1>7 DEF SeesOver, Looking
  <2>2. CASE P.over = "skip" /\ call' = [call EXCEPT ![c].pos = @ + 1]
    <3>1. call' = [call EXCEPT ![c].pos = v] /\ r.at = "loop"
      BY <2>1, <2>2 DEF Value, Looking, At
    <3>2. Becomes(c, "loop", v, r.batch, r.rest, r.tries)
      <4> HIDE DEF v
      <4> QED
        BY <1>1, <1>2, <3>1, Update
    <3> QED
      BY <2>1, <2>2, <3>2 DEF Passes, Value
  <2>3. CASE P.over = "nil" /\ Goes(c, "nil")
    BY <1>6, <2>1, <2>3 DEF Breaks
  <2>4. CASE P.over = "error" /\ Goes(c, "error")
    BY <1>6, <2>1, <2>4 DEF Breaks
  <2> QED
    BY <1>7, <2>2, <2>3, <2>4 DEF SeesOver
<1>8. Refuse(c) => Breaks(c)
  BY <1>6 DEF Refuse, NextIs, Looks, Breaks, Looking, Value
<1>9. ASSUME LoopEnds(c)
      PROVE  Leaves(c)
  BY <1>6, <1>9 DEF LoopEnds, Leftover, Leaves
<1> QED
  BY <1>4, <1>5, <1>7, <1>8, <1>9

LEMMA RequestMoves ==
  ASSUME Types, NEW c \in Call
  PROVE  /\ Hold(c) \/ Accepted(c) => GoesOn(c)
         /\ Retry(c) => Repeats(c)
         /\ GivesUp(c) => IF P.error = "returned" THEN Ends(c) ELSE GoesOn(c)
         /\ Spill(c) => GoesOn(c) \/ Ends(c)
         /\ Flush(c) \/ ExposeAdds(c) \/ ExposeResets(c) => Finishes(c)
<1> DEFINE r == call[c]
<1>1. /\ r.pos \in Nat /\ r.batch \in Seq(Nat) /\ r.rest \in Seq(Nat) /\ r.tries \in Nat
      /\ <<>> \in Seq(Nat) /\ 0 \in Nat /\ r.tries + 1 \in Nat
  BY Typing
<1>2. "loop" \in Place /\ "send" \in Place /\ "nil" \in Place /\ "error" \in Place /\ "newMap" \in Place
  BY DEF Place
<1>3. \A at \in {"nil", "error", "newMap"} : Goes(c, at) => MovesTo(c, at)
  <2> TAKE at \in {"nil", "error", "newMap"}
  <2> HAVE Goes(c, at)
  <2>1. at \in Place /\ call' = [call EXCEPT ![c].at = at]
    BY <1>2 DEF Goes
  <2> QED
    BY <1>1, <2>1, Update DEF MovesTo
<1>4. Continue(c) => Becomes(c, "loop", r.pos, r.rest, <<>>, 0)
  <2> HAVE Continue(c)
  <2>1. call' = [call EXCEPT ![c].at = "loop", ![c].batch = r.rest, ![c].rest = <<>>, ![c].tries = 0]
    BY DEF Continue
  <2> QED
    BY <1>1, <1>2, <2>1, Update
<1>5. Hold(c) \/ Accepted(c) => GoesOn(c)
  BY <1>4 DEF Hold, Accepted, Requests, Offer, GoesOn, Requested
<1>6. ASSUME Retry(c)
      PROVE  Repeats(c)
  <2>1. call' = [call EXCEPT ![c].tries = r.tries + 1] /\ r.at = "send"
    BY <1>6 DEF Retry, Fails, Requests, At
  <2>2. Becomes(c, "send", r.pos, r.batch, r.rest, r.tries + 1)
    BY <1>1, <1>2, <2>1, Update
  <2> QED
    BY <1>6, <2>1, <2>2 DEF Retry, MayRetry, Invalid, Repeats, At
<1>7. GivesUp(c) => IF P.error = "returned" THEN Ends(c) ELSE GoesOn(c)
  BY <1>3, <1>4 DEF GivesUp, Fails, Requests, Offer, AfterFailure, Ends, GoesOn, Requested
<1>8. Spill(c) => GoesOn(c) \/ Ends(c)
  BY <1>3, <1>4 DEF Spill, Offer, Ends, GoesOn, Requested
<1>9. Flush(c) \/ ExposeAdds(c) \/ ExposeResets(c) => Finishes(c)
  BY <1>3 DEF Flush, ExposeAdds, ExposeResets, Finishes
<1> QED
  BY <1>5, <1>6, <1>7, <1>8, <1>9

LEMMA WriteDataMoves ==
  ASSUME Types, NEW c \in Call, WriteDataStep(c)
  PROVE  /\ UNCHANGED <<config, slice, loop>>
         /\ Moves(c) \/ UNCHANGED <<call, offered>>
<1>1. UNCHANGED <<config, slice, loop>>
  BY DEF WriteDataStep, LooksForFile, Creates, SeesOver, Die, Refuse, Skip, Take, LoopEnds, Hold, Accepted,
         Retry, GivesUp, Spill, Flush, ExposeAdds, ExposeResets, ConfigBreaksOff
<1>2. Die(c) \/ ConfigBreaksOff(c) \/ LooksForFile(c) \/ Creates(c) => UNCHANGED <<call, offered>>
  BY DEF Die, ConfigBreaksOff, LooksForFile, Creates
<1> QED
  BY <1>1, <1>2, LoopMoves, RequestMoves DEF WriteDataStep, Moves

-----------------------------------------------------------------------------
(* A move keeps the types of its call and leaves the other calls alone.      *)

LEMMA Widen ==
  ASSUME NEW n \in Nat, NEW s \in Seq(1 .. n)
  PROVE  /\ s \in Seq(1 .. n + 1) /\ Append(s, n + 1) \in Seq(1 .. n + 1)
         /\ <<n + 1>> \in Seq(1 .. n + 1)
<1>1. \A x \in 1 .. n : x \in 1 .. n + 1
  OBVIOUS
<1>2. n + 1 \in 1 .. n + 1
  OBVIOUS
<1>3. s \in Seq(1 .. n + 1)
  BY <1>1
<1> QED
  BY <1>2, <1>3

(* How the fields of the call may change.                                    *)
LEMMA MoveFields ==
  ASSUME Types, NEW c \in Call, Moves(c)
  PROVE  /\ call' \in [Call -> CallRecord]
         /\ \A d \in Call \ {c} : call'[d] = call[d]
         /\ call'[c].at # "none" /\ ~At(c, "none")
         /\ call'[c].pos \in {call[c].pos, call[c].pos + 1} /\ call'[c].pos <= Len(slice[c])
         /\ call'[c].tries \in {0, call[c].tries, call[c].tries + 1} /\ call'[c].tries <= MaxRetries
         /\ call'[c].batch \in Seq(1 .. call'[c].pos) /\ call'[c].rest \in Seq(1 .. call'[c].pos)
<1> DEFINE r == call[c]
<1>1. /\ r.pos \in Nat /\ r.pos <= Len(slice[c]) /\ Len(slice[c]) \in Nat
      /\ r.tries \in Nat /\ r.tries <= MaxRetries /\ MaxRetries \in Nat
      /\ r.batch \in Seq(1 .. r.pos) /\ r.rest \in Seq(1 .. r.pos) /\ <<>> \in Seq(1 .. r.pos)
  BY Typing
<1>2. /\ r.batch \in Seq(1 .. Value(c)) /\ r.rest \in Seq(1 .. Value(c))
      /\ Append(r.batch, Value(c)) \in Seq(1 .. Value(c)) /\ <<Value(c)>> \in Seq(1 .. Value(c))
  BY <1>1, Widen DEF Value
<1>3. Looking(c) => Value(c) \in Nat /\ Value(c) <= Len(slice[c]) /\ Value(c) = r.pos + 1
  BY <1>1 DEF Looking, Value
<1>4. Passes(c) \/ Adds(c) \/ Defers(c) => Looking(c)
  BY DEF Passes, Adds, Defers
<1>5. Passes(c) => \E at \in {"loop", "send"} : Becomes(c, at, Value(c), r.batch, r.rest, r.tries)
  BY DEF Passes
<1>6. Adds(c) => \E at \in {"loop", "send"} : Becomes(c, at, Value(c), Append(r.batch, Value(c)), r.rest, r.tries)
  BY DEF Adds
<1>7. Defers(c) => Becomes(c, "send", Value(c), r.batch, <<Value(c)>>, r.tries)
  BY DEF Defers
<1>8. Leaves(c) \/ Breaks(c) \/ Ends(c) \/ Finishes(c) =>
        \E at \in {"send", "flush", "nil", "error", "newMap"} : MovesTo(c, at)
  BY DEF Leaves, Breaks, Ends, Finishes
<1>9. GoesOn(c) => Becomes(c, "loop", r.pos, r.rest, <<>>, 0)
  BY DEF GoesOn
<1>10. Repeats(c) => Becomes(c, "send", r.pos, r.batch, r.rest, r.tries + 1) /\ r.tries + 1 <= MaxRetries
  BY <1>1 DEF Repeats
<1>11. ~At(c, "none")
  BY DEF Moves, Passes, Adds, Defers, Leaves, Breaks, GoesOn, Ends, Repeats, Finishes, Looking, Requested, At
<1>12. CASE Passes(c) \/ Adds(c) \/ Defers(c)
  BY <1>1, <1>2, <1>3, <1>4, <1>5, <1>6, <1>7, <1>11, <1>12 DEF Becomes
<1>13. CASE Leaves(c) \/ Breaks(c) \/ Ends(c) \/ Finishes(c)
  BY <1>1, <1>8, <1>11, <1>13 DEF Becomes, MovesTo
<1>14. CASE GoesOn(c)
  <2>1. /\ call' \in [Call -> CallRecord] /\ \A d \in Call \ {c} : call'[d] = call[d]
        /\ call'[c].at = "loop" /\ call'[c].pos = r.pos /\ call'[c].batch = r.rest
        /\ call'[c].rest = <<>> /\ call'[c].tries = 0
    BY <1>9, <1>14 DEF Becomes
  <2>2. call'[c].batch \in Seq(1 .. call'[c].pos) /\ call'[c].rest \in Seq(1 .. call'[c].pos)
    BY <1>1, <2>1
  <2>3. call'[c].at # "none" /\ call'[c].tries \in {0, r.tries, r.tries + 1} /\ call'[c].tries <= MaxRetries
    BY <1>1, <2>1
  <2> QED
    BY <1>1, <1>11, <2>1, <2>2, <2>3
<1>15. CASE Repeats(c)
  BY <1>1, <1>10, <1>11, <1>15 DEF Becomes
<1> QED
  BY <1>12, <1>13, <1>14, <1>15 DEF Moves

(* A request is added to the history of its call.                            *)
LEMMA Offering ==
  ASSUME Types, NEW c \in Call, Requested(c)
  PROVE  /\ offered' \in [Call -> Seq(Seq(Nat))]
         /\ \A d \in Call \ {c} : offered'[d] = offered[d] /\ Sent(d)' = Sent(d)
         /\ offered'[c] = Append(offered[c], call[c].batch)
         /\ ToSet(offered'[c]) = ToSet(offered[c]) \cup {call[c].batch}
         /\ Sent(c)' = Sent(c) \cup ToSet(call[c].batch)
<1>1. /\ offered' = [offered EXCEPT ![c] = Append(offered[c], call[c].batch)]
      /\ offered \in [Call -> Seq(Seq(Nat))]
  BY DEF Requested, Types
<1>2. offered[c] \in Seq(Seq(Nat)) /\ call[c].batch \in Seq(Nat)
  BY Typing
<1>3. Append(offered[c], call[c].batch) \in Seq(Seq(Nat))
  BY <1>2
<1>4. offered' \in [Call -> Seq(Seq(Nat))] /\ offered'[c] = Append(offered[c], call[c].batch)
  BY <1>1, <1>3
<1>5. ToSet(offered'[c]) = ToSet(offered[c]) \cup {call[c].batch}
  BY <1>2, <1>4, AppendSet
<1>6. \A d \in Call \ {c} : offered'[d] = offered[d]
  BY <1>1
<1>7. Sent(c)' = Sent(c) \cup ToSet(call[c].batch)
  BY <1>5 DEF Sent
<1>8. \A d \in Call \ {c} : Sent(d)' = Sent(d)
  BY <1>6 DEF Sent
<1> QED
  BY <1>4, <1>5, <1>6, <1>7, <1>8

LEMMA MoveOffers ==
  ASSUME Types, NEW c \in Call, Moves(c)
  PROVE  /\ offered' \in [Call -> Seq(Seq(Nat))]
         /\ \A d \in Call \ {c} : offered'[d] = offered[d]
         /\ \/ offered' = offered
            \/ Requested(c) /\ (GoesOn(c) \/ Ends(c))
<1>1. GoesOn(c) \/ Ends(c) => Requested(c)
  BY DEF GoesOn, Ends
<1>2. CASE GoesOn(c) \/ Ends(c)
  BY <1>1, <1>2, Offering
<1>3. CASE Passes(c) \/ Adds(c) \/ Defers(c) \/ Leaves(c) \/ Breaks(c) \/ Repeats(c) \/ Finishes(c)
  <2>1. offered' = offered
    BY <1>3 DEF Passes, Adds, Defers, Leaves, Breaks, Repeats, Finishes
  <2> QED
    BY <2>1 DEF Types
<1> QED
  BY <1>2, <1>3 DEF Moves

-----------------------------------------------------------------------------
(* The types.                                                                *)

LEMMA Messaging ==
  ASSUME Types
  PROVE  /\ \A c \in Call : Lengths[c] \in Nat
         /\ \A c \in Call : \A n \in 1 .. Lengths[c] : <<c, n>> \in Message
         /\ \A m \in Message : \E c \in Call : \E n \in 1 .. Lengths[c] : m = <<c, n>>
         /\ \A c \in Call : /\ DOMAIN slice[c] \subseteq 1 .. Lengths[c]
                            /\ ToSet(call[c].batch) \subseteq 1 .. call[c].pos
                            /\ ToSet(call[c].rest) \subseteq 1 .. call[c].pos
                            /\ 1 .. call[c].pos \subseteq DOMAIN slice[c]
                            /\ Messages(c) \subseteq Message
<1>1. \A c \in Call : Lengths[c] \in Nat
  BY SinksAssumption DEF Call
<1>2. \A c \in Call : \A n \in 1 .. Lengths[c] : <<c, n>> \in Message
  BY DEF Message
<1>3. \A m \in Message : \E c \in Call : \E n \in 1 .. Lengths[c] : m = <<c, n>>
  BY DEF Message
<1>4. ASSUME NEW c \in Call
      PROVE  /\ DOMAIN slice[c] \subseteq 1 .. Lengths[c]
             /\ ToSet(call[c].batch) \subseteq 1 .. call[c].pos
             /\ ToSet(call[c].rest) \subseteq 1 .. call[c].pos
             /\ 1 .. call[c].pos \subseteq DOMAIN slice[c]
  <2>1. /\ Len(slice[c]) \in Nat /\ DOMAIN slice[c] = 1 .. Len(slice[c])
        /\ call[c].pos \in 0 .. Len(slice[c])
        /\ call[c].batch \in Seq(1 .. call[c].pos) /\ call[c].rest \in Seq(1 .. call[c].pos)
    BY Typing
  <2>2. Len(slice[c]) <= Lengths[c]
    BY DEF Types, TypeOK
  <2>3. \A s \in Seq(1 .. call[c].pos) : ToSet(s) \subseteq 1 .. call[c].pos
    BY SetOfSequence
  <2> QED
    BY <1>1, <2>1, <2>2, <2>3
<1>5. ASSUME NEW c \in Call
      PROVE  Messages(c) \subseteq Message
  <2>1. ToSet(call[c].batch) \subseteq 1 .. Lengths[c]
    BY <1>4
  <2> QED
    BY <1>2, <2>1 DEF Messages
<1> QED
  BY <1>1, <1>2, <1>3, <1>4, <1>5

LEMMA Delivering ==
  ASSUME Types, NEW M
  PROVE  Deliver(M) =>
           /\ delivered' \in [Message -> Nat]
           /\ \A m \in Message :
                delivered'[m] = IF m \in M THEN delivered[m] + 1 ELSE delivered[m]
BY DEF Deliver, Types, TypeOK

(* What a step does to the client, the backend and the faults.               *)
BackendTyped ==
  /\ waiting \subseteq Message
  /\ delivered \in [Message -> Nat]
  /\ died \in BOOLEAN
  /\ faults \in 0 .. MaxFaults

FilesTyped ==
  /\ file \in [Call -> {"none", "missing", "created", "append", "failed"}]
  /\ overwritten \subseteq Message

LEMMA Faulting ==
  ASSUME Types
  PROVE  /\ Fault => faults' \in 1 .. MaxFaults /\ faults' # faults
         /\ UNCHANGED faults => faults' \in 0 .. MaxFaults
         /\ BackendTyped
BY SinksAssumption DEF Types, TypeOK, Fault, BackendTyped

LEMMA WriteDataBackend ==
  ASSUME Types, NEW c \in Call, WriteDataStep(c)
  PROVE  BackendTyped'
<1>1. /\ Fault => faults' \in 0 .. MaxFaults
      /\ UNCHANGED faults => faults' \in 0 .. MaxFaults
  BY Faulting
<1>2. BackendTyped /\ Messages(c) \subseteq Message
  BY Faulting, Messaging
<1>3. \A M : Deliver(M) => delivered' \in [Message -> Nat]
  BY Delivering
<1>4. CASE SeesOver(c) \/ Die(c) \/ Refuse(c) \/ Skip(c) \/ Take(c) \/ LoopEnds(c) \/ ConfigBreaksOff(c)
           \/ LooksForFile(c) \/ Creates(c)
  BY <1>1, <1>2, <1>4
  DEF LooksForFile, Creates, SeesOver, Die, Refuse, Skip, Take, LoopEnds, ConfigBreaksOff, BackendTyped, backend
<1>5. CASE Hold(c)
  BY <1>1, <1>2, <1>5 DEF Hold, BackendTyped
<1>6. CASE Accepted(c)
  BY <1>1, <1>2, <1>3, <1>6 DEF Accepted, BackendTyped
<1>7. CASE Retry(c) \/ GivesUp(c)
  BY <1>1, <1>2, <1>3, <1>7 DEF Retry, GivesUp, Fails, BackendTyped
<1>8. CASE Spill(c)
  BY <1>1, <1>2, <1>3, <1>8 DEF Spill, BackendTyped
<1>9. CASE Flush(c) \/ ExposeAdds(c) \/ ExposeResets(c)
  BY <1>1, <1>2, <1>3, <1>9 DEF Flush, ExposeAdds, ExposeResets, BackendTyped
<1> QED
  BY <1>4, <1>5, <1>6, <1>7, <1>8, <1>9 DEF WriteDataStep

(* What a step of a call does to the file and its rows.                      *)
LEMMA Filing ==
  ASSUME NEW c \in Call, WriteDataStep(c)
  PROVE  \/ LooksForFile(c)
         \/ Creates(c)
         \/ UNCHANGED file /\ (UNCHANGED overwritten \/ (WritesOver(c) /\ Running(c)))
BY DEF WriteDataStep, SeesOver, Die, Refuse, Skip, Take, LoopEnds, Hold, Accepted, Retry, GivesUp, Fails,
       Spill, Flush, ExposeAdds, ExposeResets, ConfigBreaksOff, csv, Requests, At, Running

LEMMA FilesTypedStep ==
  ASSUME Types, Next
  PROVE  FilesTyped'
<1>1. FilesTyped /\ Rows \subseteq Message
  BY DEF Types, TypeOK, FilesTyped, Rows
<1>2. ASSUME NEW c \in Call, WriteDataStep(c)
      PROVE  FilesTyped'
  <2>1. CASE LooksForFile(c)
    BY <1>1, <2>1 DEF LooksForFile, FilesTyped
  <2>2. CASE Creates(c)
    BY <1>1, <2>2 DEF Creates, FilesTyped
  <2>3. CASE UNCHANGED file /\ (UNCHANGED overwritten \/ WritesOver(c))
    BY <1>1, <2>3 DEF WritesOver, FilesTyped
  <2> QED
    BY <1>2, <2>1, <2>2, <2>3, Filing
<1>3. StartWrite \/ WriteDone \/ Deadline \/ Shutdown \/ ClientSends \/ MapRace => UNCHANGED csv
  BY DEF StartWrite, WriteDone, Deadline, Shutdown, ClientSends, MapRace
<1> QED
  BY <1>1, <1>2, <1>3 DEF Next, FilesTyped, csv

LEMMA Starting ==
  ASSUME Types, Loop, StartWrite
  PROVE  /\ next' = next + 1 /\ next' \in Call /\ main' = "writing"
         /\ slice' \in [Call -> Seq(Item)] /\ Len(slice'[next']) <= Lengths[next']
         /\ \A d \in Call \ {next'} : slice'[d] = slice[d]
         /\ call[next'] = Idle /\ offered[next'] = <<>>
         /\ Becomes(next', "loop", 0, <<>>, <<>>, 0)
         /\ UNCHANGED <<config, backend, offered, over, died, faults>>
<1>1. next' = next + 1 /\ next < Len(Lengths) /\ main' = "writing"
      /\ UNCHANGED <<config, backend, offered, over, died, faults>>
  BY DEF StartWrite
<1>2. Call = 1 .. Len(Lengths) /\ Len(Lengths) \in Nat /\ next \in Call \cup {0}
  BY SinksAssumption DEF Call, Types, TypeOK
<1>3. next' \in Call /\ next' > next
  BY <1>1, <1>2
<1>4. call[next'] = Idle /\ offered[next'] = <<>>
  BY <1>3 DEF Loop
<1>5. PICK s \in BoundedSeq({v \in Item : Told(v)}, Lengths[next']) : slice' = [slice EXCEPT ![next'] = s]
  BY DEF StartWrite
<1>6. s \in Seq(Item) /\ Len(s) <= Lengths[next']
  <2>1. Lengths[next'] \in Nat
    BY <1>3, Messaging
  <2>2. PICK m \in 0 .. Lengths[next'] : s \in [1 .. m -> {v \in Item : Told(v)}]
    BY <1>5 DEF BoundedSeq, SeqOf
  <2>3. s \in Seq(Item) /\ Len(s) = m
    BY <2>1, <2>2
  <2> QED
    BY <2>1, <2>2, <2>3
<1>7. slice' \in [Call -> Seq(Item)] /\ slice'[next'] = s /\ \A d \in Call \ {next'} : slice'[d] = slice[d]
  BY <1>3, <1>5, <1>6 DEF Types
<1>8. Becomes(next', "loop", 0, <<>>, <<>>, 0)
  <2>1. call' = [call EXCEPT ![next'].at = "loop"]
    BY DEF StartWrite, Goes
  <2>2. /\ call[next'].pos = 0 /\ call[next'].batch = <<>> /\ call[next'].rest = <<>>
        /\ call[next'].tries = 0
    BY <1>4 DEF Idle
  <2>3. "loop" \in Place /\ 0 \in Nat /\ <<>> \in Seq(Nat)
    BY DEF Place
  <2> DEFINE c == next'
  <2>4. c \in Call /\ call' = [call EXCEPT ![c].at = "loop"]
        /\ call[c].pos = 0 /\ call[c].batch = <<>> /\ call[c].rest = <<>> /\ call[c].tries = 0
    BY <1>3, <2>1, <2>2
  <2> HIDE DEF c
  <2>5. Becomes(c, "loop", 0, <<>>, <<>>, 0)
    BY <2>3, <2>4, Update
  <2> QED
    BY <2>5 DEF c
<1> QED
  BY <1>1, <1>3, <1>4, <1>6, <1>7, <1>8

LEMMA ApartBackend ==
  ASSUME Types, WriteDone \/ Deadline \/ Shutdown \/ ClientSends \/ MapRace
  PROVE  /\ UNCHANGED <<config, slice, call, offered, next>>
         /\ BackendTyped' /\ main' \in {"idle", "writing", "stopped"} /\ over' \subseteq over \cup {next}
         /\ over' # over => timed /\ main = "writing"
<1>1. /\ Fault => faults' \in 0 .. MaxFaults
      /\ UNCHANGED faults => faults' \in 0 .. MaxFaults
      /\ BackendTyped
  BY Faulting
<1>2. \A M : Deliver(M) => delivered' \in [Message -> Nat]
  BY Delivering
<1>3. main \in {"idle", "writing", "stopped"}
  BY DEF Types, TypeOK
<1>4. CASE WriteDone \/ Deadline \/ MapRace
  BY <1>1, <1>3, <1>4 DEF WriteDone, Deadline, MapRace, BackendTyped, backend, loop
<1>5. CASE Shutdown
  BY <1>1, <1>2, <1>5 DEF Shutdown, BackendTyped, backend
<1>6. CASE ClientSends
  BY <1>1, <1>2, <1>3, <1>6 DEF ClientSends, BackendTyped, loop
<1> QED
  BY <1>4, <1>5, <1>6

LEMMA TypesStep ==
  ASSUME Types, Loop, Next
  PROVE  Types'
<1>1. \A c \in Call :
        /\ slice[c] \in Seq(Item) /\ Len(slice[c]) <= Lengths[c] /\ Len(slice[c]) \in Nat
        /\ call[c].at \in Place /\ call[c].pos \in 0 .. Len(slice[c])
        /\ call[c].batch \in Seq(1 .. call[c].pos) /\ call[c].rest \in Seq(1 .. call[c].pos)
        /\ call[c].tries \in 0 .. MaxRetries
  BY Typing DEF Types, TypeOK
<1>2. over \subseteq 1 .. next /\ next \in Call \cup {0} /\ Call = 1 .. Len(Lengths) /\ Len(Lengths) \in Nat
      /\ main \in {"idle", "writing", "stopped"} /\ BackendTyped
  BY Faulting, SinksAssumption DEF Types, TypeOK, Call
<1>3. ASSUME pump' = pump, timed' = timed, slice' \in [Call -> Seq(Item)],
             call' \in [Call -> CallRecord], offered' \in [Call -> Seq(Seq(Nat))],
             BackendTyped', main' \in {"idle", "writing", "stopped"},
             over' \subseteq 1 .. next', next' \in Call \cup {0},
             \A c \in Call :
               /\ Len(slice'[c]) <= Lengths[c] /\ call'[c].pos <= Len(slice'[c])
               /\ call'[c].batch \in Seq(1 .. call'[c].pos) /\ call'[c].rest \in Seq(1 .. call'[c].pos)
               /\ call'[c].tries <= MaxRetries
      PROVE  Types'
  <2>1. ASSUME NEW c \in Call
        PROVE  /\ slice'[c] \in Seq(Item) /\ call'[c].at \in Place
               /\ call'[c].pos \in 0 .. Len(slice'[c]) /\ call'[c].tries \in 0 .. MaxRetries
    <3>1. slice'[c] \in Seq(Item) /\ call'[c] \in CallRecord /\ MaxRetries \in Nat
      BY <1>3, SinksAssumption
    <3>2. Len(slice'[c]) \in Nat /\ call'[c].pos \in Nat /\ call'[c].tries \in Nat /\ call'[c].at \in Place
      BY <3>1 DEF CallRecord
    <3> QED
      BY <1>3, <3>1, <3>2
  <2>2. pump \in DOMAIN Profile /\ timed \in BOOLEAN
    BY DEF Types, TypeOK
  <2> QED
    BY <1>3, <2>1, <2>2, FilesTypedStep DEF Types, TypeOK, BackendTyped, FilesTyped, Place
<1>4. ASSUME NEW c \in Call, WriteDataStep(c)
      PROVE  Types'
  <2>1. UNCHANGED <<config, slice, loop>> /\ (Moves(c) \/ UNCHANGED <<call, offered>>) /\ BackendTyped'
    BY <1>4, WriteDataMoves, WriteDataBackend
  <2>2. slice' \in [Call -> Seq(Item)] /\ slice' = slice
    BY <2>1 DEF Types
  <2>3. pump' = pump /\ timed' = timed /\ main' = main /\ over' = over /\ next' = next
    BY <2>1 DEF config, loop
  <2>4. CASE Moves(c)
    <3>1. offered' \in [Call -> Seq(Seq(Nat))] /\ call' \in [Call -> CallRecord]
      BY <2>4, MoveFields, MoveOffers
    <3>2. ASSUME NEW d \in Call
          PROVE  /\ Len(slice[d]) <= Lengths[d] /\ call'[d].pos <= Len(slice[d])
                 /\ call'[d].batch \in Seq(1 .. call'[d].pos) /\ call'[d].rest \in Seq(1 .. call'[d].pos)
                 /\ call'[d].tries <= MaxRetries
      <4>1. CASE d = c
        BY <1>1, <2>4, <4>1, MoveFields
      <4>2. CASE d # c
        <5>1. call'[d] = call[d]
          BY <2>4, <4>2, MoveFields
        <5> QED
          BY <1>1, <5>1
      <4> QED
        BY <4>1, <4>2
    <3> QED
      BY <1>2, <1>3, <2>1, <2>2, <2>3, <3>1, <3>2
  <2>5. CASE UNCHANGED <<call, offered>>
    <3>1. offered' \in [Call -> Seq(Seq(Nat))] /\ call' \in [Call -> CallRecord] /\ call' = call
      BY <2>5 DEF Types
    <3> QED
      BY <1>1, <1>2, <1>3, <2>1, <2>2, <2>3, <3>1
  <2> QED
    BY <2>1, <2>4, <2>5
<1>5. ASSUME StartWrite
      PROVE  Types'
  <2> DEFINE b == next'
  <2>1. /\ b = next + 1 /\ b \in Call /\ main' = "writing"
        /\ slice' \in [Call -> Seq(Item)] /\ Len(slice'[b]) <= Lengths[b]
        /\ \A d \in Call \ {b} : slice'[d] = slice[d]
        /\ UNCHANGED <<config, backend, offered, over, died, faults>>
        /\ call' \in [Call -> CallRecord] /\ \A d \in Call \ {b} : call'[d] = call[d]
        /\ call'[b].pos = 0 /\ call'[b].batch = <<>> /\ call'[b].rest = <<>> /\ call'[b].tries = 0
    BY <1>5, Starting DEF Becomes
  <2>2. b = next' /\ next' \in Call \cup {0} /\ pump' = pump /\ timed' = timed /\ over' = over
        /\ BackendTyped' /\ over' \subseteq 1 .. next' /\ main' \in {"idle", "writing", "stopped"}
        /\ offered' \in [Call -> Seq(Seq(Nat))]
    BY <1>2, <2>1 DEF config, backend, BackendTyped, Types
  <2> HIDE DEF b
  <2>3. ASSUME NEW d \in Call
        PROVE  /\ Len(slice'[d]) <= Lengths[d] /\ call'[d].pos <= Len(slice'[d])
               /\ call'[d].batch \in Seq(1 .. call'[d].pos) /\ call'[d].rest \in Seq(1 .. call'[d].pos)
               /\ call'[d].tries <= MaxRetries
    <3>1. CASE d = b
      <4>1. slice'[b] \in Seq(Item) /\ Len(slice'[b]) \in Nat /\ MaxRetries \in Nat /\ <<>> \in Seq(1 .. 0)
        BY <2>1, SinksAssumption
      <4>2. call'[d].batch \in Seq(1 .. call'[d].pos) /\ call'[d].rest \in Seq(1 .. call'[d].pos)
        BY <2>1, <3>1, <4>1
      <4>3. Len(slice'[d]) <= Lengths[d] /\ call'[d].pos <= Len(slice'[d]) /\ call'[d].tries <= MaxRetries
        BY <2>1, <3>1, <4>1
      <4> QED
        BY <4>2, <4>3
    <3>2. CASE d # b
      <4>1. call'[d] = call[d] /\ slice'[d] = slice[d]
        BY <2>1, <3>2
      <4> QED
        BY <1>1, <4>1
    <3> QED
      BY <3>1, <3>2
  <2> QED
    BY <1>3, <2>1, <2>2, <2>3
<1>6. ASSUME WriteDone \/ Deadline \/ Shutdown \/ ClientSends \/ MapRace
      PROVE  Types'
  <2>1. /\ UNCHANGED <<config, slice, call, offered, next>>
        /\ BackendTyped' /\ main' \in {"idle", "writing", "stopped"} /\ over' \subseteq over \cup {next}
        /\ over' # over => timed /\ main = "writing"
    BY <1>6, ApartBackend
  <2>2. over' \subseteq 1 .. next
    BY <1>2, <2>1 DEF Loop
  <2>3. /\ slice' = slice /\ call' = call /\ offered' = offered /\ next' = next /\ pump' = pump
        /\ timed' = timed
        /\ slice' \in [Call -> Seq(Item)] /\ call' \in [Call -> CallRecord]
        /\ offered' \in [Call -> Seq(Seq(Nat))]
    BY <2>1 DEF config, Types
  <2> QED
    BY <1>1, <1>2, <1>3, <2>1, <2>2, <2>3
<1> QED
  BY <1>4, <1>5, <1>6 DEF Next

(* Calls start in order, and without a timeout run one after the other.      *)
LEMMA LoopStep ==
  ASSUME Types, Loop, Next
  PROVE  Loop'
<1>1. over \subseteq 1 .. next /\ next \in Call \cup {0} /\ Call = 1 .. Len(Lengths) /\ Len(Lengths) \in Nat
      /\ main \in {"idle", "writing", "stopped"}
  BY SinksAssumption DEF Types, TypeOK, Call
<1>2. ASSUME NEW c \in Call, WriteDataStep(c)
      PROVE  Loop'
  <2>1. UNCHANGED <<config, slice, loop>> /\ (Moves(c) \/ UNCHANGED <<call, offered>>)
    BY <1>2, WriteDataMoves
  <2>2. timed' = timed /\ slice' = slice /\ over' = over /\ main' = main /\ next' = next
    BY <2>1 DEF config, loop
  <2>3. CASE Moves(c)
    <3>1. /\ \A d \in Call \ {c} : call'[d] = call[d] /\ offered'[d] = offered[d]
          /\ ~At(c, "none") /\ call'[c].at # "none"
      BY <2>3, MoveFields, MoveOffers
    <3>2. Running(c)
      BY <2>3
      DEF Moves, Passes, Adds, Defers, Leaves, Breaks, GoesOn, Ends, Repeats, Finishes, Looking,
          Requested, At, Running
    <3>3. ~(c > next)
      BY <3>1 DEF Loop, At, Idle
    <3> QED
      BY <2>2, <3>1, <3>2, <3>3 DEF Loop, At, Running
  <2>4. CASE UNCHANGED <<call, offered>>
    BY <2>2, <2>4 DEF Loop, At, Running
  <2> QED
    BY <2>1, <2>3, <2>4
<1>3. ASSUME StartWrite
      PROVE  Loop'
  <2> DEFINE b == next'
  <2>1. /\ b = next + 1 /\ b \in Call /\ main' = "writing"
        /\ \A d \in Call \ {b} : slice'[d] = slice[d]
        /\ UNCHANGED <<config, backend, offered, over, died, faults>>
        /\ \A d \in Call \ {b} : call'[d] = call[d]
        /\ call'[b].at = "loop" /\ main = "idle"
    BY <1>3, Starting DEF Becomes, StartWrite
  <2>2. b = next' /\ timed' = timed /\ over' = over /\ offered' = offered
    BY <2>1 DEF config
  <2> HIDE DEF b
  <2>3. ~timed => over' = {} /\ \A c \in Call : Running(c)' => c = next' /\ main' = "writing"
    BY <2>1, <2>2 DEF Loop, Running
  <2>4. ASSUME NEW c \in Call
        PROVE  IF c > b THEN slice'[c] = <<>> /\ call'[c] = Idle /\ offered'[c] = <<>>
               ELSE call'[c].at # "none"
    BY <1>1, <2>1, <2>2 DEF Loop, At
  <2>5. next' # 0
    BY <1>1, <2>1, <2>2
  <2> QED
    BY <2>2, <2>3, <2>4, <2>5 DEF Loop, At
<1>4. ASSUME WriteDone \/ Deadline \/ Shutdown \/ ClientSends \/ MapRace
      PROVE  Loop'
  <2>1. /\ UNCHANGED <<config, slice, call, offered, next>>
        /\ over' # over => timed /\ main = "writing"
    BY <1>4, ApartBackend
  <2>2. /\ main' = "writing" => main = "writing"
        /\ ~timed => (main = "writing" => main' = "writing" \/ Returned(next))
    BY <1>4 DEF WriteDone, Deadline, Shutdown, ClientSends, MapRace, loop
  <2>3. Returned(next) => ~Running(next)
    BY DEF Returned, Running
  <2> QED
    BY <1>1, <2>1, <2>2, <2>3 DEF Loop, At, Running, config
<1> QED
  BY <1>2, <1>3, <1>4 DEF Next

-----------------------------------------------------------------------------
(* The order of requests.                                                    *)

LEMMA SmallSequences ==
  /\ ToSet(<<>>) = {} /\ Ascending(<<>>)
  /\ \A v : ToSet(<<v>>) = {v} /\ Ascending(<<v>>)
<1>1. DOMAIN <<>> = {} /\ \A v : DOMAIN <<v>> = {1} /\ <<v>>[1] = v
  OBVIOUS
<1> QED
  BY <1>1 DEF ToSet, Ascending

LEMMA AscendingAppend ==
  ASSUME NEW s \in Seq(Nat), NEW v \in Nat, Ascending(s), \A n \in ToSet(s) : n < v
  PROVE  Ascending(Append(s, v))
<1> DEFINE t == Append(s, v)
<1>1. /\ DOMAIN s = 1 .. Len(s) /\ DOMAIN t = 1 .. Len(s) + 1 /\ Len(s) \in Nat
      /\ t[Len(s) + 1] = v /\ \A i \in DOMAIN s : t[i] = s[i] /\ s[i] < v
  BY AppendFacts DEF ToSet
<1> HIDE DEF t
<1>2. ASSUME NEW i \in DOMAIN t, NEW j \in DOMAIN t, i < j
      PROVE  t[i] < t[j]
  <2>1. i \in DOMAIN s
    BY <1>1, <1>2
  <2>2. CASE j = Len(s) + 1
    BY <1>1, <2>1, <2>2
  <2>3. CASE j \in DOMAIN s
    <3>1. s[i] < s[j]
      BY <1>2, <2>1, <2>3 DEF Ascending
    <3> QED
      BY <1>1, <2>1, <2>3, <3>1
  <2> QED
    BY <1>1, <2>2, <2>3
<1>3. Ascending(t)
  BY <1>2 DEF Ascending
<1> QED
  BY <1>3 DEF t

LEMMA InOrderAppend ==
  ASSUME NEW bs \in Seq(Seq(Nat)), NEW b \in Seq(Nat), InOrder(bs), Ascending(b),
         \A a \in ToSet(bs) : \A m \in ToSet(a), n \in ToSet(b) : m < n
  PROVE  InOrder(Append(bs, b))
<1> DEFINE cs == Append(bs, b)
<1>1. /\ DOMAIN bs = 1 .. Len(bs) /\ DOMAIN cs = 1 .. Len(bs) + 1 /\ Len(bs) \in Nat
      /\ cs[Len(bs) + 1] = b /\ \A i \in DOMAIN bs : cs[i] = bs[i] /\ bs[i] \in ToSet(bs)
      /\ ToSet(cs) = ToSet(bs) \cup {b}
  <2>1. ToSet(cs) = ToSet(bs) \cup {b}
    BY AppendSet
  <2>2. \A i \in DOMAIN bs : bs[i] \in ToSet(bs)
    BY DEF ToSet
  <2> QED
    BY <2>1, <2>2, AppendFacts
<1> HIDE DEF cs
<1>2. \A a \in ToSet(cs) : Ascending(a)
  BY <1>1 DEF InOrder
<1>3. ASSUME NEW i \in DOMAIN cs, NEW j \in DOMAIN cs, i < j
      PROVE  \A m \in ToSet(cs[i]), n \in ToSet(cs[j]) : m < n
  <2>1. i \in DOMAIN bs
    BY <1>1, <1>3
  <2>2. CASE j = Len(bs) + 1
    BY <1>1, <2>1, <2>2
  <2>3. CASE j \in DOMAIN bs
    <3>1. \A m \in ToSet(bs[i]), n \in ToSet(bs[j]) : m < n
      BY <1>3, <2>1, <2>3 DEF InOrder
    <3> QED
      BY <1>1, <2>1, <2>3, <3>1
  <2> QED
    BY <1>1, <2>2, <2>3
<1>4. InOrder(cs)
  BY <1>2, <1>3 DEF InOrder
<1> QED
  BY <1>4 DEF cs

(* What follows a request.                                                   *)
LEMMA RestFacts ==
  ASSUME Types, NEW c \in Call, Shape(c), Requested(c)
  PROVE  /\ call[c].rest = <<>> \/ (P.cut = "size" /\ call[c].rest = <<call[c].pos>>)
         /\ Fits(c, call[c].batch) \/ P.cut = "slice"
         /\ Ascending(call[c].rest)
         /\ At(c, "loop") => pump = "csv"
<1>1. At(c, "loop") => pump = "csv" /\ P.cut = "slice"
  BY Profiled DEF Requested, Common, At
<1>2. call[c].rest = <<>> \/ (P.cut = "size" /\ call[c].rest = <<call[c].pos>>)
  BY DEF Shape, Filling, Sending, Requested
<1>3. Ascending(call[c].rest)
  BY <1>2, SmallSequences
<1>4. Fits(c, call[c].batch) \/ P.cut = "slice"
  BY <1>1 DEF Shape, Sending, Requested
<1> QED
  BY <1>1, <1>2, <1>3, <1>4

LEMMA OrderMove ==
  ASSUME Types, NEW c \in Call, Order(c), Shape(c), Moves(c)
  PROVE  Order(c)'
<1> DEFINE r == call[c]
           s == call'[c]
<1>1. /\ r.pos \in Nat /\ r.batch \in Seq(Nat) /\ r.rest \in Seq(Nat) /\ Value(c) = r.pos + 1
      /\ offered[c] \in Seq(Seq(Nat)) /\ Value(c) \in Nat
      /\ ToSet(r.batch) \subseteq 1 .. r.pos /\ ToSet(r.rest) \subseteq 1 .. r.pos
  BY Typing, Messaging DEF Value
<1>2. Sent(c) \subseteq 1 .. r.pos /\ InOrder(offered[c])
  BY DEF Order
<1>3. Looking(c) => /\ r.rest = <<>>
                    /\ Ascending(r.batch)
                    /\ \A m \in Sent(c), n \in ToSet(r.batch) : m < n
  BY DEF Looking, Shape, Filling, Order, At
<1>4. ASSUME offered' = offered, s.pos \in {r.pos, r.pos + 1},
             s.at \in {"loop", "send"} =>
               /\ Ascending(s.batch)
               /\ \A m \in Sent(c), n \in ToSet(s.batch) \cup ToSet(s.rest) : m < n
               /\ \A m \in ToSet(s.batch), n \in ToSet(s.rest) : m < n
      PROVE  Order(c)'
  <2>1. Sent(c)' = Sent(c)
    BY <1>4 DEF Sent
  <2>2. Sent(c) \subseteq 1 .. s.pos
    BY <1>1, <1>2, <1>4
  <2> QED
    BY <1>2, <1>4, <2>1, <2>2 DEF Order
<1>5. CASE Passes(c)
  <2>1. Looking(c) /\ offered' = offered /\ s.pos = Value(c) /\ s.batch = r.batch /\ s.rest = r.rest
    BY <1>5 DEF Passes, Becomes
  <2> QED
    BY <1>1, <1>3, <1>4, <2>1, SmallSequences
<1>6. CASE Adds(c)
  <2>1. /\ Looking(c) /\ offered' = offered /\ s.pos = Value(c)
        /\ s.batch = Append(r.batch, Value(c)) /\ s.rest = r.rest
    BY <1>6 DEF Adds, Becomes
  <2>2. ToSet(s.batch) = ToSet(r.batch) \cup {Value(c)} /\ Ascending(s.batch)
    <3>1. ToSet(Append(r.batch, Value(c))) = ToSet(r.batch) \cup {Value(c)}
      <4>1. r.batch \in Seq(Nat) /\ Value(c) \in Nat
        BY <1>1
      <4> HIDE DEF r
      <4> QED
        BY <4>1, AppendSet
    <3>2. \A n \in ToSet(r.batch) : n < Value(c)
      BY <1>1
    <3>3. Ascending(Append(r.batch, Value(c)))
      BY <1>1, <1>3, <2>1, <3>2, AscendingAppend
    <3> QED
      BY <2>1, <3>1, <3>3
  <2>3. \A m \in Sent(c) : m < Value(c)
    BY <1>1, <1>2
  <2>4. ToSet(s.rest) = {}
    BY <1>3, <2>1, SmallSequences
  <2> QED
    BY <1>1, <1>3, <1>4, <2>1, <2>2, <2>3, <2>4
<1>7. CASE Defers(c)
  <2>1. /\ Looking(c) /\ offered' = offered /\ s.pos = Value(c)
        /\ s.batch = r.batch /\ s.rest = <<Value(c)>>
    BY <1>7 DEF Defers, Becomes
  <2>2. ToSet(s.rest) = {Value(c)}
    BY <2>1, SmallSequences
  <2>3. \A m \in Sent(c) \cup ToSet(r.batch) : m < Value(c)
    BY <1>1, <1>2
  <2> QED
    BY <1>1, <1>3, <1>4, <2>1, <2>2, <2>3
<1>8. CASE Leaves(c) \/ Breaks(c) \/ Finishes(c) \/ Repeats(c)
  <2>1. /\ offered' = offered /\ s.pos = r.pos /\ s.batch = r.batch /\ s.rest = r.rest
        /\ s.at \in {"loop", "send"} => r.at \in {"loop", "send"}
    BY <1>8 DEF Leaves, Breaks, Finishes, Repeats, MovesTo, Becomes, At, Looking
  <2> QED
    BY <1>1, <1>4, <2>1 DEF Order
<1>9. CASE GoesOn(c) \/ Ends(c)
  <2>1. Requested(c) /\ r.at \in {"loop", "send"}
    BY <1>9 DEF GoesOn, Ends, Requested, At
  <2>2. /\ Ascending(r.batch)
        /\ \A m \in Sent(c), n \in ToSet(r.batch) \cup ToSet(r.rest) : m < n
        /\ \A m \in ToSet(r.batch), n \in ToSet(r.rest) : m < n
    BY <2>1 DEF Order
  <2>3. offered'[c] = Append(offered[c], r.batch) /\ Sent(c)' = Sent(c) \cup ToSet(r.batch)
    BY <2>1, Offering
  <2>4. InOrder(offered'[c])
    <3>1. \A a \in ToSet(offered[c]) : \A m \in ToSet(a), n \in ToSet(r.batch) : m < n
      BY <2>2 DEF Sent
    <3> QED
      BY <1>1, <1>2, <2>2, <2>3, <3>1, InOrderAppend
  <2>5. CASE GoesOn(c)
    <3>1. s.pos = r.pos /\ s.batch = r.rest /\ s.rest = <<>>
      BY <2>5 DEF GoesOn, Becomes
    <3>2. Ascending(r.rest)
      BY <2>1, RestFacts
    <3> QED
      BY <1>1, <1>2, <2>2, <2>3, <2>4, <3>1, <3>2, SmallSequences DEF Order
  <2>6. CASE Ends(c)
    <3>1. s.pos = r.pos /\ s.at = "error"
      BY <2>6 DEF Ends, MovesTo, Becomes
    <3> QED
      BY <1>1, <1>2, <2>3, <2>4, <3>1 DEF Order
  <2> QED
    BY <1>9, <2>5, <2>6
<1> QED
  BY <1>5, <1>6, <1>7, <1>8, <1>9 DEF Moves

-----------------------------------------------------------------------------
(* The shape of requests.                                                    *)

(* What depends on the pump and on the slice of a call only.                 *)
LEMMA SameSlice ==
  ASSUME NEW c \in Call, slice'[c] = slice[c], UNCHANGED config
  PROVE  /\ P' = P /\ pump' = pump /\ timed' = timed
         /\ \A b : Size(c, b)' = Size(c, b) /\ (Fits(c, b)' <=> Fits(c, b))
         /\ StartsTooLarge(c)' <=> StartsTooLarge(c)
         /\ \A n : /\ Reaction(c, n)' = Reaction(c, n)
                   /\ Spoils(c, n)' <=> Spoils(c, n)
                   /\ PassedOver(c, n)' <=> PassedOver(c, n)
         /\ Spoiled(c)' <=> Spoiled(c)
<1>1. P' = P /\ pump' = pump /\ timed' = timed
  BY DEF P, config
<1>2. ASSUME NEW b
      PROVE  Size(c, b)' = Size(c, b) /\ (Fits(c, b)' <=> Fits(c, b))
  <2>1. Size(c, b)' = Size(c, b)
    BY DEF Size
  <2> QED
    BY <1>1, <2>1 DEF Fits
<1>3. StartsTooLarge(c)' <=> StartsTooLarge(c)
  BY <1>1 DEF StartsTooLarge
<1>4. ASSUME NEW n
      PROVE  /\ Reaction(c, n)' = Reaction(c, n)
             /\ Spoils(c, n)' <=> Spoils(c, n)
             /\ PassedOver(c, n)' <=> PassedOver(c, n)
  <2>1. Reaction(c, n)' = Reaction(c, n)
    BY <1>1 DEF Reaction
  <2> QED
    BY <1>1, <2>1 DEF Spoils, PassedOver
<1>5. Spoiled(c)' <=> Spoiled(c)
  BY <1>4 DEF Spoiled
<1> QED
  BY <1>1, <1>2, <1>3, <1>4, <1>5

LEMMA Reacting ==
  ASSUME Types, NEW c \in Call, NEW n
  PROVE  /\ pump \in {"splunk", "splunkBatch"} => Reaction(c, n) # "skip"
         /\ Reaction(c, n) = "exit" => Reaction(c, n) \notin {"fine", "blank"}
         /\ slice[c][n].class = "ok" => Reaction(c, n) = "fine"
  BY Profiled DEF Common, Reaction

LEMMA ShapePasses ==
  ASSUME Types, NEW c \in Call, Shape(c), Passes(c), UNCHANGED <<config, slice, loop>>
  PROVE  Shape(c)'
<1> DEFINE r == call[c]
           s == call'[c]
           v == Value(c)
<1>1. /\ r.pos \in Nat /\ v = r.pos + 1 /\ r.batch \in Seq(Nat) /\ Len(r.batch) \in Nat
      /\ Limit \in Nat \ {0} /\ Common
  BY Typing, SinksAssumption, Profiled DEF Value
<1>2. /\ r.rest = <<>> /\ r.tries = 0
      /\ P.cut = "each" => r.batch = <<>>
      /\ P.cut = "limit" => Len(r.batch) <= r.pos % Limit
      /\ \A b \in ToSet(offered[c]) : Fits(c, b)
  BY DEF Passes, Looking, Shape, Filling
<1>3. PICK at \in {"loop", "send"} :
        /\ s.at = at /\ s.pos = v /\ s.batch = r.batch /\ s.rest = r.rest /\ s.tries = r.tries
        /\ \/ Reaction(c, v) = "skip" /\ at = After(c, v, r.batch)
           \/ P.over = "skip" /\ at = "loop"
  BY DEF Passes, Becomes
<1>4. P.cut # "size"
  BY <1>1, <1>3, Reacting DEF Common
<1>5. offered' = offered /\ P' = P /\ \A b : Fits(c, b)' <=> Fits(c, b)
  BY SameSlice DEF Passes
<1>6. CASE at = "loop"
  <2>1. P.cut = "limit" => Len(r.batch) <= v % Limit
    <3>1. HAVE P.cut = "limit"
    <3>2. r.batch = <<>> \/ (r.batch # <<>> /\ v % Limit # 0)
      BY <1>1, <1>3, <1>6, <3>1 DEF After, Due, Common
    <3>3. v % Limit = IF (r.pos % Limit) + 1 = Limit THEN 0 ELSE (r.pos % Limit) + 1
      BY <1>1, NextRest
    <3>4. (v % Limit) \in Nat /\ (r.pos % Limit) \in Nat
      <4>1. v \in Nat /\ r.pos \in Nat /\ Limit \in Nat \ {0}
        BY <1>1
      <4> HIDE DEF v, r
      <4>2. (v % Limit) \in 0 .. Limit - 1
        BY <4>1, Quotient
      <4>3. (r.pos % Limit) \in 0 .. Limit - 1
        BY <4>1, Quotient
      <4> QED
        BY <4>1, <4>2, <4>3
    <3>5. CASE r.batch = <<>>
      BY <3>4, <3>5
    <3>6. CASE v % Limit # 0
      BY <1>1, <1>2, <3>1, <3>3, <3>4, <3>6
    <3> QED
      BY <3>2, <3>5, <3>6
  <2> QED
    BY <1>2, <1>3, <1>4, <1>5, <1>6, <2>1 DEF Shape, Filling, Sending, Ended, At
<1>7. CASE at = "send"
  <2>1. r.batch # <<>> /\ (P.cut = "each" \/ P.cut = "limit")
    BY <1>3, <1>7 DEF After, Due
  <2>2. P.cut = "limit" /\ Len(r.batch) <= Limit
    <3>1. P.cut = "limit" /\ Len(r.batch) <= r.pos % Limit
      BY <1>2, <2>1
    <3>2. (r.pos % Limit) \in 0 .. Limit - 1
      BY <1>1, Quotient
    <3> QED
      BY <1>1, <3>1, <3>2
  <2>3. Fits(c, r.batch)
    BY <2>2 DEF Fits
  <2> QED
    BY <1>2, <1>3, <1>4, <1>5, <1>7, <2>1, <2>3 DEF Shape, Filling, Sending, Ended, At
<1> QED
  BY <1>6, <1>7

LEMMA ShapeAdds ==
  ASSUME Types, NEW c \in Call, Shape(c), Adds(c), UNCHANGED <<config, slice, loop>>
  PROVE  Shape(c)'
<1> DEFINE r == call[c]
           s == call'[c]
           v == Value(c)
           ms == Append(r.batch, v)
<1>1. /\ r.pos \in Nat /\ v = r.pos + 1 /\ v \in Nat /\ r.batch \in Seq(Nat) /\ Len(r.batch) \in Nat
      /\ Limit \in Nat \ {0} /\ Common
  <2>1. r.pos \in Nat /\ r.batch \in Seq(Nat) /\ v = r.pos + 1
    BY Typing DEF Value
  <2>2. Limit \in Nat \ {0} /\ Common
    BY SinksAssumption, Profiled
  <2> QED
    BY <2>1, <2>2
<1>2. /\ r.rest = <<>> /\ r.tries = 0
      /\ P.cut = "each" => r.batch = <<>>
      /\ P.cut = "limit" => Len(r.batch) <= r.pos % Limit
      /\ \A b \in ToSet(offered[c]) : Fits(c, b)
  BY DEF Adds, Looking, Shape, Filling
<1>3. PICK at \in {"loop", "send"} :
        /\ s.at = at /\ s.pos = v /\ s.batch = ms /\ s.rest = r.rest /\ s.tries = r.tries
        /\ at = After(c, v, ms)
  BY DEF Adds, Becomes
<1>4. Len(ms) = Len(r.batch) + 1 /\ ms # <<>>
  BY <1>1
<1>5. offered' = offered /\ P' = P /\ \A b : Size(c, b)' = Size(c, b) /\ (Fits(c, b)' <=> Fits(c, b))
  BY SameSlice DEF Adds
<1>6. P.cut = "limit" =>
        /\ Len(ms) <= Limit
        /\ at = "loop" => Len(ms) <= v % Limit
  <2> HAVE P.cut = "limit"
  <2>1. v % Limit = IF (r.pos % Limit) + 1 = Limit THEN 0 ELSE (r.pos % Limit) + 1
    BY <1>1, NextRest
  <2>2. (r.pos % Limit) \in 0 .. Limit - 1
    BY <1>1, Quotient
  <2>3. at = "loop" => v % Limit # 0
    BY <1>3, <1>4 DEF After, Due
  <2> QED
    BY <1>1, <1>2, <1>4, <2>1, <2>2, <2>3
<1>7. P.cut = "size" => Size(c, ms) <= Limit
  <2> HAVE P.cut = "size"
  <2>1. v \in DOMAIN slice[c] /\ r.batch \in Seq(DOMAIN slice[c])
    <3>1. /\ r.batch \in Seq(1 .. r.pos) /\ r.pos < Len(slice[c]) /\ Len(slice[c]) \in Nat
          /\ DOMAIN slice[c] = 1 .. Len(slice[c])
      BY Typing DEF Adds, Looking
    <3>2. v \in DOMAIN slice[c] /\ 1 .. r.pos \subseteq DOMAIN slice[c]
      BY <1>1, <3>1
    <3> QED
      BY <3>1, <3>2, SeqOfSubset
  <2>2. Size(c, ms) = Size(c, r.batch) + slice[c][v].size /\ Size(c, r.batch) \in Nat
    <3> HIDE DEF v, r
    <3>1. slice \in [Call -> Seq(Item)]
      BY DEF Types
    <3> QED
      BY <2>1, <3>1, SizeFacts
  <2>3. ~(Size(c, r.batch) + slice[c][v].size > Limit)
    BY DEF Adds, Overflowing, Overflows
  <2>4. slice[c][v].size \in Nat
    <3>1. slice[c][v] \in Item
      BY <2>1 DEF Types
    <3> QED
      BY <3>1, SinksAssumption
  <2> QED
    BY <1>1, <2>2, <2>3, <2>4
<1>8. P.cut = "each" => Len(ms) = 1 /\ at = "send"
  BY <1>1, <1>2, <1>3, <1>4 DEF After, Due
<1>9. at = "send" => P.cut \in {"each", "limit"}
  BY <1>3 DEF After, Due
<1>10. Fits(c, ms)
  BY <1>6, <1>7, <1>8 DEF Fits
<1> HIDE DEF ms
<1>11. CASE at = "loop"
  BY <1>2, <1>3, <1>4, <1>5, <1>6, <1>7, <1>8, <1>11 DEF Shape, Filling, Sending, Ended, At
<1>12. CASE at = "send"
  BY <1>2, <1>3, <1>4, <1>5, <1>9, <1>10, <1>12 DEF Shape, Filling, Sending, Ended, At
<1> QED
  BY <1>11, <1>12

LEMMA ShapeDefers ==
  ASSUME Types, NEW c \in Call, Shape(c), Defers(c), UNCHANGED <<config, slice, loop>>
  PROVE  Shape(c)'
<1> DEFINE r == call[c]
           s == call'[c]
           v == Value(c)
<1>0. Common
  BY Profiled
<1>1. /\ r.pos \in Nat /\ v = r.pos + 1 /\ r.batch \in Seq(Nat) /\ Common
      /\ r.pos < Len(slice[c]) /\ Len(slice[c]) \in Nat /\ slice[c] \in Seq(Item)
  BY <1>0, Typing DEF Value, Defers, Looking
<1>2. /\ r.tries = 0 /\ P.cut = "size" /\ pump = "splunkBatch" /\ Overflows(c, v)
      /\ Len(r.batch) <= 1 \/ Size(c, r.batch) <= Limit
      /\ r.batch = <<>> => r.pos = 0 \/ r.pos = Len(slice[c])
      /\ \A b \in ToSet(offered[c]) : Fits(c, b)
  BY <1>1 DEF Defers, Looking, Shape, Filling, Overflowing, Common
<1>3. s.at = "send" /\ s.pos = v /\ s.batch = r.batch /\ s.rest = <<v>> /\ s.tries = r.tries
  BY DEF Defers, Becomes
<1>4. /\ offered' = offered /\ P' = P /\ \A b : Fits(c, b)' <=> Fits(c, b)
      /\ StartsTooLarge(c)' <=> StartsTooLarge(c)
  BY SameSlice DEF Defers
<1>5. Fits(c, r.batch)
  BY <1>2 DEF Fits
<1>6. r.batch = <<>> => StartsTooLarge(c)
  <2> HAVE r.batch = <<>>
  <2>1. v = 1 /\ slice[c] # <<>> /\ v \in DOMAIN slice[c]
    BY <1>1, <1>2
  <2>2. Size(c, r.batch) = 0
    <3>1. <<>> \in Seq(DOMAIN slice[c]) /\ slice \in [Call -> Seq(Item)]
      BY DEF Types
    <3> QED
      BY <3>1, SizeFacts
  <2>3. slice[c][1].size > Limit
    <3>1. slice[c][1] \in Item
      BY <1>1, <2>1
    <3>2. slice[c][1].size \in Nat /\ Limit \in Nat
      BY <3>1, SinksAssumption
    <3> QED
      BY <1>2, <2>1, <2>2, <3>2 DEF Overflows
  <2> QED
    BY <1>2, <2>1, <2>3 DEF StartsTooLarge
<1>7. <<v>> # <<>>
  OBVIOUS
<1> QED
  BY <1>2, <1>3, <1>4, <1>5, <1>6, <1>7 DEF Shape, Filling, Sending, Ended, At

LEMMA ShapeRest ==
  ASSUME Types, NEW c \in Call, Shape(c), UNCHANGED <<config, slice, loop>>,
         Leaves(c) \/ Breaks(c) \/ Finishes(c) \/ Repeats(c)
  PROVE  Shape(c)'
<1> DEFINE r == call[c]
           s == call'[c]
<1>1. /\ r.pos \in Nat /\ r.batch \in Seq(Nat) /\ Len(r.batch) \in Nat /\ Limit \in Nat \ {0} /\ Common
  <2>1. r.pos \in Nat /\ r.batch \in Seq(Nat)
    BY Typing
  <2>2. Limit \in Nat \ {0} /\ Common
    BY SinksAssumption, Profiled
  <2> QED
    BY <2>1, <2>2
<1>2. /\ offered' = offered /\ P' = P /\ pump' = pump /\ slice' = slice /\ over' = over
      /\ \A b : Fits(c, b)' <=> Fits(c, b)
      /\ StartsTooLarge(c)' <=> StartsTooLarge(c)
      /\ s.pos = r.pos /\ s.batch = r.batch /\ s.rest = r.rest
  BY SameSlice DEF Leaves, Breaks, Finishes, Repeats, MovesTo, Becomes, loop
<1>3. \A b \in ToSet(offered[c]) : Fits(c, b)
  BY DEF Shape
<1>4. CASE Leaves(c)
  <2>1. /\ r.rest = <<>> /\ r.tries = 0 /\ r.pos = Len(slice[c])
        /\ P.cut = "each" => r.batch = <<>>
        /\ P.cut = "limit" => Len(r.batch) <= r.pos % Limit
        /\ P.cut = "size" => Len(r.batch) <= 1 \/ Size(c, r.batch) <= Limit
    BY <1>4 DEF Leaves, Shape, Filling
  <2>2. \/ s.at = "send" /\ s.tries = 0 /\ r.batch # <<>>
        \/ s.at = "flush" /\ r.batch = <<>> /\ "write" \in P.flush
        \/ s.at = "nil" /\ r.batch = <<>>
    BY <1>4, <2>1 DEF Leaves, MovesTo, Becomes
  <2>3. CASE s.at = "send"
    <3>1. P.cut = "limit" => Len(r.batch) <= Limit
      <4> HAVE P.cut = "limit"
      <4>1. (r.pos % Limit) \in 0 .. Limit - 1
        BY <1>1, Quotient
      <4> QED
        BY <1>1, <2>1, <4>1
    <3>2. Fits(c, r.batch)
      BY <2>1, <2>2, <2>3, <3>1 DEF Fits
    <3> QED
      BY <1>2, <1>3, <2>1, <2>2, <2>3, <3>2 DEF Shape, Filling, Sending, Ended, At
  <2>4. CASE s.at = "flush"
    <3>1. P.client # "none"
      BY <1>1, <2>2, <2>4 DEF Common
    <3> QED
      BY <1>2, <1>3, <2>1, <2>2, <2>4, <3>1 DEF Shape, Filling, Sending, Ended, At
  <2>5. CASE s.at = "nil"
    BY <1>2, <1>3, <2>1, <2>2, <2>5 DEF Shape, Filling, Sending, Ended, At
  <2> QED
    BY <2>2, <2>3, <2>4, <2>5
<1>5. CASE Breaks(c)
  <2>1. s.at = "error" \/ (s.at = "nil" /\ c \in over /\ P.over = "nil")
    BY <1>5 DEF Breaks, MovesTo, Becomes
  <2> QED
    BY <1>2, <1>3, <2>1 DEF Shape, Filling, Sending, Ended, At
<1>6. CASE Finishes(c)
  <2>1. r.pos = Len(slice[c]) /\ r.batch = <<>> /\ r.rest = <<>> /\ P.client # "none"
    BY <1>6 DEF Finishes, Shape, Ended, At
  <2>2. s.at = "nil" \/ (s.at = "newMap" /\ P.client = "map")
    BY <1>6 DEF Finishes, MovesTo, Becomes
  <2> QED
    BY <1>2, <1>3, <2>1, <2>2 DEF Shape, Filling, Sending, Ended, At
<1>7. CASE Repeats(c)
  <2>1. s.at = "send" /\ At(c, "send") /\ pump \in {"splunk", "splunkBatch"}
    BY <1>7 DEF Repeats, Becomes
  <2> QED
    BY <1>2, <1>3, <2>1 DEF Shape, Filling, Sending, Ended, At
<1> QED
  BY <1>4, <1>5, <1>6, <1>7

LEMMA ShapeRequested ==
  ASSUME Types, NEW c \in Call, Shape(c), UNCHANGED <<config, slice, loop>>, GoesOn(c) \/ Ends(c)
  PROVE  Shape(c)'
<1> DEFINE r == call[c]
           s == call'[c]
<1>1. r.pos \in Nat /\ Limit \in Nat \ {0} /\ Common /\ Requested(c)
  BY Typing, SinksAssumption, Profiled DEF GoesOn, Ends
<1>2. /\ P' = P /\ pump' = pump /\ slice' = slice /\ over' = over
      /\ \A b : (Fits(c, b)' <=> Fits(c, b)) /\ Size(c, b)' = Size(c, b)
  BY SameSlice DEF loop
<1>3. /\ r.rest = <<>> \/ (P.cut = "size" /\ r.rest = <<r.pos>>)
      /\ Fits(c, r.batch)
      /\ P.cut = "size" /\ r.rest = <<>> => r.pos = Len(slice[c])
  <2>1. /\ r.rest = <<>> \/ (P.cut = "size" /\ r.rest = <<r.pos>>)
        /\ Fits(c, r.batch) \/ P.cut = "slice"
        /\ At(c, "loop") => pump = "csv"
    BY <1>1, RestFacts
  <2>2. P.cut = "slice" => Fits(c, r.batch)
    BY DEF Fits
  <2>3. P.cut = "size" => At(c, "send")
    BY <1>1, <2>1 DEF Requested, Common
  <2> QED
    BY <2>1, <2>2, <2>3 DEF Shape, Sending
<1>4. \A b \in ToSet(offered'[c]) : Fits(c, b)'
  <2>1. ToSet(offered'[c]) = ToSet(offered[c]) \cup {r.batch}
    BY <1>1, Offering
  <2> QED
    BY <1>2, <1>3, <2>1 DEF Shape
<1>5. CASE Ends(c)
  <2>1. s.at = "error"
    BY <1>5 DEF Ends, MovesTo, Becomes
  <2> QED
    BY <1>4, <2>1 DEF Shape, Filling, Sending, Ended, At
<1>6. CASE GoesOn(c)
  <2>1. s.at = "loop" /\ s.pos = r.pos /\ s.batch = r.rest /\ s.rest = <<>> /\ s.tries = 0
    BY <1>6 DEF GoesOn, Becomes
  <2>2. /\ P.cut # "size" => s.batch = <<>>
        /\ Len(<<>>) = 0 /\ (r.pos % Limit) \in 0 .. Limit - 1
        /\ Len(s.batch) <= 1
    <3>1. (r.pos % Limit) \in 0 .. Limit - 1
      BY <1>1, Quotient
    <3>2. Len(<<>>) = 0 /\ Len(<<r.pos>>) = 1
      OBVIOUS
    <3>3. CASE r.rest = <<>>
      BY <2>1, <3>1, <3>2, <3>3
    <3>4. CASE P.cut = "size" /\ r.rest = <<r.pos>>
      <4>1. Len(s.batch) = 1
        BY <2>1, <3>2, <3>4
      <4> QED
        BY <3>1, <3>2, <3>4, <4>1
    <3> QED
      BY <1>3, <3>3, <3>4
  <2>3. P.cut = "size" /\ s.batch = <<>> => s.pos = Len(slice[c])
    BY <1>3, <2>1
  <2>4. P.cut = "limit" => Len(s.batch) <= s.pos % Limit
    <3> HAVE P.cut = "limit"
    <3>1. Len(s.batch) = 0 /\ s.pos = r.pos
      BY <2>1, <2>2
    <3> QED
      BY <1>1, <2>2, <3>1
  <2> QED
    BY <1>2, <1>4, <2>1, <2>2, <2>3, <2>4 DEF Shape, Filling, Sending, Ended, At
<1> QED
  BY <1>5, <1>6

LEMMA ShapeMove ==
  ASSUME Types, NEW c \in Call, Shape(c), Moves(c), UNCHANGED <<config, slice, loop>>
  PROVE  Shape(c)'
BY ShapePasses, ShapeAdds, ShapeDefers, ShapeRest, ShapeRequested DEF Moves

-----------------------------------------------------------------------------
(* What the loop has passed.                                                 *)

LEMMA CoveredMove ==
  ASSUME Types, NEW c \in Call, Covered(c), Shape(c), Moves(c), UNCHANGED <<config, slice, loop>>
  PROVE  Covered(c)'
<1> DEFINE r == call[c]
           s == call'[c]
           v == Value(c)
           Has(n) == n \in Sent(c) \/ n \in ToSet(r.batch) \/ n \in ToSet(r.rest)
           Now(n) == n \in Sent(c)' \/ n \in ToSet(s.batch) \/ n \in ToSet(s.rest)
           Exempt == c \in over /\ P.over \in {"nil", "skip"}
<1>1. /\ r.pos \in Nat /\ v = r.pos + 1 /\ r.batch \in Seq(Nat) /\ r.rest \in Seq(Nat) /\ v \in Nat
  BY Typing DEF Value
<1>2. P' = P /\ over' = over /\ \A n : Reaction(c, n)' = Reaction(c, n)
  BY SameSlice DEF loop
<1>3. r.at # "error"
  BY DEF Moves, Passes, Adds, Defers, Leaves, Breaks, GoesOn, Ends, Repeats, Finishes, Looking,
         Requested, At
<1>4. \A n \in 1 .. r.pos : Reaction(c, n) \in {"fine", "blank"} => Exempt \/ Has(n)
  BY <1>3 DEF Covered, At
<1>5. SUFFICES ASSUME s.at # "error"
               PROVE  \A n \in 1 .. s.pos : Reaction(c, n) \in {"fine", "blank"} => Exempt \/ Now(n)
  BY <1>2 DEF Covered, At
<1>6. CASE offered' = offered /\ s.pos = r.pos /\ s.batch = r.batch /\ s.rest = r.rest
  <2>1. Sent(c)' = Sent(c)
    BY <1>6 DEF Sent
  <2> QED
    BY <1>4, <1>6, <2>1
<1>7. CASE Looking(c) /\ offered' = offered /\ s.pos = v
  <2>1. Sent(c)' = Sent(c) /\ r.rest = <<>>
    BY <1>7 DEF Sent, Shape, Filling, Looking
  <2>2. ToSet(<<>>) = {} /\ ToSet(<<v>>) = {v} /\ ToSet(Append(r.batch, v)) = ToSet(r.batch) \cup {v}
    <3>1. ToSet(Append(r.batch, v)) = ToSet(r.batch) \cup {v}
      <4>1. r.batch \in Seq(Nat) /\ v \in Nat
        BY <1>1
      <4> HIDE DEF r, v
      <4> QED
        BY <4>1, AppendSet
    <3> QED
      BY <3>1, SmallSequences
  <2>3. \A n \in 1 .. s.pos : n \in 1 .. r.pos \/ n = v
    BY <1>1, <1>7
  <2>4. CASE Passes(c)
    <3>1. /\ s.batch = r.batch /\ s.rest = r.rest
          /\ Reaction(c, v) = "skip" \/ Exempt
      BY <2>4 DEF Passes, Becomes
    <3> QED
      BY <1>4, <2>1, <2>3, <3>1
  <2>5. CASE Adds(c)
    <3>1. s.batch = Append(r.batch, v) /\ s.rest = r.rest
      BY <2>5 DEF Adds, Becomes
    <3> QED
      BY <1>4, <2>1, <2>2, <2>3, <3>1
  <2>6. CASE Defers(c)
    <3>1. s.batch = r.batch /\ s.rest = <<v>>
      BY <2>6 DEF Defers, Becomes
    <3> QED
      BY <1>4, <2>1, <2>2, <2>3, <3>1
  <2>7. s.pos # r.pos
    BY <1>1, <1>7
  <2>8. Leaves(c) \/ Breaks(c) \/ Ends(c) \/ Finishes(c) \/ GoesOn(c) \/ Repeats(c) => s.pos = r.pos
    BY DEF Leaves, Breaks, Ends, Finishes, GoesOn, Repeats, MovesTo, Becomes
  <2> QED
    BY <2>4, <2>5, <2>6, <2>7, <2>8 DEF Moves
<1>8. CASE GoesOn(c)
  <2>1. Sent(c)' = Sent(c) \cup ToSet(r.batch)
    BY <1>8, Offering DEF GoesOn
  <2>2. s.pos = r.pos /\ s.batch = r.rest
    BY <1>8 DEF GoesOn, Becomes
  <2> QED
    BY <1>4, <2>1, <2>2
<1>9. Passes(c) \/ Adds(c) \/ Defers(c) => Looking(c) /\ offered' = offered /\ s.pos = v
  BY DEF Passes, Adds, Defers, Becomes
<1>10. Leaves(c) \/ Breaks(c) \/ Finishes(c) \/ Repeats(c) =>
         offered' = offered /\ s.pos = r.pos /\ s.batch = r.batch /\ s.rest = r.rest
  BY DEF Leaves, Breaks, Finishes, Repeats, MovesTo, Becomes
<1>11. ~Ends(c)
  BY <1>5 DEF Ends, MovesTo, Becomes
<1> QED
  BY <1>6, <1>7, <1>8, <1>9, <1>10, <1>11 DEF Moves

-----------------------------------------------------------------------------
(* Every step, for every call.                                               *)

Local(c) == Order(c) /\ Shape(c) /\ Covered(c)

LEMMA LocalSame ==
  ASSUME NEW c \in Call, Local(c), UNCHANGED config, over \subseteq over',
         call'[c] = call[c], offered'[c] = offered[c], slice'[c] = slice[c]
  PROVE  Local(c)'
<1>1. /\ P' = P /\ pump' = pump
      /\ \A b : Size(c, b)' = Size(c, b) /\ (Fits(c, b)' <=> Fits(c, b))
      /\ StartsTooLarge(c)' <=> StartsTooLarge(c)
      /\ \A n : Reaction(c, n)' = Reaction(c, n)
  BY SameSlice
<1>2. Sent(c)' = Sent(c)
  BY DEF Sent
<1>3. Order(c)'
  BY <1>2 DEF Local, Order
<1>4. Shape(c)'
  BY <1>1 DEF Local, Shape, Filling, Sending, Ended, At
<1>5. Covered(c)'
  BY <1>1, <1>2 DEF Local, Covered, At
<1> QED
  BY <1>3, <1>4, <1>5 DEF Local

LEMMA NothingSent ==
  /\ ToSet(<<>>) = {} /\ InOrder(<<>>)
  /\ \A c \in Call : offered[c] = <<>> => Sent(c) = {}
<1>1. ToSet(<<>>) = {} /\ DOMAIN <<>> = {}
  BY SmallSequences
<1> QED
  BY <1>1 DEF InOrder, Sent

LEMMA LocalFirst ==
  ASSUME Types, NEW c \in Call, offered'[c] = <<>>, Becomes(c, "loop", 0, <<>>, <<>>, 0)
  PROVE  Local(c)'
<1>1. /\ call'[c].at = "loop" /\ call'[c].pos = 0 /\ call'[c].batch = <<>> /\ call'[c].rest = <<>>
      /\ call'[c].tries = 0
  BY DEF Becomes
<1>2. ToSet(<<>>) = {} /\ InOrder(<<>>) /\ Ascending(<<>>) /\ Sent(c)' = {}
  BY NothingSent, SmallSequences DEF Sent
<1>3. Order(c)'
  BY <1>1, <1>2 DEF Order
<1>4. Shape(c)'
  <2>1. Limit \in Nat \ {0} /\ Len(<<>>) = 0
    BY SinksAssumption
  <2>2. (0 % Limit) \in 0 .. Limit - 1
    BY <2>1, Quotient
  <2>3. Len(<<>>) <= 0 % Limit
    BY <2>1, <2>2
  <2> QED
    BY <1>1, <1>2, <2>1, <2>3 DEF Shape, Filling, Sending, Ended, At
<1>5. Covered(c)'
  BY <1>1 DEF Covered
<1> QED
  BY <1>3, <1>4, <1>5 DEF Local

LEMMA LocalStep ==
  ASSUME Types, Loop, \A c \in Call : Local(c), Next
  PROVE  \A c \in Call : Local(c)'
<1>1. ASSUME NEW c \in Call, WriteDataStep(c)
      PROVE  \A d \in Call : Local(d)'
  <2>1. UNCHANGED <<config, slice, loop>> /\ (Moves(c) \/ UNCHANGED <<call, offered>>)
    BY <1>1, WriteDataMoves
  <2>2. UNCHANGED config /\ slice' = slice /\ over' = over
    BY <2>1 DEF loop
  <2>3. CASE Moves(c)
    <3>1. \A d \in Call \ {c} : call'[d] = call[d] /\ offered'[d] = offered[d]
      BY <2>3, MoveFields, MoveOffers
    <3>2. \A d \in Call \ {c} : Local(d)'
      BY <2>2, <3>1, LocalSame
    <3>3. Local(c)'
      BY <2>1, <2>3, OrderMove, ShapeMove, CoveredMove DEF Local
    <3> QED
      BY <3>2, <3>3
  <2>4. CASE UNCHANGED <<call, offered>>
    BY <2>2, <2>4, LocalSame
  <2> QED
    BY <2>1, <2>3, <2>4
<1>2. ASSUME StartWrite
      PROVE  \A d \in Call : Local(d)'
  <2>1. PICK b \in Call :
          /\ offered' = offered /\ over' = over /\ UNCHANGED config
          /\ offered[b] = <<>> /\ Becomes(b, "loop", 0, <<>>, <<>>, 0)
          /\ \A d \in Call \ {b} : slice'[d] = slice[d]
    BY <1>2, Starting
  <2>2. Local(b)'
    BY <2>1, LocalFirst
  <2>3. \A d \in Call \ {b} : call'[d] = call[d]
    BY <2>1 DEF Becomes
  <2>4. \A d \in Call \ {b} : Local(d)'
    BY <2>1, <2>3, LocalSame
  <2> QED
    BY <2>2, <2>4
<1>3. ASSUME WriteDone \/ Deadline \/ Shutdown \/ ClientSends \/ MapRace
      PROVE  \A d \in Call : Local(d)'
  <2>1. UNCHANGED <<config, slice, call, offered>> /\ over \subseteq over'
    BY <1>3, ApartBackend DEF WriteDone, Deadline, Shutdown, ClientSends, MapRace, loop
  <2> QED
    BY <2>1, LocalSame
<1> QED
  BY <1>1, <1>2, <1>3 DEF Next

-----------------------------------------------------------------------------
(* What a step does to the messages.                                         *)

(* The backend gets the messages M.                                          *)
Gains(M) ==
  \A m \in Message : delivered'[m] = IF m \in M THEN delivered[m] + 1 ELSE delivered[m]

Quiet(c) ==
  /\ UNCHANGED <<backend, offered>>
  /\ \/ UNCHANGED call
     \/ At(c, "loop") /\ (Passes(c) \/ Adds(c) \/ Defers(c) \/ Leaves(c) \/ Breaks(c))

Asks(c) ==
  /\ P.client = "none" /\ UNCHANGED waiting
  /\ \E M \in SUBSET Messages(c) : Gains(M)
  /\ GoesOn(c) \/ Ends(c) \/ Repeats(c)

LEMMA Gaining ==
  ASSUME Types
  PROVE  /\ UNCHANGED delivered => Gains({})
         /\ \A M : Deliver(M) => Gains(M)
         /\ \A m \in Message : delivered[m] \in Nat
<1>1. \A m \in Message : delivered[m] \in Nat
  BY DEF Types, TypeOK
<1>2. \A M : Deliver(M) => Gains(M)
  BY Delivering DEF Gains
<1>3. UNCHANGED delivered => Gains({})
  BY DEF Gains
<1> QED
  BY <1>1, <1>2, <1>3

LEMMA Effects ==
  ASSUME Types, NEW c \in Call, WriteDataStep(c)
  PROVE  Quiet(c) \/ Hold(c) \/ Asks(c) \/ Flush(c) \/ ExposeAdds(c) \/ ExposeResets(c)
<1>1. Common
  BY Profiled
<1>2. ASSUME SeesOver(c) \/ Refuse(c) \/ Skip(c) \/ Take(c) \/ LoopEnds(c) \/ Die(c) \/ ConfigBreaksOff(c)
             \/ LooksForFile(c) \/ Creates(c)
      PROVE  Quiet(c)
  <2>1. SeesOver(c) \/ Refuse(c) \/ Skip(c) \/ Take(c) \/ LoopEnds(c) =>
          Passes(c) \/ Adds(c) \/ Defers(c) \/ Leaves(c) \/ Breaks(c)
    BY LoopMoves
  <2>2. UNCHANGED <<backend, offered>>
    BY <1>2 DEF SeesOver, Refuse, Skip, Take, LoopEnds, Die, ConfigBreaksOff, LooksForFile, Creates
  <2>3. Die(c) \/ ConfigBreaksOff(c) \/ LooksForFile(c) \/ Creates(c) => UNCHANGED call
    BY DEF Die, ConfigBreaksOff, LooksForFile, Creates
  <2>4. SeesOver(c) \/ Refuse(c) \/ Skip(c) \/ Take(c) \/ LoopEnds(c) => At(c, "loop")
    BY DEF SeesOver, Refuse, Skip, Take, LoopEnds, NextIs, Looks
  <2> QED
    BY <1>2, <2>1, <2>2, <2>3, <2>4 DEF Quiet
<1>3. {} \in SUBSET Messages(c) /\ Messages(c) \in SUBSET Messages(c)
  OBVIOUS
<1>4. ASSUME Accepted(c)
      PROVE  Asks(c)
  <2>1. GoesOn(c)
    BY <1>4, RequestMoves
  <2>2. \E M \in SUBSET Messages(c) : Deliver(M)
    BY <1>3, <1>4 DEF Accepted
  <2> QED
    BY <1>4, <2>1, <2>2, Gaining DEF Accepted, Requests, Asks
<1>5. ASSUME Retry(c) \/ GivesUp(c)
      PROVE  Asks(c)
  <2>1. GoesOn(c) \/ Ends(c) \/ Repeats(c)
    BY <1>5, RequestMoves
  <2>2. Gains({}) \/ Gains(Messages(c))
    BY <1>5, Gaining DEF Retry, GivesUp, Fails
  <2> QED
    BY <1>3, <1>5, <2>1, <2>2 DEF Retry, GivesUp, Fails, Requests, Asks
<1>6. ASSUME Spill(c)
      PROVE  Asks(c)
  <2>1. GoesOn(c) \/ Ends(c)
    BY <1>6, RequestMoves
  <2>2. Gains({}) \/ Gains(Messages(c))
    BY <1>6, Gaining DEF Spill
  <2>3. P.client = "none"
    BY <1>1, <1>6 DEF Spill, Common
  <2> QED
    BY <1>3, <1>6, <2>1, <2>2, <2>3 DEF Spill, Asks
<1> QED
  BY <1>2, <1>4, <1>5, <1>6 DEF WriteDataStep

(* The messages of a batch are not among those offered before.               *)
LEMMA BatchIsFresh ==
  ASSUME Types, NEW c \in Call, Order(c), call[c].at \in {"loop", "send"}
  PROVE  \A n \in ToSet(call[c].batch) : n \notin Sent(c) /\ n \in Nat
<1>1. Sent(c) \subseteq Nat /\ ToSet(call[c].batch) \subseteq Nat
  <2>1. call[c].pos \in Nat
    BY Typing
  <2> QED
    BY <2>1, Messaging DEF Order
<1> QED
  BY <1>1 DEF Order

LEMMA MessageOf ==
  ASSUME NEW c, NEW d, NEW n
  PROVE  <<d, n>> \in Messages(c) <=> d = c /\ n \in ToSet(call[c].batch)
BY DEF Messages

LEMMA FreshStep ==
  ASSUME Types, Loop, \A c \in Call : Local(c), Fresh, Next
  PROVE  Fresh'
<1>1. \A c \in Call : \A n \in 1 .. Lengths[c] : <<c, n>> \in Message /\ delivered[<<c, n>>] \in Nat
  BY Messaging, Gaining
<1>2. \A c \in Call : call[c].tries \in Nat
  BY Typing
<1>3. ASSUME NEW c \in Call, WriteDataStep(c)
      PROVE  Fresh'
  <2>1. Moves(c) \/ UNCHANGED <<call, offered>>
    BY <1>3, WriteDataMoves
  <2>2. CASE Quiet(c)
    <3>1. backend' = backend /\ \A d \in Call : Sent(d)' = Sent(d)
      BY <2>2 DEF Quiet, Sent
    <3>2. CASE UNCHANGED call
      BY <3>1, <3>2 DEF Fresh, backend
    <3>3. CASE At(c, "loop") /\ (Passes(c) \/ Adds(c) \/ Defers(c) \/ Leaves(c) \/ Breaks(c))
      <4>1. \A d \in Call \ {c} : call'[d] = call[d]
        BY <3>3, MoveFields DEF Moves
      <4>2. call[c].tries = 0 /\ call'[c].tries = 0
        <5>1. call[c].tries = 0
          BY <3>3 DEF Local, Shape, Filling
        <5>2. call'[c].tries = call[c].tries
          BY <3>3 DEF Passes, Adds, Defers, Leaves, Breaks, MovesTo, Becomes
        <5> QED
          BY <5>1, <5>2
      <4> QED
        BY <1>1, <3>1, <4>1, <4>2 DEF Fresh, backend
    <3> QED
      BY <2>2, <3>2, <3>3 DEF Quiet
  <2>3. ASSUME GoesOn(c) \/ Ends(c), NEW M \in SUBSET Messages(c), Gains(M),
               waiting' \subseteq waiting \cup Messages(c)
        PROVE  Fresh'
    <3>1. /\ \A d \in Call \ {c} : Sent(d)' = Sent(d) /\ call'[d] = call[d]
          /\ Sent(c)' = Sent(c) \cup ToSet(call[c].batch)
      BY <2>3, Offering, MoveFields DEF GoesOn, Ends, Moves
    <3>2. call'[c].tries \in Nat
      BY <1>2, <2>3, MoveFields DEF Moves
    <3>3. ASSUME NEW d \in Call, NEW n \in 1 .. Lengths[d], n \notin Sent(d)'
          PROVE  /\ <<d, n>> \notin waiting'
                 /\ delivered'[<<d, n>>] <= IF n \in ToSet(call'[d].batch) THEN call'[d].tries ELSE 0
      <4>1. n \notin Sent(d) /\ <<d, n>> \notin Messages(c)
        BY <3>1, <3>3, MessageOf
      <4>2. <<d, n>> \notin waiting' /\ delivered'[<<d, n>>] = delivered[<<d, n>>]
        BY <1>1, <2>3, <4>1 DEF Gains, Fresh
      <4>3. CASE d # c
        BY <3>1, <4>1, <4>2, <4>3 DEF Fresh
      <4>4. CASE d = c
        <5>1. delivered[<<d, n>>] <= 0
          BY <3>1, <3>3, <4>1, <4>4 DEF Fresh
        <5> QED
          BY <1>1, <3>2, <4>2, <4>4, <5>1
      <4> QED
        BY <4>3, <4>4
    <3> QED
      BY <3>3 DEF Fresh
  <2>4. CASE Hold(c)
    <3>1. GoesOn(c)
      BY <2>4, RequestMoves
    <3>2. Gains({}) /\ waiting' \subseteq waiting \cup Messages(c)
      BY <2>4, Gaining DEF Hold
    <3> QED
      BY <2>3, <3>1, <3>2
  <2>5. CASE Asks(c) /\ (GoesOn(c) \/ Ends(c))
    BY <2>3, <2>5 DEF Asks
  <2>6. CASE Asks(c) /\ Repeats(c)
    <3>1. PICK M \in SUBSET Messages(c) : Gains(M)
      BY <2>6 DEF Asks
    <3>2. waiting' = waiting /\ \A d \in Call : Sent(d)' = Sent(d)
      BY <2>6 DEF Asks, Repeats, Sent
    <3>3. /\ \A d \in Call \ {c} : call'[d] = call[d]
          /\ call'[c].batch = call[c].batch /\ call'[c].tries = call[c].tries + 1
      BY <2>6 DEF Repeats, Becomes
    <3>4. ASSUME NEW d \in Call, NEW n \in 1 .. Lengths[d], n \notin Sent(d)
          PROVE  delivered'[<<d, n>>] <= IF n \in ToSet(call'[d].batch) THEN call'[d].tries ELSE 0
      <4>1. delivered[<<d, n>>] <= IF n \in ToSet(call[d].batch) THEN call[d].tries ELSE 0
        BY <3>4 DEF Fresh
      <4>2. <<d, n>> \in M => d = c /\ n \in ToSet(call[c].batch)
        BY MessageOf
      <4>3. delivered'[<<d, n>>] = IF <<d, n>> \in M THEN delivered[<<d, n>>] + 1 ELSE delivered[<<d, n>>]
        BY <1>1, <3>1 DEF Gains
      <4> QED
        BY <1>1, <1>2, <3>3, <4>1, <4>2, <4>3
    <3> QED
      BY <3>2, <3>4 DEF Fresh
  <2>7. CASE Flush(c) \/ ExposeAdds(c) \/ ExposeResets(c)
    <3>1. Finishes(c)
      BY <2>7, RequestMoves
    <3>2. \A d \in Call : /\ Sent(d)' = Sent(d) /\ call'[d].batch = call[d].batch
                          /\ call'[d].tries = call[d].tries
      BY <3>1 DEF Finishes, MovesTo, Becomes, Sent
    <3>3. waiting' \subseteq waiting /\ (Gains({}) \/ Gains(waiting))
      BY <2>7, Gaining DEF Flush, ExposeAdds, ExposeResets
    <3>4. \A d \in Call : \A n \in 1 .. Lengths[d] :
            n \notin Sent(d) => <<d, n>> \notin waiting /\ delivered'[<<d, n>>] = delivered[<<d, n>>]
      BY <1>1, <3>3 DEF Fresh, Gains
    <3> QED
      BY <3>2, <3>3, <3>4 DEF Fresh
  <2> QED
    BY <1>3, <2>2, <2>4, <2>5, <2>6, <2>7, Effects DEF Asks
<1>4. ASSUME StartWrite
      PROVE  Fresh'
  <2>1. PICK b \in Call : /\ backend' = backend /\ offered' = offered
                          /\ call[b] = Idle /\ Becomes(b, "loop", 0, <<>>, <<>>, 0)
    BY <1>4, Starting
  <2>2. \A d \in Call : /\ Sent(d)' = Sent(d) /\ call'[d].batch = call[d].batch
                        /\ call'[d].tries = call[d].tries
    BY <2>1 DEF Becomes, Idle, Sent
  <2> QED
    BY <2>1, <2>2 DEF Fresh, backend
<1>5. ASSUME WriteDone \/ Deadline \/ Shutdown \/ ClientSends \/ MapRace
      PROVE  Fresh'
  <2>1. UNCHANGED <<call, offered>>
    BY <1>5, ApartBackend
  <2>2. \A d \in Call : Sent(d)' = Sent(d)
    BY <2>1 DEF Sent
  <2>3. waiting' \subseteq waiting /\ \E M \in SUBSET waiting : Gains(M)
    <3>1. UNCHANGED backend => waiting' = waiting /\ Gains({})
      BY Gaining DEF backend
    <3>2. CASE WriteDone \/ Deadline \/ MapRace
      BY <3>1, <3>2 DEF WriteDone, Deadline, MapRace
    <3>3. CASE Shutdown
      <4>1. UNCHANGED backend \/ (waiting' = {} /\ (Deliver(waiting) \/ UNCHANGED delivered))
        BY <3>3 DEF Shutdown
      <4> QED
        BY <3>1, <4>1, Gaining
    <3>4. CASE ClientSends
      BY <3>4, Gaining DEF ClientSends
    <3> QED
      BY <1>5, <3>2, <3>3, <3>4
  <2>4. \A d \in Call : \A n \in 1 .. Lengths[d] :
          n \notin Sent(d) => <<d, n>> \notin waiting /\ delivered'[<<d, n>>] = delivered[<<d, n>>]
    BY <1>1, <2>3 DEF Fresh, Gains
  <2> QED
    BY <2>1, <2>2, <2>3, <2>4 DEF Fresh
<1> QED
  BY <1>3, <1>4, <1>5 DEF Next

-----------------------------------------------------------------------------
(* How often the backend has a message.                                      *)

(* What the steps apart from WriteData do to the messages.                   *)
LEMMA ApartMessages ==
  ASSUME Types, WriteDone \/ Deadline \/ Shutdown \/ ClientSends \/ MapRace
  PROVE  \/ UNCHANGED backend
         \/ /\ P.client = "buffer" /\ waiting' \subseteq waiting
            /\ \E M \in SUBSET (waiting \ waiting') :
                 Gains(M) /\ (M = waiting \ waiting' \/ Fault)
<1>1. Common
  BY Profiled
<1>2. CASE WriteDone \/ Deadline \/ MapRace
  BY <1>2 DEF WriteDone, Deadline, MapRace
<1>3. CASE Shutdown
  <2>1. CASE ~FlushesAtShutdown
    BY <1>3, <2>1 DEF Shutdown
  <2>2. CASE FlushesAtShutdown
    <3>1. P.client = "buffer"
      BY <1>1, <2>2 DEF FlushesAtShutdown, Common
    <3>2. waiting' = {} /\ (Gains(waiting) \/ (Gains({}) /\ Fault))
      BY <1>3, <2>2, Gaining DEF Shutdown
    <3> QED
      BY <3>1, <3>2
  <2> QED
    BY <2>1, <2>2
<1>4. CASE ClientSends
  <2>1. PICK m \in waiting : /\ P.client = "buffer" /\ waiting' = waiting \ {m}
                             /\ Deliver({m}) \/ (UNCHANGED delivered /\ Fault)
    BY <1>4 DEF ClientSends
  <2>2. Gains({m}) \/ (Gains({}) /\ Fault)
    BY <2>1, Gaining
  <2>3. waiting \ waiting' = {m}
    BY <2>1
  <2> QED
    BY <2>1, <2>2, <2>3
<1> QED
  BY <1>2, <1>3, <1>4

LEMMA SamePump ==
  ASSUME Types, Loop, Next
  PROVE  P' = P /\ pump' = pump /\ timed' = timed
<1>1. UNCHANGED config
  BY WriteDataMoves, Starting, ApartBackend DEF Next
<1> QED
  BY <1>1 DEF P, config

LEMMA OncePerTryStep ==
  ASSUME Types, Loop, \A c \in Call : Local(c), Fresh, OncePerTry, Next
  PROVE  OncePerTry'
<1>1. P' = P /\ pump' = pump /\ Common /\ MaxRetries \in Nat
  BY SamePump, Profiled, SinksAssumption
<1>2. SUFFICES ASSUME P.client = "none"
               PROVE  OncePerTry'
  BY <1>1 DEF OncePerTry
<1>3. UNCHANGED backend => OncePerTry'
  BY <1>1, <1>2 DEF OncePerTry, backend
<1>4. ASSUME NEW c \in Call, WriteDataStep(c)
      PROVE  OncePerTry'
  <2>1. Quiet(c) \/ Asks(c)
    <3>1. ~Hold(c) /\ ~Flush(c) /\ ~ExposeAdds(c)
      BY <1>2 DEF Hold, Flush, ExposeAdds
    <3>2. ~ExposeResets(c)
      BY <1>2 DEF ExposeResets, Local, Shape, Ended
    <3> QED
      BY <1>4, <3>1, <3>2, Effects
  <2>2. CASE Quiet(c)
    BY <1>3, <2>2 DEF Quiet
  <2>3. CASE Asks(c)
    <3>1. PICK M \in SUBSET Messages(c) : Gains(M)
      BY <2>3 DEF Asks
    <3>2. call[c].at \in {"loop", "send"}
      BY <2>3 DEF Asks, GoesOn, Ends, Repeats, Requested, At
    <3>3. /\ call[c].tries \in 0 .. MaxRetries
          /\ call[c].tries # 0 => pump \in {"splunk", "splunkBatch"}
      BY <3>2, Typing DEF Local, Shape, Filling, Sending, At
    <3>4. waiting' = {}
      BY <1>2, <2>3 DEF Asks, OncePerTry
    <3>5. ASSUME NEW m \in Message
          PROVE  delivered'[m] <= IF pump \in {"splunk", "splunkBatch"} THEN 1 + MaxRetries ELSE 1
      <4>1. CASE m \notin M
        BY <1>2, <3>1, <4>1 DEF Gains, OncePerTry
      <4>2. CASE m \in M
        <5>1. PICK n \in ToSet(call[c].batch) : m = <<c, n>>
          BY <3>1, <4>2 DEF Messages
        <5>2. n \notin Sent(c) /\ n \in 1 .. Lengths[c]
          BY <3>2, <5>1, BatchIsFresh, Messaging DEF Local
        <5>3. delivered[m] <= call[c].tries
          BY <5>1, <5>2 DEF Fresh
        <5>4. delivered[m] \in Nat /\ delivered'[m] = delivered[m] + 1
          BY <3>1, <4>2, Gaining DEF Gains
        <5>5. CASE ~Repeats(c) \/ pump \in {"splunk", "splunkBatch"}
          BY <1>1, <3>3, <5>3, <5>4
        <5>6. Repeats(c) => pump \in {"splunk", "splunkBatch"}
          BY DEF Repeats
        <5> QED
          BY <5>5, <5>6
      <4> QED
        BY <4>1, <4>2
    <3> QED
      BY <1>1, <3>4, <3>5 DEF OncePerTry
  <2> QED
    BY <2>1, <2>2, <2>3
<1>5. StartWrite => OncePerTry'
  BY <1>3, Starting
<1>6. WriteDone \/ Deadline \/ Shutdown \/ ClientSends \/ MapRace => OncePerTry'
  BY <1>2, <1>3, ApartMessages
<1> QED
  BY <1>4, <1>5, <1>6 DEF Next

(* A message that a client is about to hold has not been delivered.          *)
LEMMA HeldIsNew ==
  ASSUME Types, NEW c \in Call, Local(c), Fresh, Hold(c)
  PROVE  /\ \A m \in Messages(c) : m \in Message /\ delivered[m] = 0
         /\ UNCHANGED delivered /\ GoesOn(c)
         /\ waiting' = waiting \cup Messages(c) \/ (UNCHANGED waiting /\ P.client = "buffer" /\ Fault)
<1>1. At(c, "send") /\ P.client # "none" /\ Common /\ UNCHANGED delivered /\ GoesOn(c)
  BY Profiled, RequestMoves DEF Hold
<1>2. call[c].tries = 0
  BY <1>1 DEF Local, Shape, Sending, Common
<1>3. ASSUME NEW m \in Messages(c)
      PROVE  m \in Message /\ delivered[m] = 0
  <2>1. PICK n \in ToSet(call[c].batch) : m = <<c, n>>
    BY DEF Messages
  <2>2. n \notin Sent(c) /\ n \in 1 .. Lengths[c] /\ m \in Message
    BY <1>1, <2>1, BatchIsFresh, Messaging DEF Local, At
  <2>3. delivered[m] <= 0
    BY <1>2, <2>1, <2>2 DEF Fresh
  <2> QED
    BY <2>2, <2>3, Gaining
<1> QED
  BY <1>1, <1>3 DEF Hold

LEMMA OnceBufferedStep ==
  ASSUME Types, Loop, \A c \in Call : Local(c), Fresh, OnceBuffered, Next
  PROVE  OnceBuffered'
<1>1. P' = P /\ pump' = pump /\ Common /\ \A m \in Message : delivered[m] \in Nat
  BY SamePump, Profiled, Gaining
<1>2. SUFFICES ASSUME P.client = "buffer"
               PROVE  OnceBuffered'
  BY <1>1 DEF OnceBuffered
<1>3. UNCHANGED backend => OnceBuffered'
  BY <1>1, <1>2 DEF OnceBuffered, backend
<1>4. ASSUME NEW M \in SUBSET (waiting \ waiting'), Gains(M), waiting' \subseteq waiting
      PROVE  OnceBuffered'
  <2>1. ASSUME NEW m \in Message
        PROVE  delivered'[m] <= IF m \in waiting' THEN 0 ELSE 1
    <3>1. delivered[m] \in Nat /\ delivered[m] <= IF m \in waiting THEN 0 ELSE 1
      BY <1>1, <1>2 DEF OnceBuffered
    <3>2. delivered'[m] = IF m \in M THEN delivered[m] + 1 ELSE delivered[m]
      BY <1>4 DEF Gains
    <3> QED
      BY <1>4, <3>1, <3>2
  <2> QED
    BY <2>1 DEF OnceBuffered
<1>5. ASSUME NEW c \in Call, WriteDataStep(c)
      PROVE  OnceBuffered'
  <2>1. ~Asks(c) /\ ~ExposeAdds(c) /\ ~ExposeResets(c)
    BY <1>2 DEF Asks, ExposeAdds, ExposeResets, Local, Shape, Ended
  <2>2. CASE Quiet(c)
    BY <1>3, <2>2 DEF Quiet
  <2>3. CASE Hold(c)
    <3>1. /\ \A m \in Messages(c) : delivered[m] = 0
          /\ delivered' = delivered /\ waiting' \subseteq waiting \cup Messages(c)
          /\ waiting \subseteq waiting'
      BY <2>3, HeldIsNew
    <3>2. ASSUME NEW m \in Message
          PROVE  delivered'[m] <= IF m \in waiting' THEN 0 ELSE 1
      <4>1. delivered[m] \in Nat /\ delivered[m] <= IF m \in waiting THEN 0 ELSE 1
        BY <1>1, <1>2 DEF OnceBuffered
      <4> QED
        BY <3>1, <4>1
    <3> QED
      BY <3>2 DEF OnceBuffered
  <2>4. CASE Flush(c)
    <3>1. waiting' = {} /\ Gains(waiting)
      BY <2>4, Gaining DEF Flush
    <3> QED
      BY <1>4, <3>1
  <2> QED
    BY <1>5, <2>1, <2>2, <2>3, <2>4, Effects
<1>6. StartWrite => OnceBuffered'
  BY <1>3, Starting
<1>7. WriteDone \/ Deadline \/ Shutdown \/ ClientSends \/ MapRace => OnceBuffered'
  BY <1>3, <1>4, ApartMessages
<1> QED
  BY <1>5, <1>6, <1>7 DEF Next

(* Without a timeout a call that runs is alone.                              *)
LEMMA Alone ==
  ASSUME Loop, ~timed, NEW c \in Call, Running(c)
  PROVE  \A d \in Call \ {c} : ~Running(d)
BY DEF Loop

(* A call that has exposed the map, or has ended, does not go back.          *)
LEMMA ExposedGrows ==
  ASSUME Types, Loop, Next
  PROVE  /\ Exposed \subseteq Exposed'
         /\ IsFiniteSet(Exposed) /\ IsFiniteSet(Exposed') /\ Exposed' \subseteq Call
         /\ Cardinality(Exposed) \in Nat /\ Cardinality(Exposed') \in Nat
         /\ Cardinality(Exposed) <= Cardinality(Exposed')
         /\ \A c \in Exposed' \ Exposed : Cardinality(Exposed) + 1 <= Cardinality(Exposed')
<1>1. ASSUME NEW c \in Exposed
      PROVE  c \in Exposed'
  <2>1. c \in Call /\ call[c].at \in {"newMap", "nil"}
    BY DEF Exposed
  <2>2. ASSUME NEW d \in Call, WriteDataStep(d)
        PROVE  call'[c].at \in {"newMap", "nil"}
    <3>1. Moves(d) \/ UNCHANGED call
      BY <2>2, WriteDataMoves
    <3>2. CASE UNCHANGED call
      BY <2>1, <3>2
    <3>3. CASE Moves(d) /\ d # c
      BY <2>1, <3>3, MoveFields
    <3>4. CASE Moves(d) /\ d = c
      BY <2>1, <3>4
      DEF Moves, Passes, Adds, Defers, Leaves, Breaks, GoesOn, Ends, Repeats, Finishes, Looking,
          Requested, MovesTo, Becomes, At
    <3> QED
      BY <3>1, <3>2, <3>3, <3>4
  <2>3. ASSUME StartWrite
        PROVE  call'[c].at \in {"newMap", "nil"}
    <3>1. PICK b \in Call : call[b] = Idle /\ Becomes(b, "loop", 0, <<>>, <<>>, 0)
      BY <2>3, Starting
    <3> QED
      BY <2>1, <3>1 DEF Idle, Becomes
  <2>4. WriteDone \/ Deadline \/ Shutdown \/ ClientSends \/ MapRace => UNCHANGED call
    BY ApartBackend
  <2>5. call'[c].at \in {"newMap", "nil"}
    BY <2>1, <2>2, <2>3, <2>4 DEF Next
  <2> QED
    BY <2>1, <2>5 DEF Exposed
<1>2. Len(Lengths) \in Nat /\ Call = 1 .. Len(Lengths)
  BY SinksAssumption DEF Call
<1>3. IsFiniteSet(Call)
  BY <1>2, UpTo
<1>4. Exposed \subseteq Call /\ Exposed' \subseteq Call
  BY DEF Exposed
<1> DEFINE E == Exposed
           F == {c \in Call : call'[c].at \in {"newMap", "nil"}}
<1>5. E \subseteq F /\ F \subseteq Call /\ F = Exposed' /\ E = Exposed
  BY <1>1, <1>4 DEF Exposed
<1> HIDE DEF E, F
<1>6. IsFiniteSet(E) /\ IsFiniteSet(F)
  BY <1>3, <1>5, FS_Subset
<1>7. Cardinality(E) \in Nat /\ Cardinality(F) \in Nat /\ Cardinality(E) <= Cardinality(F)
  BY <1>5, <1>6, FS_Subset, FS_CardinalityType
<1>8. ASSUME NEW c \in F \ E
      PROVE  Cardinality(E) + 1 <= Cardinality(F)
  <2>1. Cardinality(E \cup {c}) = Cardinality(E) + 1
    BY <1>6, <1>8, FS_AddElement
  <2>2. E \cup {c} \in SUBSET F
    BY <1>5, <1>8
  <2>3. Cardinality(E \cup {c}) <= Cardinality(F)
    BY <1>6, <2>2, FS_Subset
  <2> QED
    BY <2>1, <2>3
<1> QED
  BY <1>5, <1>6, <1>7, <1>8

LEMMA OncePerCallStep ==
  ASSUME Types, Loop, \A c \in Call : Local(c), Fresh, OncePerCall, Next
  PROVE  OncePerCall'
<1>1. P' = P /\ timed' = timed /\ Common /\ \A m \in Message : delivered[m] \in Nat
  BY SamePump, Profiled, Gaining
<1>2. SUFFICES ASSUME P.client = "map"
               PROVE  OncePerCall'
  BY <1>1 DEF OncePerCall
<1>3. /\ Cardinality(Exposed) \in Nat /\ Cardinality(Exposed') \in Nat
      /\ Cardinality(Exposed) <= Cardinality(Exposed')
      /\ \A c \in Exposed' \ Exposed : Cardinality(Exposed) + 1 <= Cardinality(Exposed')
  BY ExposedGrows
<1> DEFINE Resets == \E c \in Call : At(c, "newMap")
           ResetsNext == \E c \in Call : call'[c].at = "newMap"
           B == Cardinality(Exposed)
           C == Cardinality(Exposed')
<1>4. SUFFICES /\ \A m \in Message : delivered'[m] <= C
               /\ ~timed => /\ \A m \in Message : delivered'[m] <= 1
                            /\ \A m \in waiting' : delivered'[m] > 0 <=> ResetsNext
  BY <1>1 DEF OncePerCall, At
<1>5. /\ \A m \in Message : delivered[m] <= B
      /\ ~timed => /\ \A m \in Message : delivered[m] <= 1
                   /\ \A m \in waiting : delivered[m] > 0 <=> Resets
  BY <1>2 DEF OncePerCall
<1> HIDE DEF B, C
<1>6. B \in Nat /\ C \in Nat /\ B <= C /\ \A c \in Exposed' \ Exposed : B + 1 <= C
  BY <1>3 DEF B, C
<1>7. ASSUME UNCHANGED backend, ~timed => (Resets <=> ResetsNext)
      PROVE  /\ \A m \in Message : delivered'[m] <= C
             /\ ~timed => /\ \A m \in Message : delivered'[m] <= 1
                          /\ \A m \in waiting' : delivered'[m] > 0 <=> ResetsNext
  <2> HIDE DEF Resets, ResetsNext
  <2>1. \A m \in Message : delivered'[m] = delivered[m]
    BY <1>7 DEF backend
  <2>2. \A m \in Message : delivered'[m] <= C
    BY <1>1, <1>5, <1>6, <2>1
  <2> QED
    BY <1>5, <1>7, <2>1, <2>2 DEF backend
<1>8. ASSUME NEW c \in Call, WriteDataStep(c)
      PROVE  /\ \A m \in Message : delivered'[m] <= C
             /\ ~timed => /\ \A m \in Message : delivered'[m] <= 1
                          /\ \A m \in waiting' : delivered'[m] > 0 <=> ResetsNext
  <2>1. ~Asks(c) /\ ~Flush(c)
    BY <1>2 DEF Asks, Flush
  <2>2. CASE Quiet(c)
    <3>1. CASE UNCHANGED call
      BY <1>7, <2>2, <3>1 DEF Quiet, At
    <3>2. CASE At(c, "loop") /\ (Passes(c) \/ Adds(c) \/ Defers(c) \/ Leaves(c) \/ Breaks(c))
      <4>1. call'[c].at # "newMap" /\ \A d \in Call \ {c} : call'[d] = call[d]
        BY <3>2 DEF Passes, Adds, Defers, Leaves, Breaks, MovesTo, Becomes
      <4>2. Resets <=> ResetsNext
        BY <3>2, <4>1 DEF At
      <4> QED
        BY <1>7, <2>2, <4>2 DEF Quiet
    <3> QED
      BY <2>2, <3>1, <3>2 DEF Quiet
  <2>3. CASE Hold(c)
    <3>1. /\ \A m \in Messages(c) : m \in Message /\ delivered[m] = 0
          /\ delivered' = delivered /\ waiting' \subseteq waiting \cup Messages(c)
          /\ At(c, "send") /\ GoesOn(c)
      BY <2>3, HeldIsNew DEF Hold
    <3>2. call'[c].at = "loop" /\ \A d \in Call \ {c} : call'[d] = call[d]
      BY <3>1 DEF GoesOn, Becomes
    <3>3. ~timed => ~Resets /\ ~ResetsNext
      <4>1. HAVE ~timed
      <4>2. \A d \in Call \ {c} : ~At(d, "newMap")
        BY <3>1, <4>1, Alone DEF Running, At
      <4> QED
        BY <3>1, <3>2, <4>2 DEF At
    <3> HIDE DEF Resets, ResetsNext
    <3>4. \A m \in Message : delivered'[m] <= C
      BY <1>1, <1>5, <1>6, <3>1
    <3>5. ASSUME ~timed, NEW m \in waiting'
          PROVE  ~(delivered'[m] > 0)
      <4>1. m \in Messages(c) => ~(delivered'[m] > 0)
        BY <3>1
      <4>2. m \in waiting => ~(delivered'[m] > 0)
        BY <1>5, <3>1, <3>3, <3>5
      <4> QED
        BY <3>1, <4>1, <4>2
    <3> QED
      BY <1>5, <3>1, <3>3, <3>4, <3>5
  <2>4. CASE ExposeAdds(c)
    <3>1. At(c, "flush") /\ Gains(waiting) /\ waiting' = waiting /\ Finishes(c)
      BY <2>4, Gaining, RequestMoves DEF ExposeAdds
    <3>2. call'[c].at = "newMap"
      BY <1>2, <3>1 DEF Finishes, MovesTo, Becomes, At
    <3>3. c \in Exposed' /\ c \notin Exposed
      BY <3>1, <3>2 DEF Exposed, At
    <3>4. B + 1 <= C
      BY <1>6, <3>3
    <3>5. ~timed => ~Resets
      BY <3>1, Alone DEF Running, At
    <3>6. ResetsNext
      BY <3>2
    <3> HIDE DEF Resets, ResetsNext
    <3>7. \A m \in Message : delivered'[m] = IF m \in waiting THEN delivered[m] + 1 ELSE delivered[m]
      BY <3>1 DEF Gains
    <3>8. \A m \in Message : delivered'[m] <= C
      BY <1>1, <1>5, <1>6, <3>4, <3>7
    <3>9. ASSUME ~timed
          PROVE  /\ \A m \in Message : delivered'[m] <= 1
                 /\ \A m \in waiting' : delivered'[m] > 0
      <4>1. \A m \in waiting : m \in Message /\ delivered[m] = 0
        <5>1. waiting \subseteq Message
          BY DEF Types, TypeOK
        <5> QED
          BY <1>1, <1>5, <3>5, <3>9, <5>1
      <4> QED
        BY <1>5, <3>1, <3>7, <3>9, <4>1
    <3> QED
      BY <3>6, <3>8, <3>9
  <2>5. CASE ExposeResets(c)
    <3>1. waiting' = {} /\ delivered' = delivered
      BY <2>5 DEF ExposeResets
    <3>2. \A m \in Message : delivered'[m] <= C
      BY <1>1, <1>5, <1>6, <3>1
    <3> QED
      BY <1>5, <3>1, <3>2
  <2> QED
    BY <1>8, <2>1, <2>2, <2>3, <2>4, <2>5, Effects
<1>9. ASSUME StartWrite
      PROVE  UNCHANGED backend /\ (~timed => (Resets <=> ResetsNext))
  <2>1. PICK b \in Call : /\ UNCHANGED backend /\ call[b] = Idle
                          /\ Becomes(b, "loop", 0, <<>>, <<>>, 0)
    BY <1>9, Starting
  <2> QED
    BY <2>1 DEF Becomes, Idle, At
<1>10. ASSUME WriteDone \/ Deadline \/ Shutdown \/ ClientSends \/ MapRace
       PROVE  UNCHANGED backend /\ (~timed => (Resets <=> ResetsNext))
  <2>1. UNCHANGED call
    BY <1>10, ApartBackend
  <2>2. UNCHANGED backend
    BY <1>2, <1>10, ApartMessages
  <2> QED
    BY <2>1, <2>2 DEF At
<1> QED
  BY <1>7, <1>8, <1>9, <1>10 DEF Next

-----------------------------------------------------------------------------
(* What was sent arrives.                                                    *)

LEMMA FaultsGrow ==
  ASSUME Next
  PROVE  (UNCHANGED faults \/ Fault) /\ over \subseteq over'
<1>1. ASSUME NEW c \in Call, WriteDataStep(c)
      PROVE  (UNCHANGED faults \/ Fault) /\ over \subseteq over'
  BY <1>1
  DEF WriteDataStep, LooksForFile, Creates, SeesOver, Die, Refuse, Skip, Take, LoopEnds, Hold, Accepted,
      Retry, GivesUp, Fails, Spill, Flush, ExposeAdds, ExposeResets, ConfigBreaksOff, loop
<1>2. StartWrite \/ WriteDone \/ Deadline \/ Shutdown \/ ClientSends \/ MapRace =>
        (UNCHANGED faults \/ Fault) /\ over \subseteq over'
  BY DEF StartWrite, WriteDone, Deadline, Shutdown, ClientSends, MapRace, loop
<1> QED
  BY <1>1, <1>2 DEF Next

(* A pump that would not hear of a failure is sure only without one.         *)
LEMMA StillSure ==
  ASSUME Types, Loop, Next, NEW c \in Call, slice'[c] = slice[c], Sure(c)'
  PROVE  /\ Sure(c)
         /\ P.error = "logged" \/ pump = "sqs" =>
              ~Fault /\ (c \in over => P.over # "request") /\ (pump = "kinesis" => ~Spoiled(c))
<1>1. P' = P /\ pump' = pump
  BY SamePump
<1>2. Spoiled(c)' <=> Spoiled(c)
  <2>1. \A n : Reaction(c, n)' = Reaction(c, n)
    BY <1>1 DEF Reaction
  <2> QED
    BY <1>1, <2>1 DEF Spoiled, Spoils
<1>3. faults' = 0 => faults = 0 /\ ~Fault
  BY FaultsGrow DEF Fault, Types, TypeOK
<1>4. over \subseteq over'
  BY FaultsGrow
<1> QED
  BY <1>1, <1>2, <1>3, <1>4 DEF Sure

(* A message that leaves the client goes to the backend.                     *)
LEMMA StaysArrived ==
  ASSUME Types, NEW M, Gains(M), waiting \ waiting' \subseteq M
  PROVE  \A c \in Call : \A n \in 1 .. Lengths[c] :
           Taken(c, n) \/ <<c, n>> \in M => Taken(c, n)'
<1> TAKE c \in Call
<1> TAKE n \in 1 .. Lengths[c]
<1>1. <<c, n>> \in Message /\ delivered[<<c, n>>] \in Nat
  BY Messaging, Gaining
<1>2. delivered'[<<c, n>>] = IF <<c, n>> \in M THEN delivered[<<c, n>>] + 1 ELSE delivered[<<c, n>>]
  BY <1>1 DEF Gains
<1> QED
  BY <1>1, <1>2 DEF Taken

LEMMA SentIsOfSlice ==
  ASSUME Types, NEW c \in Call, Order(c)
  PROVE  Sent(c) \subseteq 1 .. Lengths[c]
BY Messaging DEF Order

(* A request that the loop goes on after has all its messages delivered,     *)
(* unless the pump would not hear of it.                                     *)
LEMMA AnsweredFor ==
  ASSUME Types, Loop, Unfiled, NEW c \in Call, Local(c), Next, WriteDataStep(c), Asks(c), GoesOn(c), Sure(c)'
  PROVE  Gains(Messages(c))
<1>1. Common
  BY Profiled
<1>2. slice'[c] = slice[c]
  BY WriteDataMoves
<1>3. P.error = "logged" \/ pump = "sqs" =>
        ~Fault /\ (c \in over => P.over # "request") /\ (pump = "kinesis" => ~Spoiled(c))
  BY <1>2, StillSure
<1>4. call'[c].at = "loop"
  BY DEF GoesOn, Becomes
<1>5. CASE Accepted(c)
  BY <1>1, <1>3, <1>5, Gaining DEF Accepted, Common
<1>6. CASE GivesUp(c)
  <2>1. At(c, "send") /\ Fails(c)
    BY <1>6 DEF GivesUp, Fails, Requests
  <2>2. P.error = "logged"
    <3>1. AfterFailure(c)
      BY <1>6 DEF GivesUp
    <3>2. CASE P.error = "returned"
      <4>1. MovesTo(c, "error")
        <5>1. call' = [call EXCEPT ![c].at = "error"]
          BY <3>1, <3>2 DEF AfterFailure, Goes
        <5>2. /\ "error" \in Place /\ call[c].pos \in Nat /\ call[c].tries \in Nat
              /\ call[c].batch \in Seq(Nat) /\ call[c].rest \in Seq(Nat)
          BY Typing DEF Place
        <5>3. Becomes(c, "error", call[c].pos, call[c].batch, call[c].rest, call[c].tries)
          BY <5>1, <5>2, Update
        <5> QED
          BY <5>3 DEF MovesTo
      <4> QED
        BY <1>4, <4>1 DEF MovesTo, Becomes
    <3> QED
      BY <1>1, <3>2 DEF Common
  <2>3. Invalid(c)
    BY <1>3, <2>1, <2>2 DEF Fails
  <2>4. call[c].batch # <<>>
    BY <1>1, <2>1, <2>2 DEF Local, Shape, Sending, StartsTooLarge, Common
  <2>5. PICK n \in ToSet(call[c].batch) : Spoils(c, n)
    BY <1>2, <2>2, <2>3, <2>4, StillSure DEF Invalid, Unfiled, Sure
  <2>6. n \in DOMAIN slice[c]
    BY <2>5, Messaging
  <2> QED
    BY <1>1, <1>3, <2>2, <2>5, <2>6 DEF Spoils, Spoiled, Common
<1>7. CASE Spill(c)
  <2>1. P.error = "logged"
    BY <1>1, <1>7 DEF Spill, Common
  <2>2. ~Invalid(c) => Deliver(Messages(c))
    BY <1>3, <1>7, <2>1 DEF Spill, Invalid, Spoils
  <2>3. Invalid(c) => Deliver(Messages(c)) \/ call'[c].at = "error"
    BY <1>7 DEF Spill, Goes, Types, CallRecord
  <2> QED
    BY <1>4, <2>2, <2>3, Gaining
<1>8. ~Retry(c)
  <2>1. ASSUME Retry(c)
        PROVE  FALSE
    <3>1. call' = [call EXCEPT ![c].tries = call[c].tries + 1] /\ At(c, "send")
      BY <2>1 DEF Retry, Fails, Requests
    <3>2. call'[c].at = call[c].at
      BY <3>1 DEF Types
    <3> QED
      BY <1>4, <3>1, <3>2 DEF At
  <2> QED
    BY <2>1
<1>9. P.client = "none" /\ ~Hold(c) /\ ~Flush(c) /\ ~ExposeAdds(c)
  BY DEF Asks, Hold, Flush, ExposeAdds
<1>11. offered'[c] # offered[c]
  <2>1. offered'[c] = Append(offered[c], call[c].batch) /\ offered[c] \in Seq(Seq(Nat))
    BY Offering, Typing DEF GoesOn
  <2>2. call[c].batch \in Seq(Nat)
    BY Typing
  <2>3. Len(offered'[c]) = Len(offered[c]) + 1 /\ Len(offered[c]) \in Nat
    BY <2>1, <2>2
  <2> QED
    BY <2>3
<1>12. /\ ~SeesOver(c) /\ ~Die(c) /\ ~Refuse(c) /\ ~Skip(c) /\ ~Take(c) /\ ~LoopEnds(c)
       /\ ~ExposeResets(c) /\ ~ConfigBreaksOff(c) /\ ~LooksForFile(c) /\ ~Creates(c)
  BY <1>11 DEF LooksForFile, Creates, SeesOver, Die, Refuse, Skip, Take, LoopEnds, ExposeResets, ConfigBreaksOff
<1> QED
  BY <1>5, <1>6, <1>7, <1>8, <1>9, <1>12 DEF WriteDataStep

(* A call that has failed stays so.                                          *)
LEMMA ErrorStays ==
  ASSUME Types, NEW c \in Call, Moves(c)
  PROVE  /\ ~At(c, "error")
         /\ \A d \in Call \ {c} : call'[d] = call[d]
         /\ \/ UNCHANGED offered
            \/ Requested(c) /\ (GoesOn(c) \/ Ends(c))
<1>1. ~At(c, "error")
  BY DEF Moves, Passes, Adds, Defers, Leaves, Breaks, GoesOn, Ends, Repeats, Finishes, Looking, Requested, At
<1> QED
  BY <1>1, MoveFields, MoveOffers

LEMMA ArrivalsStep ==
  ASSUME Types, Loop, Unfiled, \A c \in Call : Local(c), OncePerCall, Arrivals, Next
  PROVE  Arrivals'
<1>1. P' = P /\ pump' = pump /\ timed' = timed /\ Common
  BY SamePump, Profiled
<1>2. SUFFICES ASSUME ~(pump = "prometheus" /\ timed), NEW d \in Call, Sure(d)', call'[d].at # "error"
               PROVE  \A n \in Sent(d)' : Taken(d, n)'
  BY <1>1 DEF Arrivals, At
(* The calls that a step does not touch.                                     *)
<1>3. ASSUME NEW M, Gains(M), waiting \ waiting' \subseteq M,
             slice'[d] = slice[d], call[d].at # "error"
      PROVE  \A n \in Sent(d) : Taken(d, n)'
  <2>1. Sure(d) /\ ~At(d, "error")
    BY <1>2, <1>3, StillSure DEF At
  <2>2. \A n \in Sent(d) : Taken(d, n) /\ n \in 1 .. Lengths[d]
    BY <1>2, <2>1, SentIsOfSlice DEF Arrivals, Local
  <2> QED
    BY <1>3, <2>2, StaysArrived
<1>4. ASSUME NEW c \in Call, WriteDataStep(c)
      PROVE  \A n \in Sent(d)' : Taken(d, n)'
  <2>1. UNCHANGED <<config, slice, loop>> /\ (Moves(c) \/ UNCHANGED <<call, offered>>)
    BY <1>4, WriteDataMoves
  <2>2. slice'[d] = slice[d]
    BY <2>1
  <2>3. call[d].at # "error"
    BY <1>2, <2>1, ErrorStays DEF At
  <2>4. (d # c \/ UNCHANGED offered) => Sent(d)' = Sent(d)
    <3>1. offered'[d] = offered[d] => Sent(d)' = Sent(d)
      BY DEF Sent
    <3> QED
      BY <2>1, <3>1, MoveOffers
  <2>5. CASE Quiet(c)
    BY <1>3, <2>2, <2>3, <2>4, <2>5, Gaining DEF Quiet, backend
  <2>6. CASE Hold(c)
    <3>1. Gains({}) /\ waiting \subseteq waiting' /\ GoesOn(c)
      <4>1. GoesOn(c)
        BY <2>6, RequestMoves
      <4> QED
        BY <2>6, <4>1, Gaining DEF Hold
    <3>2. \A n \in Sent(d) : Taken(d, n)'
      BY <1>3, <2>2, <2>3, <3>1
    <3>3. CASE d = c
      <4>1. Sent(d)' = Sent(d) \cup ToSet(call[d].batch)
        BY <3>1, <3>3, Offering DEF GoesOn
      <4>2. P.error = "logged"
        BY <1>1, <2>6 DEF Common, Hold
      <4>3. waiting' = waiting \cup Messages(c)
        BY <2>2, <2>6, <1>2, <4>2, StillSure DEF Hold
      <4>4. \A n \in ToSet(call[d].batch) : Taken(d, n)'
        BY <3>3, <4>3, MessageOf DEF Taken
      <4> QED
        BY <3>2, <4>1, <4>4
    <3> QED
      BY <2>4, <3>2, <3>3
  <2>7. CASE Asks(c)
    <3>1. PICK M \in SUBSET Messages(c) : Gains(M)
      BY <2>7 DEF Asks
    <3>2. waiting' = waiting
      BY <2>7 DEF Asks
    <3>3. \A n \in Sent(d) : Taken(d, n)'
      BY <1>3, <2>2, <2>3, <3>1, <3>2
    <3>4. CASE d = c /\ GoesOn(c)
      <4>1. Sent(d)' = Sent(d) \cup ToSet(call[d].batch)
        BY <3>4, Offering DEF GoesOn
      <4>2. Gains(Messages(c))
        BY <1>2, <1>4, <2>7, <3>4, AnsweredFor
      <4>3. \A n \in ToSet(call[d].batch) : <<d, n>> \in Messages(c) /\ n \in 1 .. Lengths[d]
        BY <3>4, MessageOf, Messaging
      <4>4. \A n \in ToSet(call[d].batch) : Taken(d, n)'
        BY <3>2, <4>2, <4>3, StaysArrived
      <4> QED
        BY <3>3, <4>1, <4>4
    <3>5. d = c => ~Ends(c)
      BY <1>2 DEF Ends, MovesTo, Becomes
    <3>6. CASE Repeats(c)
      BY <2>4, <3>3, <3>6 DEF Repeats
    <3> QED
      BY <2>4, <2>7, <3>3, <3>4, <3>5, <3>6 DEF Asks
  <2>8. CASE Flush(c) \/ ExposeAdds(c)
    <3>1. Gains(waiting) /\ offered' = offered
      BY <2>8, Gaining DEF Flush, ExposeAdds
    <3> QED
      BY <1>3, <2>2, <2>3, <2>4, <3>1
  <2>9. CASE ExposeResets(c)
    <3>1. P.client = "map" /\ ~timed
      BY <1>1, <1>2, <2>9 DEF ExposeResets, Local, Shape, Ended, Common
    <3>2. \A m \in waiting : delivered[m] > 0
      BY <2>9, <3>1 DEF OncePerCall, ExposeResets
    <3>3. delivered' = delivered /\ offered' = offered
      BY <2>9 DEF ExposeResets
    <3>4. Sure(d)
      BY <1>2, <2>2, StillSure
    <3>5. \A n \in Sent(d) : Taken(d, n)
      BY <1>2, <2>3, <3>4 DEF Arrivals, At
    <3> QED
      BY <2>4, <3>2, <3>3, <3>5 DEF Taken
  <2> QED
    BY <1>4, <2>5, <2>6, <2>7, <2>8, <2>9, Effects
<1>5. ASSUME StartWrite
      PROVE  \A n \in Sent(d)' : Taken(d, n)'
  <2>1. PICK b \in Call : /\ UNCHANGED <<backend, offered>> /\ offered[b] = <<>> /\ call[b] = Idle
                          /\ Becomes(b, "loop", 0, <<>>, <<>>, 0)
                          /\ \A e \in Call \ {b} : slice'[e] = slice[e]
    BY <1>5, Starting
  <2>2. Sent(d)' = Sent(d)
    BY <2>1 DEF Sent
  <2>3. CASE d = b
    BY <2>1, <2>2, <2>3, NothingSent
  <2>4. CASE d # b
    <3>1. slice'[d] = slice[d] /\ call[d].at # "error"
      BY <1>2, <2>1, <2>4 DEF Becomes
    <3>2. Gains({}) /\ waiting' = waiting
      BY <2>1, Gaining DEF backend
    <3> QED
      BY <1>3, <2>2, <3>1, <3>2
  <2> QED
    BY <2>3, <2>4
<1>6. ASSUME WriteDone \/ Deadline \/ Shutdown \/ ClientSends \/ MapRace
      PROVE  \A n \in Sent(d)' : Taken(d, n)'
  <2>1. UNCHANGED <<slice, call, offered>>
    BY <1>6, ApartBackend
  <2>2. Sent(d)' = Sent(d) /\ slice'[d] = slice[d] /\ call[d].at # "error"
    BY <1>2, <2>1 DEF Sent
  <2>3. P.client = "buffer" => ~Fault
    BY <1>1, <1>2, <2>2, StillSure DEF Common
  <2>4. \E M : Gains(M) /\ waiting \ waiting' \subseteq M
    <3>1. CASE UNCHANGED backend
      BY <3>1, Gaining DEF backend
    <3> QED
      BY <1>6, <2>3, <3>1, ApartMessages
  <2> QED
    BY <1>3, <2>2, <2>4
<1> QED
  BY <1>4, <1>5, <1>6 DEF Next

LEMMA DeliveredGrows ==
  ASSUME Types, Loop, Next
  PROVE  \A m \in Message : /\ delivered[m] \in Nat /\ delivered'[m] \in Nat
                            /\ delivered[m] <= delivered'[m]
<1>1. ASSUME NEW M, Gains(M)
      PROVE  \A m \in Message : /\ delivered[m] \in Nat /\ delivered'[m] \in Nat
                                /\ delivered[m] <= delivered'[m]
  BY <1>1, Gaining DEF Gains
<1>2. ASSUME NEW c \in Call, WriteDataStep(c)
      PROVE  \E M : Gains(M)
  BY <1>2, Effects, Gaining DEF Quiet, Hold, Asks, Flush, ExposeAdds, ExposeResets, backend
<1>3. StartWrite => \E M : Gains(M)
  BY Starting, Gaining DEF backend
<1>4. WriteDone \/ Deadline \/ Shutdown \/ ClientSends \/ MapRace => \E M : Gains(M)
  BY ApartMessages, Gaining DEF backend
<1> QED
  BY <1>1, <1>2, <1>3, <1>4 DEF Next

LEMMA ExposesStep ==
  ASSUME Types, Loop, \A c \in Call : Local(c), Arrivals, Exposes, Next
  PROVE  Exposes'
<1>1. P' = P /\ pump' = pump /\ timed' = timed /\ Common
  BY SamePump, Profiled
<1>2. SUFFICES ASSUME P.client = "map", ~timed, faults' = 0,
                      NEW d \in Call, call'[d].at \in {"newMap", "nil"}, NEW n \in Sent(d)'
               PROVE  delivered'[<<d, n>>] > 0
  BY <1>1 DEF Exposes, Exposed
<1>3. faults = 0 /\ over = {}
  BY <1>2, FaultsGrow DEF Fault, Types, TypeOK, Loop
<1>4. ASSUME call[d].at \in {"newMap", "nil"}, Sent(d)' = Sent(d)
      PROVE  delivered'[<<d, n>>] > 0
  <2>1. delivered[<<d, n>>] > 0
    BY <1>2, <1>3, <1>4 DEF Exposes, Exposed
  <2>2. <<d, n>> \in Message
    BY <1>2, <1>4, Messaging, SentIsOfSlice DEF Local
  <2> QED
    BY <2>1, <2>2, DeliveredGrows
<1>5. ASSUME NEW c \in Call, WriteDataStep(c)
      PROVE  delivered'[<<d, n>>] > 0
  <2>1. Moves(c) \/ UNCHANGED <<call, offered>>
    BY <1>5, WriteDataMoves
  <2>2. offered'[d] = offered[d] => Sent(d)' = Sent(d)
    BY DEF Sent
  <2>3. CASE UNCHANGED <<call, offered>>
    BY <1>2, <1>4, <2>2, <2>3
  <2>4. CASE Moves(c) /\ d # c
    BY <1>2, <1>4, <2>2, <2>4, MoveFields, MoveOffers
  <2>5. CASE Moves(c) /\ d = c /\ call[d].at \in {"newMap", "nil"}
    <3>1. offered'[d] = offered[d]
      BY <2>5 DEF Moves, Passes, Adds, Defers, Leaves, Breaks, GoesOn, Ends, Repeats, Finishes, Looking,
                  Requested, At
    <3> QED
      BY <1>4, <2>2, <2>5, <3>1
  <2>6. CASE Moves(c) /\ d = c /\ call[d].at \notin {"newMap", "nil"}
    <3>1. ~Quiet(c)
      BY <1>1, <1>2, <2>6
      DEF Quiet, Passes, Adds, Defers, Leaves, Breaks, MovesTo, Becomes, Common
    <3>2. ~Hold(c)
      BY <1>2, <2>6, RequestMoves DEF GoesOn, Becomes
    <3>3. ~Asks(c) /\ ~Flush(c) /\ ~ExposeResets(c)
      BY <1>2, <2>6 DEF Asks, Flush, ExposeResets, At
    <3>4. ExposeAdds(c)
      BY <1>5, <3>1, <3>2, <3>3, Effects
    <3>5. Gains(waiting) /\ At(c, "flush") /\ offered' = offered
      BY <3>4, Gaining DEF ExposeAdds
    <3>6. Sure(c)
      BY <1>1, <1>2, <1>3 DEF Sure, Common
    <3>7. n \in Sent(c) /\ Taken(c, n)
      BY <1>2, <2>2, <2>6, <3>5, <3>6 DEF Arrivals, At
    <3>8. <<c, n>> \in Message
      BY <3>7, Messaging, SentIsOfSlice DEF Local
    <3> QED
      BY <2>6, <3>5, <3>7, <3>8, Gaining DEF Gains, Taken
  <2> QED
    BY <2>1, <2>3, <2>4, <2>5, <2>6
<1>6. ASSUME StartWrite
      PROVE  delivered'[<<d, n>>] > 0
  <2>1. PICK b \in Call : /\ UNCHANGED offered /\ Becomes(b, "loop", 0, <<>>, <<>>, 0)
    BY <1>6, Starting
  <2>2. Sent(d)' = Sent(d) /\ call'[d] = call[d]
    BY <1>2, <2>1 DEF Sent, Becomes
  <2> QED
    BY <1>2, <1>4, <2>2
<1>7. ASSUME WriteDone \/ Deadline \/ Shutdown \/ ClientSends \/ MapRace
      PROVE  delivered'[<<d, n>>] > 0
  <2>1. UNCHANGED <<call, offered>>
    BY <1>7, ApartBackend
  <2>2. Sent(d)' = Sent(d)
    BY <2>1 DEF Sent
  <2> QED
    BY <1>2, <1>4, <2>1, <2>2
<1> QED
  BY <1>5, <1>6, <1>7 DEF Next

-----------------------------------------------------------------------------
(* Why a call fails, and why the process ends.                               *)

(* Without a fault and without a timeout.                                    *)
LEMMA FailsFor ==
  ASSUME Types, Loop, NEW c \in Call, Local(c), WriteDataStep(c), ~Fault, over = {}, file[c] # "failed",
         ~At(c, "error"), call'[c].at = "error"
  PROVE  StartsTooLarge(c) \/ \E n \in DOMAIN slice[c] : ~PassedOver(c, n)
<1>1. Len(slice[c]) \in Nat /\ DOMAIN slice[c] = 1 .. Len(slice[c]) /\ call[c].pos \in Nat
  BY Typing
<1>2. CASE Refuse(c)
  <2>1. Reaction(c, Value(c)) = "error" /\ Value(c) \in DOMAIN slice[c]
    BY <1>1, <1>2 DEF Refuse, NextIs, Looks, Value
  <2> QED
    BY <2>1 DEF PassedOver
<1>3. CASE GivesUp(c)
  <2>1. At(c, "send") /\ Invalid(c)
    BY <1>3 DEF GivesUp, Fails, Requests
  <2>2. CASE call[c].batch = <<>>
    BY <2>1, <2>2 DEF Local, Shape, Sending
  <2>3. CASE \E n \in ToSet(call[c].batch) : Spoils(c, n)
    BY <2>3, Messaging DEF PassedOver
  <2> QED
    BY <2>1, <2>2, <2>3 DEF Invalid
<1>4. ~Spill(c)
  <2>1. ASSUME Spill(c)
        PROVE  (Continue(c) /\ At(c, "loop")) \/ \E n \in ToSet(call[c].batch) : Spoils(c, n)
    BY <2>1 DEF Spill, Invalid
  <2>3. Spill(c) => ~\E n \in ToSet(call[c].batch) : Spoils(c, n)
    BY DEF Spill, Spoils
  <2>2. Continue(c) /\ At(c, "loop") => call'[c].at = "loop"
    BY DEF Continue, Types
  <2> QED
    BY <2>1, <2>2, <2>3
<1>5. ~SeesOver(c)
  BY DEF SeesOver
<1>6. ~Skip(c) /\ ~Take(c) /\ ~LoopEnds(c)
  BY LoopMoves DEF Passes, Adds, Defers, Leaves, MovesTo, Becomes
<1>7. ~Hold(c) /\ ~Accepted(c) /\ ~Retry(c) /\ ~Flush(c) /\ ~ExposeAdds(c) /\ ~ExposeResets(c)
  BY RequestMoves DEF GoesOn, Repeats, Finishes, MovesTo, Becomes
<1>8. ~Die(c) /\ ~ConfigBreaksOff(c) /\ ~LooksForFile(c) /\ ~Creates(c)
  BY DEF Die, ConfigBreaksOff, LooksForFile, Creates, At
<1> QED
  BY <1>2, <1>3, <1>4, <1>5, <1>6, <1>7, <1>8 DEF WriteDataStep

LEMMA ReasonsStep ==
  ASSUME Types, Loop, Unfiled, \A c \in Call : Local(c), Reasons, Next
  PROVE  Reasons'
<1>1. timed' = timed
  BY SamePump
<1>2. SUFFICES ASSUME ~timed, faults' = 0
               PROVE  Reasons'
  BY <1>1 DEF Reasons
<1>3. faults = 0 /\ over = {} /\ ~Fault
  BY <1>2, FaultsGrow DEF Fault, Types, TypeOK, Loop
<1>4. ASSUME NEW c \in Call, At(c, "error")
      PROVE  StartsTooLarge(c) \/ \E n \in DOMAIN slice[c] : ~PassedOver(c, n)
  BY <1>2, <1>3, <1>4 DEF Reasons
<1>5. ASSUME NEW d \in Call, UNCHANGED config, slice'[d] = slice[d],
             StartsTooLarge(d) \/ \E n \in DOMAIN slice[d] : ~PassedOver(d, n)
      PROVE  (StartsTooLarge(d) \/ \E n \in DOMAIN slice[d] : ~PassedOver(d, n))'
  BY <1>5, SameSlice
<1>6. ASSUME NEW c \in Call, WriteDataStep(c)
      PROVE  Reasons'
  <2>1. UNCHANGED <<config, slice>> /\ (Moves(c) \/ UNCHANGED call)
    BY <1>6, WriteDataMoves
  <2>2. UNCHANGED config /\ slice' = slice
    BY <2>1
  <2>3. ASSUME NEW d \in Call, call'[d].at = "error"
        PROVE  (StartsTooLarge(d) \/ \E n \in DOMAIN slice[d] : ~PassedOver(d, n))'
    <3>1. CASE At(d, "error")
      BY <1>4, <1>5, <2>2, <3>1
    <3>2. CASE ~At(d, "error")
      <4>1. d = c
        BY <2>1, <2>3, <3>2, MoveFields DEF At
      <4> QED
        BY <1>3, <1>5, <1>6, <2>2, <2>3, <3>2, <4>1, FailsFor DEF Unfiled
    <3> QED
      BY <3>1, <3>2
  <2>4. ASSUME died'
        PROVE  \E n \in DOMAIN slice[c] : Reaction(c, n) = "exit"
    <3>1. ~died
      BY DEF Next
    <3>2. Die(c)
      BY <1>3, <1>6, <2>4, <3>1
      DEF WriteDataStep, LooksForFile, Creates, SeesOver, Refuse, Skip, Take, LoopEnds, Hold, Accepted, Retry, GivesUp,
          Spill, Flush, ExposeAdds, ExposeResets, ConfigBreaksOff
    <3>3. Reaction(c, Value(c)) = "exit" /\ Value(c) \in DOMAIN slice[c]
      BY <3>2, Typing DEF Die, NextIs, Looks, Value
    <3> QED
      BY <3>3
  <2>5. \A n : Reaction(c, n)' = Reaction(c, n)
    BY <2>2, SameSlice
  <2> QED
    BY <2>2, <2>3, <2>4, <2>5 DEF Reasons, At
<1>7. ~MapRace
  BY <1>2, Alone DEF MapRace, Running
<1>8. ASSUME StartWrite
      PROVE  Reasons'
  <2>1. PICK b \in Call : /\ UNCHANGED <<config, died>> /\ Becomes(b, "loop", 0, <<>>, <<>>, 0)
                          /\ \A e \in Call \ {b} : slice'[e] = slice[e]
    BY <1>8, Starting
  <2>2. ASSUME NEW d \in Call, call'[d].at = "error"
        PROVE  (StartsTooLarge(d) \/ \E n \in DOMAIN slice[d] : ~PassedOver(d, n))'
    <3>1. d # b
      BY <2>1, <2>2 DEF Becomes
    <3>2. slice'[d] = slice[d] /\ At(d, "error")
      BY <2>1, <2>2, <3>1 DEF Becomes, At
    <3> QED
      BY <1>4, <1>5, <2>1, <3>2
  <2>3. ~died'
    BY <2>1 DEF Next
  <2> QED
    BY <2>2, <2>3 DEF Reasons, At
<1>9. ASSUME WriteDone \/ Deadline \/ Shutdown \/ ClientSends
      PROVE  Reasons'
  <2>1. UNCHANGED config /\ slice' = slice /\ call' = call
    BY <1>9, ApartBackend
  <2>2. ASSUME NEW d \in Call, call'[d].at = "error"
        PROVE  (StartsTooLarge(d) \/ \E n \in DOMAIN slice[d] : ~PassedOver(d, n))'
    BY <1>4, <1>5, <2>1, <2>2 DEF At
  <2>3. ~died'
    BY <1>9 DEF Next, WriteDone, Deadline, Shutdown, ClientSends
  <2> QED
    BY <2>2, <2>3 DEF Reasons, At
<1> QED
  BY <1>6, <1>7, <1>8, <1>9 DEF Next

LEMMA StoppedStep ==
  ASSUME Types, Loop, Next
  PROVE  Stopped'
<1>1. P' = P /\ Common
  BY SamePump, Profiled
<1>2. SUFFICES ASSUME main' = "stopped", P.client = "buffer", P.flush # {}
               PROVE  waiting' = {}
  BY <1>1 DEF Stopped
<1>3. Shutdown
  <2>1. main # "stopped"
    BY DEF Next
  <2>2. ASSUME NEW c \in Call, WriteDataStep(c)
        PROVE  main' = main
    BY <2>2, WriteDataMoves DEF loop
  <2>3. ~StartWrite /\ ~WriteDone /\ ~Deadline
    BY <1>2 DEF StartWrite, WriteDone, Deadline
  <2>4. ClientSends \/ MapRace => main' = main
    BY DEF ClientSends, MapRace, loop
  <2> QED
    BY <1>2, <2>1, <2>2, <2>3, <2>4 DEF Next
<1> QED
  BY <1>1, <1>2, <1>3 DEF Shutdown, FlushesAtShutdown, Common

-----------------------------------------------------------------------------
(* The file of the CSV pump.                                                 *)

LEMMA UnfiledStep ==
  ASSUME Types, Unfiled, Next
  PROVE  Unfiled'
<1>1. /\ Fault => faults' # 0
      /\ UNCHANGED faults \/ Fault
      /\ faults # 0 => faults' # 0
  BY Faulting, FaultsGrow DEF Fault
<1>2. ASSUME NEW c \in Call, WriteDataStep(c)
      PROVE  Unfiled'
  <2>1. CASE LooksForFile(c)
    BY <1>1, <2>1 DEF LooksForFile, Unfiled, Types, TypeOK
  <2>2. CASE Creates(c)
    BY <1>1, <2>2 DEF Creates, Unfiled, Types, TypeOK
  <2> QED
    BY <1>1, <1>2, <2>1, <2>2, Filing DEF Unfiled
<1>3. StartWrite \/ WriteDone \/ Deadline \/ Shutdown \/ ClientSends \/ MapRace => UNCHANGED file
  BY DEF StartWrite, WriteDone, Deadline, Shutdown, ClientSends, MapRace, csv
<1> QED
  BY <1>1, <1>2, <1>3 DEF Next, Unfiled

(* The files that the calls have, by the step.                               *)
LEMMA FileSteps ==
  ASSUME Types, Opening, NEW c \in Call, WriteDataStep(c)
  PROVE  /\ LooksForFile(c) => /\ pump = "csv" /\ At(c, "loop") /\ file[c] = "none" /\ UNCHANGED <<call, delivered>>
                               /\ UNCHANGED overwritten /\ \A d \in Call \ {c} : file'[d] = file[d]
                               /\ file'[c] \in {"missing", "append", "failed"}
                               /\ file'[c] = "missing" => \A d \in Call : ~Opened(d)
         /\ Creates(c) => /\ file[c] = "missing" /\ UNCHANGED <<call, delivered>>
                          /\ \A d \in Call \ {c} : file'[d] = file[d]
                          /\ \/ file'[c] = "failed" /\ UNCHANGED overwritten
                             \/ file'[c] = "created" /\ overwritten' = overwritten \cup Rows
         /\ ~LooksForFile(c) /\ ~Creates(c) /\ pump = "csv" => ~Unopened(c)
<1>1. file \in [Call -> {"none", "missing", "created", "append", "failed"}]
  BY DEF Types, TypeOK
<1>2. Common
  BY Profiled
<1>3. LooksForFile(c) => /\ pump = "csv" /\ At(c, "loop") /\ file[c] = "none" /\ UNCHANGED <<call, delivered>>
                         /\ UNCHANGED overwritten /\ \A d \in Call \ {c} : file'[d] = file[d]
                         /\ file'[c] \in {"missing", "append", "failed"}
                         /\ file'[c] = "missing" => \A d \in Call : ~Opened(d)
  BY <1>1 DEF LooksForFile, FileExists, Opened, backend
<1>4. Creates(c) => /\ file[c] = "missing" /\ UNCHANGED <<call, delivered>>
                    /\ \A d \in Call \ {c} : file'[d] = file[d]
                    /\ \/ file'[c] = "failed" /\ UNCHANGED overwritten
                       \/ file'[c] = "created" /\ overwritten' = overwritten \cup Rows
  BY <1>1 DEF Creates, backend
<1>5. ASSUME ~LooksForFile(c), ~Creates(c), pump = "csv"
      PROVE  ~Unopened(c)
  <2>1. P.client = "none" /\ P.over = "unseen"
    BY <1>2, <1>5 DEF Common
  <2>2. CASE Die(c) \/ Refuse(c) \/ Skip(c) \/ Take(c) \/ LoopEnds(c)
    BY <1>5, <2>2 DEF Die, Refuse, Skip, Take, LoopEnds, NextIs, Looks, HasFile, Unopened
  <2>3. CASE Accepted(c) \/ Retry(c) \/ GivesUp(c) \/ Spill(c)
    BY <1>5, <2>3 DEF Accepted, Retry, GivesUp, Fails, Requests, Spill, Opening, At
  <2>4. CASE SeesOver(c) \/ Hold(c) \/ ConfigBreaksOff(c)
    BY <1>5, <2>1, <2>4 DEF SeesOver, Hold, ConfigBreaksOff
  <2>5. CASE Flush(c) \/ ExposeAdds(c) \/ ExposeResets(c)
    BY <1>5, <2>5 DEF Flush, ExposeAdds, ExposeResets, Opening, At
  <2> QED
    BY <1>5, <2>2, <2>3, <2>4, <2>5 DEF WriteDataStep
<1> QED
  BY <1>3, <1>4, <1>5

(* Rows get into the file only by a call that has it open.                   *)
LEMMA RowsOfOpened ==
  ASSUME Types, Loop, Opening, pump = "csv", NEW c \in Call, WriteDataStep(c), ~LooksForFile(c), ~Creates(c)
  PROVE  \A m \in Message : delivered'[m] > 0 => delivered[m] > 0 \/ (m[1] = c /\ Opened(c))
<1>1. Common /\ file[c] \in {"none", "missing", "created", "append", "failed"} /\ ~Unopened(c)
  <2>1. Common
    BY Profiled
  <2>2. file[c] \in {"none", "missing", "created", "append", "failed"}
    BY DEF Types, TypeOK
  <2> QED
    BY <2>1, <2>2, FileSteps
<1>2. P.client = "none"
  BY <1>1 DEF Common
<1>3. CASE Asks(c)
  <2>1. PICK M \in SUBSET Messages(c) : Gains(M)
    BY <1>3 DEF Asks
  <2>2. CASE file[c] = "failed"
    <3>1. ~Accepted(c) /\ (Retry(c) \/ GivesUp(c) \/ Spill(c) => UNCHANGED delivered)
      BY <2>2 DEF Accepted, Retry, GivesUp, Spill, Fails, Invalid
    <3>2. Die(c) \/ Refuse(c) \/ Skip(c) \/ Take(c) \/ LoopEnds(c) \/ SeesOver(c) \/ ConfigBreaksOff(c)
          \/ Hold(c) \/ ExposeResets(c) => UNCHANGED delivered
      BY DEF Die, Refuse, Skip, Take, LoopEnds, SeesOver, ConfigBreaksOff, Hold, ExposeResets, backend
    <3>3. ~Flush(c) /\ ~ExposeAdds(c)
      BY <1>2 DEF Flush, ExposeAdds
    <3> QED
      BY <3>1, <3>2, <3>3 DEF WriteDataStep
  <2>3. CASE file[c] # "failed"
    <3>1. Opened(c)
      BY <1>1, <2>3 DEF Opened, Unopened
    <3>2. \A m \in Messages(c) : m[1] = c
      BY DEF Messages
    <3> QED
      BY <2>1, <3>1, <3>2 DEF Gains
  <2> QED
    BY <2>2, <2>3
<1>4. CASE Quiet(c) \/ ExposeResets(c)
  BY <1>4 DEF Quiet, ExposeResets, backend
<1>5. ~Hold(c) /\ ~Flush(c) /\ ~ExposeAdds(c)
  BY <1>2 DEF Hold, Flush, ExposeAdds
<1> QED
  BY <1>3, <1>4, <1>5, Effects

LEMMA OpeningStep ==
  ASSUME Types, Loop, Opening, Next
  PROVE  Opening'
<1>1. pump' = pump /\ Common /\ \A c \in Call : \A n \in 1 .. Lengths[c] : <<c, n>> \in Message
  BY SamePump, Profiled, Messaging
<1>2. ASSUME NEW c \in Call, WriteDataStep(c)
      PROVE  Opening'
  <2>1. CASE LooksForFile(c)
    BY <1>1, <1>2, <2>1, FileSteps DEF Opening, Unopened, Opened, At
  <2>2. CASE Creates(c)
    BY <1>1, <1>2, <2>2, FileSteps DEF Opening, Unopened, Opened, At
  <2>3. CASE ~LooksForFile(c) /\ ~Creates(c)
    <3>1. file' = file /\ (pump = "csv" => ~Unopened(c)) /\ (pump # "csv" => file[c] = "none")
      BY <1>2, <2>3, Filing, FileSteps DEF Opening
    <3>2. \A d \in Call \ {c} : call'[d] = call[d]
      BY <1>2, WriteDataMoves, MoveFields
    <3>3. call'[c].at = "none" => At(c, "none")
      BY <1>2, WriteDataMoves, MoveFields DEF At
    <3>4. file[c] # "missing"
      BY <3>1 DEF Unopened
    <3>5. ASSUME pump = "csv", NEW d \in Call, NEW n \in 1 .. Lengths[d], delivered'[<<d, n>>] > 0
          PROVE  Opened(d)
      BY <1>1, <1>2, <2>3, <3>5, RowsOfOpened DEF Opening
    <3>6. ASSUME NEW d \in Call
          PROVE  /\ file[d] = "missing" => call'[d].at = "loop"
                 /\ call'[d].at = "none" => file[d] = "none"
                 /\ pump = "csv" /\ Unopened(d) => call'[d].at \in {"none", "loop"} /\ call'[d].batch = <<>>
      BY <3>1, <3>2, <3>3, <3>4 DEF Opening, At
    <3> QED
      BY <1>1, <3>1, <3>5, <3>6 DEF Opening, Unopened, Opened, At
  <2> QED
    BY <2>1, <2>2, <2>3
<1>3. ASSUME StartWrite
      PROVE  Opening'
  <2>1. PICK b \in Call : UNCHANGED backend /\ call[b] = Idle /\ Becomes(b, "loop", 0, <<>>, <<>>, 0)
    BY <1>3, Starting
  <2>2. file' = file /\ delivered' = delivered
    BY <1>3, <2>1 DEF StartWrite, csv, backend
  <2>3. file[b] = "none" /\ call'[b].at = "loop" /\ call'[b].batch = <<>> /\ \A d \in Call \ {b} : call'[d] = call[d]
    BY <2>1 DEF Becomes, Opening, At, Idle
  <2> QED
    BY <1>1, <2>2, <2>3 DEF Opening, Unopened, Opened, At
<1>4. ASSUME WriteDone \/ Deadline \/ Shutdown \/ ClientSends \/ MapRace
      PROVE  Opening'
  <2>1. call' = call
    BY <1>4, ApartBackend
  <2>2. file' = file
    BY <1>4 DEF WriteDone, Deadline, Shutdown, ClientSends, MapRace, csv
  <2>3. pump = "csv" => delivered' = delivered
    BY <1>1, <1>4, ApartMessages DEF Common, backend
  <2> QED
    BY <1>1, <2>1, <2>2, <2>3 DEF Opening, Unopened, Opened, At
<1> QED
  BY <1>2, <1>3, <1>4 DEF Next

(* A call that moves was running.                                            *)
LEMMA MoverRuns ==
  ASSUME Types, NEW c \in Call, WriteDataStep(c)
  PROVE  /\ Running(c) \/ call' = call
         /\ \A d \in Call \ {c} : call'[d] = call[d]
         /\ over' = over /\ next' = next /\ main' = main
<1>1. UNCHANGED loop /\ (Moves(c) \/ UNCHANGED call)
  BY WriteDataMoves
<1>2. Moves(c) => Running(c)
  BY DEF Moves, Passes, Adds, Defers, Leaves, Breaks, GoesOn, Ends, Repeats, Finishes, Looking, Requested,
         At, Running
<1>3. Moves(c) => \A d \in Call \ {c} : call'[d] = call[d]
  BY MoveFields
<1> QED
  BY <1>1, <1>2, <1>3 DEF loop

LEMMA BehindStep ==
  ASSUME Types, Loop, Behind, Next
  PROVE  Behind'
<1>1. ASSUME NEW c \in Call, WriteDataStep(c)
      PROVE  Behind'
  BY <1>1, MoverRuns DEF Behind, Running
<1>2. ASSUME StartWrite
      PROVE  Behind'
  <2>1. next' \in Call /\ main' = "writing" /\ over' = over /\ main = "idle"
        /\ \A d \in Call \ {next'} : call'[d] = call[d]
    BY <1>2, Starting DEF Becomes, StartWrite
  <2> QED
    BY <2>1 DEF Behind, Running
<1>3. ASSUME WriteDone \/ Deadline \/ Shutdown \/ ClientSends \/ MapRace
      PROVE  Behind'
  <2>1. call' = call /\ next' = next
    BY <1>3, ApartBackend
  <2>2. CASE WriteDone
    BY <2>1, <2>2 DEF WriteDone, Behind, Running, Returned
  <2>3. CASE Deadline
    BY <2>1, <2>3 DEF Deadline, Behind, Running
  <2>4. CASE Shutdown
    BY <2>1, <2>4 DEF Shutdown, Behind, Running
  <2>5. CASE ClientSends \/ MapRace
    BY <2>1, <2>5 DEF ClientSends, MapRace, Behind, Running, loop
  <2> QED
    BY <1>3, <2>2, <2>3, <2>4, <2>5
<1> QED
  BY <1>1, <1>2, <1>3 DEF Next

LEMMA RunTogether ==
  ASSUME Types, Loop, Behind, NEW c \in Call, NEW d \in Call, c # d, Running(c), Running(d)
  PROVE  Overlap(c, d)
<1>1. c \in Nat /\ d \in Nat /\ next \in Nat
  <2>1. Call \subseteq Nat
    BY SinksAssumption DEF Call
  <2>2. next \in Call \cup {0}
    BY DEF Types, TypeOK
  <2> QED
    BY <2>1, <2>2
<1>2. \A e \in Call : Running(e) => ~(e > next)
  BY DEF Loop, Running, Idle
<1>3. c \in over \/ c = next
  BY DEF Behind
<1>4. d \in over \/ d = next
  BY DEF Behind
<1> QED
  BY <1>1, <1>2, <1>3, <1>4 DEF Overlap

LEMMA SharingStep ==
  ASSUME Types, Loop, Opening, Behind, Sharing, Next
  PROVE  Sharing'
<1>1. over \subseteq over'
  BY FaultsGrow
<1>2. \A c, d : Overlap(c, d) => Overlap(c, d)'
  BY <1>1 DEF Overlap
<1>3. SUFFICES ASSUME NEW c \in Call, NEW d \in Call, c # d, Running(c)', Opened(d)',
                      file'[c] \in {"missing", "created"}
               PROVE  Overlap(c, d) \/ Overlap(c, d)'
  BY <1>2 DEF Sharing
<1>4. ASSUME Running(c), file[c] \in {"missing", "created"}, Opened(d)
      PROVE  Overlap(c, d)
  BY <1>3, <1>4 DEF Sharing
<1>5. ASSUME NEW e \in Call, WriteDataStep(e)
      PROVE  Overlap(c, d)
  <2>1. Running(c)
    BY <1>3, <1>5, MoverRuns DEF Running
  <2>2. CASE LooksForFile(e)
    <3>1. /\ Running(e) /\ file'[e] \in {"missing", "append", "failed"}
          /\ \A f \in Call \ {e} : file'[f] = file[f]
          /\ file'[e] = "missing" => \A f \in Call : ~Opened(f)
      BY <1>5, <2>2, FileSteps DEF Running, At
    <3>2. CASE d = e
      BY <1>3, <2>1, <3>1, <3>2, RunTogether
    <3>3. CASE d # e
      <4>1. Opened(d) /\ c # e
        BY <1>3, <3>1, <3>3 DEF Opened
      <4> QED
        BY <1>3, <1>4, <2>1, <3>1, <4>1
    <3> QED
      BY <3>2, <3>3
  <2>3. CASE Creates(e)
    <3>1. file[e] = "missing" /\ Running(e) /\ \A f \in Call \ {e} : file'[f] = file[f]
      BY <1>5, <2>3, FileSteps DEF Opening, Running, At
    <3>2. CASE d = e
      BY <1>3, <2>1, <3>1, <3>2, RunTogether
    <3>3. CASE d # e
      BY <1>3, <1>4, <2>1, <3>1, <3>3 DEF Opened
    <3> QED
      BY <3>2, <3>3
  <2>4. CASE UNCHANGED file
    BY <1>3, <1>4, <2>1, <2>4 DEF Opened
  <2> QED
    BY <1>5, <2>2, <2>3, <2>4, Filing
<1>6. ASSUME StartWrite
      PROVE  Overlap(c, d)
  <2>1. PICK b \in Call : call[b] = Idle /\ Becomes(b, "loop", 0, <<>>, <<>>, 0)
    BY <1>6, Starting
  <2>2. file' = file /\ file[b] = "none" /\ \A f \in Call \ {b} : call'[f] = call[f]
    BY <1>6, <2>1 DEF StartWrite, csv, Becomes, Opening, At, Idle
  <2> QED
    BY <1>3, <1>4, <2>2 DEF Opened, Running
<1>7. ASSUME WriteDone \/ Deadline \/ Shutdown \/ ClientSends \/ MapRace
      PROVE  Overlap(c, d)
  <2>1. call' = call
    BY <1>7, ApartBackend
  <2>2. file' = file
    BY <1>7 DEF WriteDone, Deadline, Shutdown, ClientSends, MapRace, csv
  <2> QED
    BY <1>3, <1>4, <2>1, <2>2 DEF Opened, Running
<1> QED
  BY <1>5, <1>6, <1>7 DEF Next

LEMMA CoveringStep ==
  ASSUME Types, Loop, Opening, Sharing, Covering, Next
  PROVE  Covering'
<1>1. over \subseteq over' /\ \A c, d : Overlap(c, d) => Overlap(c, d)'
  BY FaultsGrow DEF Overlap
<1>2. \A c \in Call : \A n \in 1 .. Lengths[c] : <<c, n>> \in Message
  BY Messaging
<1>3. Call \subseteq Nat
  BY SinksAssumption DEF Call
(* Rows that a call writes over.                                             *)
<1>4. ASSUME NEW e \in Call, Running(e), file[e] \in {"missing", "created"}, file'[e] = "created",
             NEW c \in Call, NEW n \in 1 .. Lengths[c], <<c, n>> \in Rows, c # e
      PROVE  \E d \in Call \ {c} : file'[d] = "created" /\ Overlap(c, d)'
  <2>1. Opened(c)
    BY <1>4 DEF Opening, Rows
  <2>2. Overlap(e, c)
    BY <1>4, <2>1 DEF Sharing
  <2>3. Overlap(c, e)
    BY <1>3, <1>4, <2>2 DEF Overlap
  <2> QED
    BY <1>1, <1>4, <2>3
<1>5. ASSUME \A d \in Call : file[d] = "created" => file'[d] = "created",
             NEW c \in Call, NEW n \in 1 .. Lengths[c], <<c, n>> \in overwritten
      PROVE  \E d \in Call \ {c} : file'[d] = "created" /\ Overlap(c, d)'
  BY <1>1, <1>5 DEF Covering
<1>6. ASSUME NEW e \in Call, WriteDataStep(e)
      PROVE  Covering'
  <2>1. CASE LooksForFile(e)
    <3>1. overwritten' = overwritten /\ \A d \in Call : file[d] = "created" => file'[d] = "created"
      BY <1>6, <2>1, FileSteps
    <3> QED
      BY <1>5, <3>1 DEF Covering
  <2>2. CASE Creates(e)
    <3>1. /\ file[e] = "missing" /\ Running(e) /\ \A d \in Call : file[d] = "created" => file'[d] = "created"
          /\ \/ overwritten' = overwritten
             \/ file'[e] = "created" /\ overwritten' = overwritten \cup Rows
      BY <1>6, <2>2, FileSteps DEF Opening, Running, At
    <3>2. \A n \in 1 .. Lengths[e] : <<e, n>> \notin Rows
      BY <3>1 DEF Opening, Rows, Opened
    <3> QED
      BY <1>4, <1>5, <3>1, <3>2 DEF Covering
  <2>3. CASE UNCHANGED file /\ UNCHANGED overwritten
    BY <1>5, <2>3 DEF Covering
  <2>4. CASE UNCHANGED file /\ WritesOver(e) /\ Running(e)
    <3>1. PICK rows \in SUBSET {m \in Rows : file[e] = "created" /\ m[1] # e} :
            overwritten' = overwritten \cup rows
      BY <2>4 DEF WritesOver
    <3>2. ASSUME NEW c \in Call, NEW n \in 1 .. Lengths[c], <<c, n>> \in rows
          PROVE  <<c, n>> \in Rows /\ c # e /\ file[e] = "created"
      BY <3>1, <3>2
    <3> QED
      BY <1>4, <1>5, <2>4, <3>1, <3>2 DEF Covering
  <2> QED
    BY <1>6, <2>1, <2>2, <2>3, <2>4, Filing
<1>7. StartWrite \/ WriteDone \/ Deadline \/ Shutdown \/ ClientSends \/ MapRace => UNCHANGED csv
  BY DEF StartWrite, WriteDone, Deadline, Shutdown, ClientSends, MapRace
<1>8. UNCHANGED csv => Covering'
  BY <1>5 DEF Covering, csv
<1> QED
  BY <1>6, <1>7, <1>8 DEF Next

LEMMA FilesStep ==
  ASSUME Types, Loop, Files, Next
  PROVE  Files'
BY UnfiledStep, OpeningStep, BehindStep, SharingStep, CoveringStep DEF Files

-----------------------------------------------------------------------------
(* The invariant.                                                            *)

LEMMA InitInv ==
  ASSUME Init
  PROVE  IInv
<1>1. /\ pump \in DOMAIN Profile /\ timed \in BOOLEAN /\ slice = [c \in Call |-> <<>>]
      /\ call = [c \in Call |-> Idle] /\ waiting = {} /\ delivered = [m \in Message |-> 0]
      /\ offered = [c \in Call |-> <<>>] /\ over = {} /\ main = "idle" /\ next = 0
      /\ died = FALSE /\ faults = 0 /\ file = [c \in Call |-> "none"] /\ overwritten = {}
  BY DEF Init
<1>2. Len(Lengths) \in Nat /\ Call = 1 .. Len(Lengths) /\ MaxFaults \in Nat /\ MaxRetries \in Nat
      /\ \A c \in Call : Lengths[c] \in Nat
  BY SinksAssumption DEF Call
<1>3. Idle \in CallRecord /\ <<>> \in Seq(Item) /\ <<>> \in Seq(Seq(Nat)) /\ Len(<<>>) = 0
  BY DEF Idle, CallRecord, Place
<1>4. Types
  <2>1. /\ slice \in [Call -> Seq(Item)] /\ call \in [Call -> CallRecord]
        /\ offered \in [Call -> Seq(Seq(Nat))]
    BY <1>1, <1>3
  <2>2. ASSUME NEW c \in Call
        PROVE  /\ slice[c] \in Seq(Item) /\ Len(slice[c]) <= Lengths[c]
               /\ call[c].at \in {"none", "loop", "send", "flush", "newMap", "nil", "error"}
               /\ call[c].pos \in 0 .. Len(slice[c])
               /\ call[c].batch \in Seq(1 .. call[c].pos)
               /\ call[c].rest \in Seq(1 .. call[c].pos)
               /\ call[c].tries \in 0 .. MaxRetries
    <3>1. slice[c] = <<>> /\ call[c] = Idle
      BY <1>1
    <3> QED
      BY <1>2, <1>3, <3>1 DEF Idle
  <2>3. /\ waiting \subseteq Message /\ delivered \in [Message -> Nat] /\ over \subseteq 1 .. next
        /\ main \in {"idle", "writing", "stopped"} /\ next \in Call \cup {0}
        /\ died \in BOOLEAN /\ faults \in 0 .. MaxFaults
    <3>1. waiting \subseteq Message /\ over \subseteq 1 .. next
      BY <1>1
    <3>2. delivered \in [Message -> Nat]
      BY <1>1
    <3>3. main \in {"idle", "writing", "stopped"} /\ next \in Call \cup {0} /\ died \in BOOLEAN
      BY <1>1
    <3>4. faults \in 0 .. MaxFaults
      BY <1>1, <1>2
    <3> QED
      BY <3>1, <3>2, <3>3, <3>4
  <2>4. pump \in DOMAIN Profile /\ timed \in BOOLEAN /\ FilesTyped
    BY <1>1 DEF FilesTyped
  <2>5. TypeOK
    BY <2>2, <2>3, <2>4 DEF TypeOK, FilesTyped
  <2> QED
    BY <2>1, <2>5 DEF Types
<1>5. \A c \in Call : call[c] = Idle /\ slice[c] = <<>> /\ offered[c] = <<>> /\ Sent(c) = {}
  BY <1>1, NothingSent
<1>6. \A c \in Call : call[c].at = "none" /\ call[c].pos = 0
  BY <1>5 DEF Idle
<1>7. Loop
  BY <1>1, <1>2, <1>5, <1>6 DEF Loop, Running, At
<1>8. ASSUME NEW c \in Call
      PROVE  Local(c)
  <2>1. Order(c)
    BY <1>5, <1>6, NothingSent DEF Order
  <2>2. Shape(c)
    BY <1>5, <1>6, NothingSent DEF Shape, Filling, Sending, Ended, At
  <2>3. Covered(c)
    BY <1>6 DEF Covered
  <2> QED
    BY <2>1, <2>2, <2>3 DEF Local
<1>9. \A m \in Message : delivered[m] = 0
  BY <1>1
<1>10. Backend
  <2>1. Fresh
    <3>1. \A c \in Call : \A n \in 1 .. Lengths[c] : <<c, n>> \in Message
      BY <1>4, Messaging
    <3>2. \A c \in Call : call[c].tries = 0
      BY <1>5 DEF Idle
    <3> QED
      BY <1>1, <1>9, <3>1, <3>2 DEF Fresh
  <2>2. OncePerTry /\ OnceBuffered
    BY <1>1, <1>2, <1>9 DEF OncePerTry, OnceBuffered
  <2>3. OncePerCall
    <3>1. Exposed = {}
      BY <1>6 DEF Exposed
    <3> QED
      BY <1>1, <1>9, <3>1, FS_EmptySet DEF OncePerCall
  <2> QED
    BY <2>1, <2>2, <2>3 DEF Backend
<1>11. Arrivals /\ Exposes /\ Reasons /\ Stopped
  BY <1>1, <1>5, <1>6 DEF Arrivals, Exposes, Exposed, Reasons, Stopped, At
<1>12. Files
  <2>1. \A c \in Call : \A n \in 1 .. Lengths[c] : delivered[<<c, n>>] = 0
    BY <1>4, <1>9, Messaging
  <2>2. \A c \in Call : file[c] = "none" /\ call[c].batch = <<>>
    BY <1>1, <1>5 DEF Idle
  <2> QED
    BY <1>1, <1>6, <2>1, <2>2
    DEF Files, Unfiled, Opening, Behind, Sharing, Covering, Running, Opened, Unopened, At
<1> QED
  BY <1>4, <1>7, <1>8, <1>10, <1>11, <1>12 DEF IInv, Local

LEMMA Stuttering ==
  ASSUME IInv, UNCHANGED vars
  PROVE  IInv'
<1>1. /\ pump' = pump /\ timed' = timed /\ slice' = slice /\ call' = call /\ waiting' = waiting
      /\ delivered' = delivered /\ offered' = offered /\ over' = over /\ main' = main /\ next' = next
      /\ died' = died /\ faults' = faults /\ file' = file /\ overwritten' = overwritten
  BY DEF vars, config, csv, backend, loop
<1>2. P' = P /\ Exposed' = Exposed /\ UNCHANGED config
  BY <1>1 DEF P, Exposed, config
<1>3. \A c \in Call : /\ Sent(c)' = Sent(c) /\ (Spoiled(c)' <=> Spoiled(c))
                      /\ (StartsTooLarge(c)' <=> StartsTooLarge(c))
                      /\ \A n : /\ Reaction(c, n)' = Reaction(c, n)
                                /\ PassedOver(c, n)' <=> PassedOver(c, n)
  BY <1>1, <1>2, SameSlice DEF Sent
<1>4. Types' /\ Loop'
  BY <1>1, <1>2 DEF IInv, Types, TypeOK, Loop, Running, At
<1>5. \A c \in Call : Local(c)'
  BY <1>1, <1>2, LocalSame DEF IInv, Local
<1>6. Backend'
  BY <1>1, <1>2, <1>3 DEF IInv, Backend, Fresh, OncePerTry, OnceBuffered, OncePerCall, At
<1>7. Arrivals'
  BY <1>1, <1>2, <1>3 DEF IInv, Arrivals, Sure, At, Taken
<1>8. Exposes' /\ Stopped'
  <2>1. Exposes'
    BY <1>1, <1>2, <1>3 DEF IInv, Exposes, Exposed
  <2>2. Stopped'
    BY <1>1, <1>2 DEF IInv, Stopped
  <2> QED
    BY <2>1, <2>2
<1>9. Reasons'
  BY <1>1, <1>2, <1>3 DEF IInv, Reasons, At
<1>10. Files'
  BY <1>1 DEF IInv, Files, Unfiled, Opening, Behind, Sharing, Covering, Running, Opened, Unopened, Overlap, At
<1> QED
  BY <1>4, <1>5, <1>6, <1>7, <1>8, <1>9, <1>10 DEF IInv, Local

(* Every state of every pump of the profiles, with any number of calls and   *)
(* slices of any length: IInv holds.                                         *)
THEOREM Inductive == Spec => []IInv
<1>1. Init => IInv
  BY InitInv
<1>2. IInv /\ [Next]_vars => IInv'
  <2>1. ASSUME IInv, Next
        PROVE  IInv'
    <3>1. /\ Types /\ Loop /\ \A c \in Call : Local(c)
          /\ Fresh /\ OncePerTry /\ OnceBuffered /\ OncePerCall
          /\ Arrivals /\ Exposes /\ Reasons /\ Files /\ Unfiled
      BY <2>1 DEF IInv, Backend, Local, Files
    <3>2. Types' /\ Loop' /\ \A c \in Call : Local(c)'
      BY <2>1, <3>1, TypesStep, LoopStep, LocalStep
    <3>3. Backend'
      BY <2>1, <3>1, FreshStep, OncePerTryStep, OnceBufferedStep, OncePerCallStep DEF Backend
    <3>4. Arrivals' /\ Exposes' /\ Reasons' /\ Stopped'
      BY <2>1, <3>1, ArrivalsStep, ExposesStep, ReasonsStep, StoppedStep
    <3>5. Files'
      BY <2>1, <3>1, FilesStep
    <3> QED
      BY <3>2, <3>3, <3>4, <3>5 DEF IInv, Local
  <2> QED
    BY <2>1, Stuttering
<1> QED
  BY <1>1, <1>2, PTL DEF Spec

-----------------------------------------------------------------------------
(* What follows from it.                                                     *)

(* A call of WriteData that answers nil had each record in a request, but    *)
(* for what it left out when its context was over.                           *)
LEMMA Recorded ==
  ASSUME IInv, NEW c \in Call, At(c, "nil"), NEW n \in Real(c)
  PROVE  n \in Sent(c) \/ (c \in over /\ P.over \in {"nil", "skip"})
<1>1. Types /\ Shape(c) /\ Covered(c)
  BY DEF IInv
<1>2. n \in 1 .. Len(slice[c]) /\ Reaction(c, n) = "fine"
  BY <1>1, Typing, Reacting DEF Real
<1>3. \/ call[c].pos = Len(slice[c]) /\ call[c].batch = <<>> /\ call[c].rest = <<>>
      \/ c \in over /\ P.over = "nil"
  BY <1>1 DEF Shape, Ended
<1> QED
  BY <1>1, <1>2, <1>3, NothingSent DEF Covered, At

LEMMA SentInRequest ==
  ASSUME NEW c \in Call, NEW n \in Sent(c)
  PROVE  \E b \in ToSet(offered[c]) : n \in ToSet(b)
BY DEF Sent

LEMMA NotWrittenOver ==
  ASSUME IInv, over = {}, NEW c \in Call, NEW n \in Sent(c)
  PROVE  <<c, n>> \notin overwritten
<1>1. n \in 1 .. Lengths[c]
  BY SentIsOfSlice DEF IInv
<1> QED
  BY <1>1 DEF IInv, Files, Covering, Overlap

(* WriteData cuts its slice into requests that follow it without a value     *)
(* left behind or repeated, and that keep the limits of the pump; the        *)
(* backend has a message twice only if the Splunk pump tried again, or if    *)
(* calls of the Prometheus pump expose one map, and then not more often than *)
(* there are tries, or calls.                                                *)
THEOREM RequestsFollowTheSlice == Spec => []EachRecordOnce
<1>1. IInv => EachRecordOnce
  <2>1. SUFFICES ASSUME IInv
                 PROVE  EachRecordOnce
    OBVIOUS
  <2>2. Types /\ Backend /\ Common /\ \A c \in Call : Order(c) /\ Shape(c)
    <3>1. Types /\ Backend /\ \A c \in Call : Order(c) /\ Shape(c)
      BY <2>1 DEF IInv
    <3> QED
      BY <3>1, Profiled
  <2>3. ASSUME NEW m \in Message
        PROVE  delivered[m] <= IF pump \in {"splunk", "splunkBatch"} THEN 1 + MaxRetries
                               ELSE IF pump = "prometheus" /\ timed THEN Len(Lengths) ELSE 1
    <3>1. CASE P.client = "none"
      BY <2>2, <3>1 DEF Backend, OncePerTry, Common
    <3>2. CASE P.client = "buffer"
      <4>1. pump \notin {"splunk", "splunkBatch", "prometheus"}
        BY <2>2, <3>2 DEF Common
      <4>2. delivered[m] <= 1
        BY <2>2, <3>2, Gaining DEF Backend, OnceBuffered
      <4> QED
        BY <4>1, <4>2
    <3>3. CASE P.client = "map"
      <4>1. pump = "prometheus"
        BY <2>2, <3>3 DEF Common
      <4>2. /\ delivered[m] <= Cardinality(Exposed)
            /\ ~timed => delivered[m] <= 1
        BY <2>2, <3>3 DEF Backend, OncePerCall
      <4>3. Cardinality(Exposed) \in Nat /\ Cardinality(Exposed) <= Len(Lengths)
        <5>1. Len(Lengths) \in Nat /\ Call = 1 .. Len(Lengths)
          BY SinksAssumption DEF Call
        <5>2. IsFiniteSet(Call) /\ Cardinality(Call) = Len(Lengths)
          BY <5>1, UpTo
        <5>3. Exposed \in SUBSET Call
          BY DEF Exposed
        <5> QED
          BY <5>2, <5>3, FS_Subset, FS_CardinalityType
      <4>4. delivered[m] \in Nat /\ Len(Lengths) \in Nat
        BY <2>2, Gaining, SinksAssumption
      <4> QED
        BY <4>1, <4>2, <4>3, <4>4
    <3> QED
      BY <2>2, <3>1, <3>2, <3>3 DEF Common
  <2>4. \A c \in Call : InOrder(offered[c]) /\ \A b \in ToSet(offered[c]) : Fits(c, b)
    BY <2>2 DEF Order, Shape
  <2> QED
    BY <2>2, <2>3, <2>4 DEF EachRecordOnce, Types, Fits
<1> QED
  BY <1>1, Inductive, PTL

(* A nil result of WriteData means that each record was in a request, and    *)
(* that it arrived where the pump would have heard of a failure.             *)
THEOREM NilMeansHandedOver == Spec => []HonestResult
<1>1. IInv => HonestResult
  <2>1. SUFFICES ASSUME IInv, NEW c \in Call, At(c, "nil"), NEW n \in Real(c),
                        ~(c \in over /\ P.over \in {"nil", "skip"}), ~(pump = "prometheus" /\ timed)
                 PROVE  /\ \E b \in ToSet(offered[c]) : n \in ToSet(b)
                        /\ /\ Sure(c)
                           /\ P.error = "returned" \/ ~\E d \in Call \ {c} : file[d] = "created" /\ Overlap(c, d)
                           => Arrived(c, n)
    BY DEF HonestResult, Sure
  <2>2. n \in Sent(c)
    BY <2>1, Recorded
  <2>3. Sure(c) => Taken(c, n)
    BY <2>1, <2>2 DEF IInv, Arrivals, At
  <2>4. <<c, n>> \in overwritten => \E d \in Call \ {c} : file[d] = "created" /\ Overlap(c, d)
    BY <2>1, <2>2, SentIsOfSlice DEF IInv, Files, Covering
  <2>5. P.error = "returned" => \A d \in Call : file[d] # "created"
    BY <2>1, Profiled DEF IInv, Files, Opening, Common
  <2> QED
    BY <2>2, <2>3, <2>4, <2>5, SentInRequest DEF Arrived, InBackend, Taken
<1> QED
  BY <1>1, Inductive, PTL

(* Without a fault and without a timeout, WriteData fails, loses a record or *)
(* ends the process only for a value that the pump does not pass over, or    *)
(* for a first event larger than a Splunk batch.                             *)
THEOREM OnlyTheValueHarms == Spec => []HarmsNoOther
<1>1. IInv => HarmsNoOther
  <2>1. SUFFICES ASSUME IInv, ~timed, faults = 0
                 PROVE  HarmsNoOther
    BY DEF HarmsNoOther
  <2>2. over = {} /\ Common /\ Reasons
    BY <2>1, Profiled DEF IInv, Loop
  <2>3. ASSUME NEW c \in Call, Returned(c), ~StartsTooLarge(c), \A n \in DOMAIN slice[c] : PassedOver(c, n)
        PROVE  At(c, "nil") /\ \A n \in Real(c) : Arrived(c, n)
    <3>1. At(c, "nil")
      BY <2>1, <2>2, <2>3 DEF Reasons, Returned, At
    <3>2. Sure(c)
      BY <2>1, <2>2, <2>3 DEF Sure, PassedOver, Spoiled
    <3>3. \A n \in Real(c) : n \in Sent(c)
      BY <2>1, <2>2, <3>1, Recorded
    <3>4. \A n \in Real(c) : Taken(c, n)
      BY <2>1, <3>1, <3>2, <3>3 DEF IInv, Arrivals, At
    <3> QED
      BY <2>1, <2>2, <3>1, <3>3, <3>4, NotWrittenOver DEF Arrived, InBackend, Taken
  <2> QED
    BY <2>1, <2>2, <2>3 DEF HarmsNoOther, Reasons
<1> QED
  BY <1>1, Inductive, PTL

(* After Shutdown, what untimed calls of WriteData reported as written is in *)
(* the backend, and not in a client or a map any more.                       *)
THEOREM NothingLeftBehind == Spec => []ShutdownDelivers
<1>1. IInv => ShutdownDelivers
  <2>1. SUFFICES ASSUME IInv, main = "stopped", ~timed, faults = 0, P.client = "buffer" => P.flush # {},
                        NEW c \in Call, At(c, "nil"), ~Spoiled(c), NEW n \in Real(c)
                 PROVE  InBackend(c, n)
    BY DEF ShutdownDelivers
  <2>2. over = {} /\ Common
    BY <2>1, Profiled DEF IInv, Loop
  <2>3. n \in Sent(c)
    BY <2>1, <2>2, Recorded
  <2>4. Taken(c, n)
    <3>1. Sure(c)
      BY <2>1, <2>2 DEF Sure
    <3> QED
      BY <2>1, <2>3, <3>1 DEF IInv, Arrivals, At
  <2>5. <<c, n>> \notin overwritten
    BY <2>1, <2>2, <2>3, NotWrittenOver
  <2>6. CASE P.client = "map"
    BY <2>1, <2>3, <2>5, <2>6 DEF IInv, Exposes, Exposed, At, InBackend
  <2>7. CASE P.client = "buffer"
    BY <2>1, <2>4, <2>5, <2>7 DEF IInv, Stopped, Taken, InBackend
  <2>8. CASE P.client = "none"
    BY <2>1, <2>4, <2>5, <2>8 DEF IInv, Backend, OncePerTry, Taken, InBackend
  <2> QED
    BY <2>2, <2>6, <2>7, <2>8 DEF Common
<1> QED
  BY <1>1, Inductive, PTL
=============================================================================
