------------------------------ MODULE Delivery ------------------------------
(***************************************************************************)
(* What tyk-pump promises about the records of the gateway: they are kept  *)
(* in queues, leave a queue from its head, and every sink sees a record    *)
(* that was taken at most once, possibly never.  A record may be lost      *)
(* before it is handed to the sinks, but not after a sink has seen it.     *)
(* PurgeLoop implements this specification.                                *)
(***************************************************************************)
EXTENDS Naturals

CONSTANTS
  Record,  \* a set of numbers: a smaller record is an older one
  Queue,
  Sink

VARIABLES
  queue,   \* [Queue -> SUBSET Record]
  taken,   \* the records that left their queue for the sinks
  lost,    \* the records no sink will ever see
  copies   \* [Sink -> [Record -> Nat]]: how often a sink saw a record

vars == <<queue, taken, lost, copies>>

Init ==
  /\ queue = [k \in Queue |-> {}]
  /\ taken = {}
  /\ lost = {}
  /\ copies = [s \in Sink |-> [r \in Record |-> 0]]

New(r)     == r \notin taken \cup lost /\ \A k \in Queue : r \notin queue[k]
Unseen(r)  == \A s \in Sink : copies[s][r] = 0
IsHead(k, R) ==
  R \subseteq queue[k] /\ \A r \in R, q \in queue[k] : q < r => q \in R

Push(k, r) ==
  /\ New(r)
  /\ queue' = [queue EXCEPT ![k] = @ \cup {r}]
  /\ UNCHANGED <<taken, lost, copies>>

Take(k, R) ==
  /\ IsHead(k, R)
  /\ queue' = [queue EXCEPT ![k] = @ \ R]
  /\ taken' = taken \cup R
  /\ UNCHANGED <<lost, copies>>

(* The head of a queue is lost before anybody takes it.                     *)
Drop(k, R) ==
  /\ IsHead(k, R)
  /\ queue' = [queue EXCEPT ![k] = @ \ R]
  /\ lost' = lost \cup R
  /\ UNCHANGED <<taken, copies>>

(* Records that were taken are lost before any sink sees one of them.       *)
Lose(R) ==
  /\ R \subseteq taken
  /\ \A r \in R : Unseen(r)
  /\ taken' = taken \ R
  /\ lost' = lost \cup R
  /\ UNCHANGED <<queue, copies>>

See(s, R) ==
  /\ R \subseteq taken
  /\ \A r \in R : copies[s][r] = 0
  /\ copies' = [copies EXCEPT ![s] =
                  [r \in Record |-> IF r \in R THEN 1 ELSE @[r]]]
  /\ UNCHANGED <<queue, taken, lost>>

Next ==
  \/ \E k \in Queue, r \in Record : Push(k, r)
  \/ \E k \in Queue : \E R \in SUBSET queue[k] : Take(k, R) \/ Drop(k, R)
  \/ \E R \in SUBSET taken : Lose(R)
  \/ \E s \in Sink : \E R \in SUBSET taken : See(s, R)

Spec == Init /\ [][Next]_vars

=============================================================================
