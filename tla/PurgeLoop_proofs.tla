--------------------------- MODULE PurgeLoop_proofs ---------------------------
(* Theorems about PurgeLoop, for any pumps, faults, chunk size and number of *)
(* records.                                                                  *)
EXTENDS PurgeLoop, FiniteSetTheorems, TLAPS

-----------------------------------------------------------------------------
(* The lists that a visit reads exist.                                       *)

LEMMA SuffixType ==
  \A s \in 1 .. 2 : KeySuffix(s) \in {GetSuffix[n] : n \in {"msgpack", "protobuf"}}
<1>1. /\ AnalyticsSerializers[1] = "msgpack"
      /\ AnalyticsSerializers[2] = "protobuf"
  BY DEF AnalyticsSerializers
<1>2. GetSuffix["msgpack"] = <<>> /\ GetSuffix["protobuf"] = <<"_protobuf">>
  BY DEF GetSuffix
<1>3. <<>> \o <<"_protobuf">> = <<"_protobuf">>
  OBVIOUS
<1> QED
  BY <1>1, <1>2, <1>3 DEF KeySuffix

LEMMA CurrentKeyType ==
  ASSUME visit \in Visit
  PROVE  CurrentKey \in Key
<1>1. CASE visit = LastVisit
  BY <1>1 DEF CurrentKey, Key
<1>2. CASE visit # LastVisit
  <2>1. visit[1] \in FirstShard .. (NumShards - 1) /\ visit[2] \in 1 .. 2
    BY <1>2 DEF Visit
  <2> QED
    BY <1>2, <2>1, SuffixType DEF CurrentKey, Key, AnalyticsKey
<1> QED
  BY <1>1, <1>2

LEMMA AfterVisitType ==
  ASSUME visit \in Visit, visit # LastVisit
  PROVE  AfterVisit(visit) \in Visit
<1>1. Len(AnalyticsSerializers) = 2
  BY DEF AnalyticsSerializers
<1>2. PICK i \in FirstShard .. (NumShards - 1), s \in 1 .. 2 : visit = <<i, s>>
  BY DEF Visit
<1>3. CASE s = 1
  BY <1>1, <1>2, <1>3 DEF AfterVisit, Visit
<1>4. CASE s = 2
  BY <1>1, <1>2, <1>4, PurgeLoopAssumption DEF AfterVisit, Visit, FirstShard, LastVisit
<1> QED
  BY <1>2, <1>3, <1>4

LEMMA EndVisitType ==
  ASSUME TypeOK, EndVisit
  PROVE  pc' \in Location /\ visit' \in Visit /\ batch' = {}
BY AfterVisitType DEF TypeOK, EndVisit, Location


LEMMA PoppedType ==
  ASSUME TypeOK, NEW k \in Key
  PROVE  Popped(k) \subseteq store[k] /\ Popped(k) \in SUBSET Record
BY DEF TypeOK, Popped

LEMMA TakeHeadType ==
  ASSUME TypeOK, NEW k \in Key, TakeHead(k)
  PROVE  store' \in [Key -> SUBSET Record] /\ armed' \in SUBSET Key
<1>1. store' \in [Key -> SUBSET Record]
  BY DEF TypeOK, TakeHead
<1>2. armed' \in SUBSET Key
  BY DEF TypeOK, TakeHead
<1> QED
  BY <1>1, <1>2

LEMMA FaultType ==
  ASSUME TypeOK, NEW kind, Fault(kind)
  PROVE  faults' \in 0 .. MaxFaults
BY PurgeLoopAssumption DEF TypeOK, Fault

LEMMA BecomeType ==
  ASSUME TypeOK, NEW w, NEW v \in Writer, Become(w, v)
  PROVE  writers' \in SUBSET Writer
BY DEF TypeOK, Become

LEMMA NewWriterType ==
  ASSUME TypeOK, NEW p \in Pump
  PROVE  NewWriter(p) \in Writer
<1>1. {r \in batch : Decodes(r)} \in SUBSET Record
  BY DEF TypeOK
<1>2. ({r \in batch : Decodes(r)} # batch) \in BOOLEAN
  OBVIOUS
<1> QED
  BY <1>1, <1>2 DEF TypeOK, NewWriter, Writer

LEMMA DieType ==
  ASSUME TypeOK, Die, faults' \in 0 .. MaxFaults
  PROVE  TypeOK'
<1>1. failed' \in [Sink -> SUBSET Record]
  BY DEF TypeOK, Die, Writer
<1>2. visit' \in Visit
  BY PurgeLoopAssumption DEF Die, Visit, FirstVisit, LastVisit, FirstShard
<1>3. /\ pc' \in Location /\ batch' \in SUBSET Record
      /\ exec' \in [Pump -> ExecState] /\ writers' \in SUBSET Writer
      /\ dropped' \in SUBSET Record /\ signalled' \in BOOLEAN
      /\ closing' \in SUBSET Pump /\ closed' \in SUBSET Pump
  BY DEF TypeOK, Die, Location, ExecState
<1>4. UNCHANGED <<home, store, armed, copies, sent, restarts>>
  BY DEF Die, storage
<1> QED
  BY <1>1, <1>2, <1>3, <1>4 DEF TypeOK

LEMMA TypeInit ==
  ASSUME Init
  PROVE  TypeOK
<1>1. visit \in Visit
  BY PurgeLoopAssumption DEF Init, Visit, FirstVisit, LastVisit, FirstShard
<1>2. faults \in 0 .. MaxFaults /\ restarts \in 0 .. MaxRestarts
  BY PurgeLoopAssumption DEF Init
<1>3. /\ home \in [Record -> Key \cup {NoKey}]
        /\ store \in [Key -> SUBSET Record]
        /\ copies \in [Sink -> [Record -> Nat]]
        /\ failed \in [Sink -> SUBSET Record]
  BY DEF Init
<1> QED
  BY <1>1, <1>2, <1>3 DEF Init, TypeOK, Location, ExecState

LEMMA TypeStep ==
  ASSUME TypeOK, [Next]_vars
  PROVE  TypeOK'
<1> USE DEF storage, loop, history
<1>1. CASE UNCHANGED vars
  BY <1>1 DEF TypeOK, vars
<1>2. ASSUME NEW r \in Record, NEW k \in Key, GatewayPush(r, k)
      PROVE  TypeOK'
  BY <1>2 DEF TypeOK, GatewayPush
<1>3. ASSUME NEW k \in Key, ListExpires(k)
      PROVE  TypeOK'
  BY <1>3 DEF TypeOK, ListExpires
<1>4. CASE Tick
  BY <1>4, PurgeLoopAssumption
  DEF Tick, TypeOK, Location, Visit, FirstVisit, LastVisit, FirstShard
<1>5. CASE SkipUptime
  BY <1>5 DEF SkipUptime, TypeOK, Location
<1>6. CASE Pop
  <2>1. CurrentKey \in Key
    BY CurrentKeyType DEF TypeOK
  <2> QED
    BY <1>6, <2>1, PoppedType, TakeHeadType DEF Pop, TypeOK, Location
<1>7. CASE PopFails
  BY <1>7, EndVisitType, FaultType DEF PopFails, TypeOK
<1>8. CASE PopReplyLost
  <2>1. CurrentKey \in Key
    BY CurrentKeyType DEF TypeOK
  <2> QED
    BY <1>8, <2>1, PoppedType, TakeHeadType, EndVisitType, FaultType
    DEF PopReplyLost, TypeOK
<1>9. CASE Expire
  <2>1. CurrentKey \in Key
    BY CurrentKeyType DEF TypeOK
  <2> QED
    BY <1>9, <2>1 DEF Expire, TypeOK, Location
<1>10. CASE ExpireFails
  BY <1>10, EndVisitType, FaultType DEF ExpireFails, TypeOK
<1>11. CASE NothingPopped
  BY <1>11, EndVisitType DEF NothingPopped, TypeOK
<1>12. CASE writeToPumps
  <2>1. writers' \in SUBSET Writer
    BY <1>12, NewWriterType DEF writeToPumps, NewWriter, TypeOK
  <2> QED
    BY <1>12, <2>1 DEF writeToPumps, TypeOK, Location, ExecState
<1>13. CASE WaitReturns
  BY <1>13, EndVisitType DEF WaitReturns, TypeOK, ExecState
<1>14. ASSUME NEW A \in SUBSET batch, WriteUptimeData(A)
       PROVE  TypeOK'
  <2> DEFINE row == [r \in Record |-> IF r \in A THEN copies[UptimePump][r] + 1
                                                 ELSE copies[UptimePump][r]]
  <2>0. UptimePump \in Sink /\ row \in [Record -> Nat]
    BY DEF Sink, TypeOK
  <2>1. copies' \in [Sink -> [Record -> Nat]]
    BY <1>14, <2>0 DEF WriteUptimeData, TypeOK
  <2> QED
    BY <1>14, <2>1, EndVisitType DEF WriteUptimeData, TypeOK
<1>15. ASSUME NEW w \in writers, filterData(w)
       PROVE  TypeOK'
  <2>1. [w EXCEPT !.phase = "write",
                  !.todo = IF w.pump \in Configured THEN @ \ Blocked[w.pump] ELSE @]
          \in Writer
    BY DEF TypeOK, Writer
  <2> QED
    BY <1>15, <2>1, BecomeType DEF filterData, TypeOK
<1>16. ASSUME NEW w \in writers, NEW r \in w.todo, WriteRecord(w, r)
       PROVE  TypeOK'
  <2>1. [w EXCEPT !.todo = @ \ {r}] \in Writer /\ r \in Record /\ w.pump \in Sink
    BY DEF TypeOK, Writer, Sink
  <2>2. copies' \in [Sink -> [Record -> Nat]]
    BY <1>16, <2>1 DEF WriteRecord, TypeOK
  <2> QED
    BY <1>16, <2>1, <2>2, BecomeType DEF WriteRecord, TypeOK
<1>17. ASSUME NEW w \in writers, WriteReturns(w)
       PROVE  TypeOK'
  <2>1. [w EXCEPT !.todo = {}, !.phase = "send"] \in Writer
    BY DEF TypeOK, Writer
  <2>2. failed' \in [Sink -> SUBSET Record]
    BY <1>17 DEF WriteReturns, TypeOK, Writer
  <2> QED
    BY <1>17, <2>1, <2>2, BecomeType DEF WriteReturns, TypeOK
<1>18. ASSUME NEW w \in writers, SendResult(w)
       PROVE  TypeOK'
  BY <1>18 DEF SendResult, TypeOK, ExecState
<1>19. ASSUME NEW p \in Pump, ReceiveResult(p)
       PROVE  TypeOK'
  BY <1>19 DEF ReceiveResult, TypeOK, ExecState
<1>20. ASSUME NEW p \in Pump, DeadlineExceeded(p)
       PROVE  TypeOK'
  BY <1>20 DEF DeadlineExceeded, TypeOK, ExecState
<1>21. CASE Signal
  BY <1>21 DEF Signal, TypeOK
<1>22. CASE checkShutdown
  BY <1>22 DEF checkShutdown, TypeOK, Location
<1>23. ASSUME NEW p \in Pump, ShutdownPump(p) \/ ShutdownReturns(p)
       PROVE  TypeOK'
  BY <1>23 DEF ShutdownPump, ShutdownReturns, TypeOK
<1>24. CASE ShutdownDone
  BY <1>24 DEF ShutdownDone, TypeOK, Location
<1>25. CASE Exit
  BY <1>25, DieType DEF Exit, TypeOK
<1>26. CASE Kill
  BY <1>26, DieType, FaultType DEF Kill
<1>27. ASSUME NEW w \in writers, Panic(w)
       PROVE  TypeOK'
  BY <1>27, DieType DEF Panic, TypeOK
<1>28. CASE Restart
  BY <1>28, PurgeLoopAssumption DEF Restart, TypeOK, Location
<1> QED
  BY <1>1, <1>2, <1>3, <1>4, <1>5, <1>6, <1>7, <1>8, <1>9, <1>10, <1>11, <1>12,
     <1>13, <1>14, <1>15, <1>16, <1>17, <1>18, <1>19, <1>20, <1>21, <1>22, <1>23,
     <1>24, <1>25, <1>26, <1>27, <1>28
  DEF Next, LoopStep, UptimeStep, WriterStep, ExecStep, Environment

(* Type correctness of the purge loop (StartPurgeLoop and what it calls).   *)
THEOREM TypeCorrect == Spec => []TypeOK
<1> QED
  BY TypeInit, TypeStep, PTL DEF Spec


-----------------------------------------------------------------------------
(* Where the records are: the lists, the hands of the loop, the pumps.       *)

(* A list holds only what the gateway pushed to it.                          *)
ListHome == \A k \in Key : \A r \in store[k] : home[r] = k

(* Between visits the loop holds nothing; during writeToPumps it holds what  *)
(* it has handed to the pumps.                                               *)
BatchInv ==
  /\ pc \notin {"expire", "decode", "dispatch"} => batch = {}
  /\ pc = "dispatch" => batch \subseteq sent

ListInv == ListHome /\ Accounted /\ BatchInv

(* A goroutine writes records that its pump has not written yet, and no two  *)
(* goroutines of a pump were given the same record.                          *)
WriterOK(w) ==
  /\ w.keys \subseteq sent
  /\ w.todo \subseteq w.keys
  /\ \A r \in w.todo : copies[w.pump][r] = 0

DistinctKeys ==
  \A v, w \in writers : v.pump = w.pump /\ v # w => v.keys \cap w.keys = {}

CopiesInv ==
  \A s \in Sink, r \in Record :
    copies[s][r] <= 1 /\ (copies[s][r] > 0 => r \in sent)

WriterInv == (\A w \in writers : WriterOK(w)) /\ DistinctKeys /\ CopiesInv

(* execPumpWriting waits for the goroutine of a pump without timeout, and no *)
(* pump is shut down before the loop has ended.                              *)
UntimedInv ==
  /\ \A w \in writers : w.keys # {} /\ (w.pump \notin Timed => Awaited(w))
  /\ closed # {} => pc \in {"shutdown", "stopped"}

IInv == TypeOK /\ ListInv /\ WriterInv /\ UntimedInv


LEMMA HomeOfList ==
  ASSUME ListHome, NEW k \in Key, NEW r \in store[k]
  PROVE  InList(r) /\ home[r] = k
BY NoKeyAssumption DEF ListHome, InList

(* A part R of the list k moves to the loop's hands or is lost.              *)
LEMMA HeadLeaves ==
  ASSUME TypeOK, ListInv, NEW k \in Key, NEW R \in SUBSET store[k],
         store' = [store EXCEPT ![k] = @ \ R], UNCHANGED home
  PROVE  /\ ListHome'
         /\ \A r \in Record : InList(r)' <=> InList(r) /\ r \notin R
         /\ \A r \in R : r \in Record /\ InList(r)
<1>1. ListHome'
  BY DEF ListHome, ListInv, TypeOK
<1>2. \A r \in R : r \in Record /\ InList(r) /\ home[r] = k
  BY HomeOfList DEF ListInv, TypeOK
<1>3. \A r \in Record : InList(r)' <=> InList(r) /\ r \notin R
  BY <1>2 DEF InList, TypeOK
<1> QED
  BY <1>1, <1>2, <1>3

LEMMA EndVisitBatch ==
  ASSUME EndVisit
  PROVE  /\ batch' = {} /\ Held' = {}
         /\ pc' \notin {"expire", "decode", "dispatch"}
BY DEF EndVisit, Held

LEMMA DieLists ==
  ASSUME TypeOK, ListInv, Die
  PROVE  ListInv'
<1> USE DEF storage
<1>1. ListHome'
  BY DEF Die, ListHome, ListInv
<1>2. Held' = {} /\ BatchInv'
  BY DEF Die, Held, BatchInv
<1>3. sent' = sent /\ dropped' = dropped \cup Held
  BY DEF Die, Held, BatchInv, ListInv
<1>4. \A r \in Record : InList(r)' <=> InList(r)
  BY DEF Die, InList
<1>5. home' = home
  BY DEF Die
<1>6. Accounted'
  BY <1>2, <1>3, <1>4, <1>5 DEF Accounted, ListInv
<1> QED
  BY <1>1, <1>2, <1>6 DEF ListInv

LEMMA ListStep ==
  ASSUME TypeOK, ListInv, [Next]_vars
  PROVE  ListInv'
<1> USE DEF storage, loop, history
<1>1. ASSUME UNCHANGED <<home, store, pc, batch, sent, dropped>>
      PROVE  ListInv'
  BY <1>1 DEF ListInv, ListHome, Accounted, InList, Held, BatchInv
<1>2. ASSUME NEW r \in Record, NEW k \in Key, GatewayPush(r, k)
      PROVE  ListInv'
  <2>1. Held' = Held /\ BatchInv'
    BY <1>2 DEF GatewayPush, Held, BatchInv, ListInv
  <2>2. ListHome'
    BY <1>2, HomeOfList, NoKeyAssumption DEF GatewayPush, ListHome, ListInv, TypeOK
  <2>3. InList(r)' /\ home'[r] # NoKey
    BY <1>2, NoKeyAssumption DEF GatewayPush, InList, TypeOK
  <2>4. \A q \in Record \ {r} : (InList(q)' <=> InList(q)) /\ home'[q] = home[q]
    BY <1>2 DEF GatewayPush, InList, TypeOK
  <2>5. r \notin Held \cup sent \cup dropped
    BY <1>2 DEF GatewayPush, Accounted, ListInv
  <2>6. sent' = sent /\ dropped' = dropped
    BY <1>2 DEF GatewayPush
  <2>7. Accounted'
    BY <2>1, <2>3, <2>4, <2>5, <2>6 DEF Accounted, ListInv
  <2> QED
    BY <2>1, <2>2, <2>7 DEF ListInv
<1>3. ASSUME NEW k \in Key, ListExpires(k)
      PROVE  ListInv'
  <2>1. store' = [store EXCEPT ![k] = @ \ store[k]]
    BY <1>3 DEF ListExpires
  <2>2. /\ ListHome'
        /\ \A r \in Record : InList(r)' <=> InList(r) /\ r \notin store[k]
        /\ \A r \in store[k] : r \in Record /\ InList(r)
    BY <1>3, <2>1, HeadLeaves DEF ListExpires
  <2>3. Held' = Held /\ BatchInv'
    BY <1>3 DEF ListExpires, Held, BatchInv, ListInv
  <2>4. sent' = sent /\ dropped' = dropped \cup store[k] /\ home' = home
    BY <1>3 DEF ListExpires
  <2>5. Accounted'
    BY <2>2, <2>3, <2>4 DEF Accounted, ListInv
  <2> QED
    BY <2>2, <2>3, <2>5 DEF ListInv
<1>4. ASSUME Visiting, TakeHead(CurrentKey), UNCHANGED <<home, sent>>,
             \/ /\ batch' = Popped(CurrentKey) /\ UNCHANGED dropped
                /\ pc' \in {"expire", "decode"}
             \/ EndVisit /\ dropped' = dropped \cup Popped(CurrentKey)
      PROVE  ListInv'
  <2>0. CurrentKey \in Key /\ Popped(CurrentKey) \in SUBSET store[CurrentKey]
    BY CurrentKeyType DEF TypeOK, Popped
  <2>1. store' = [store EXCEPT ![CurrentKey] = @ \ Popped(CurrentKey)]
    BY <1>4 DEF TakeHead
  <2> DEFINE R == Popped(CurrentKey)
  <2>2. /\ ListHome'
        /\ \A r \in Record : InList(r)' <=> InList(r) /\ r \notin R
        /\ \A r \in R : r \in Record /\ InList(r)
    BY <1>4, <2>0, <2>1, HeadLeaves
  <2>3. Held = {}
    BY <1>4 DEF Visiting, Held
  <2> HIDE DEF R
  <2>4. CASE batch' = R /\ UNCHANGED dropped /\ pc' \in {"expire", "decode"}
    <3>1. Held' = R /\ BatchInv'
      BY <2>4 DEF Held, BatchInv
    <3>2. Accounted'
      BY <1>4, <2>2, <2>3, <2>4, <3>1 DEF Accounted, ListInv
    <3> QED
      BY <2>2, <3>1, <3>2 DEF ListInv
  <2>5. CASE EndVisit /\ dropped' = dropped \cup R
    <3>1. Held' = {} /\ BatchInv'
      BY <2>5, EndVisitBatch DEF BatchInv
    <3>2. Accounted'
      BY <1>4, <2>2, <2>3, <2>5, <3>1 DEF Accounted, ListInv
    <3> QED
      BY <2>2, <3>1, <3>2 DEF ListInv
  <2> QED
    BY <1>4, <2>4, <2>5 DEF R
<1>5. ASSUME EndVisit, UNCHANGED <<home, store>>,
             \/ Held = {} /\ UNCHANGED <<sent, dropped>>
             \/ sent' = sent \cup Held /\ UNCHANGED dropped
             \/ dropped' = dropped \cup Held /\ UNCHANGED sent
      PROVE  ListInv'
  <2>1. Held' = {} /\ BatchInv'
    BY <1>5, EndVisitBatch DEF BatchInv
  <2>2. \A r \in Record : InList(r)' <=> InList(r)
    BY <1>5 DEF InList
  <2>3. Accounted'
    BY <1>5, <2>1, <2>2 DEF Accounted, ListInv
  <2> QED
    BY <1>5, <2>1, <2>3 DEF ListInv, ListHome
<1>6. CASE writeToPumps
  <2>1. Held = batch /\ Held' = {} /\ BatchInv'
    BY <1>6 DEF writeToPumps, Held, BatchInv
  <2>2. \A r \in Record : InList(r)' <=> InList(r)
    BY <1>6 DEF writeToPumps, InList
  <2>3. Accounted'
    BY <1>6, <2>1, <2>2 DEF writeToPumps, Accounted, ListInv
  <2> QED
    BY <1>6, <2>1, <2>3 DEF writeToPumps, ListInv, ListHome
<1>7. ASSUME UNCHANGED <<home, store, batch, sent, dropped>>,
             pc \notin {"expire", "decode", "dispatch"},
             pc' \notin {"expire", "decode", "dispatch"}
      PROVE  ListInv'
  BY <1>7 DEF ListInv, ListHome, Accounted, InList, Held, BatchInv
<1>8. CASE Pop
  BY <1>4, <1>8 DEF Pop
<1>9. CASE PopReplyLost
  BY <1>4, <1>9 DEF PopReplyLost
<1>10. CASE PopFails
  BY <1>5, <1>10 DEF PopFails, Visiting, Held
<1>11. CASE Expire
  BY <1>11 DEF Expire, ListInv, ListHome, Accounted, InList, Held, BatchInv
<1>12. CASE ExpireFails
  BY <1>5, <1>12 DEF ExpireFails, Held
<1>13. CASE NothingPopped
  BY <1>5, <1>13 DEF NothingPopped, Held
<1>14. CASE WaitReturns
  BY <1>5, <1>14 DEF WaitReturns, Held
<1>15. ASSUME NEW A \in SUBSET batch, WriteUptimeData(A)
       PROVE  ListInv'
  BY <1>5, <1>15 DEF WriteUptimeData, Held
<1>16. CASE Tick \/ SkipUptime \/ checkShutdown \/ ShutdownDone \/ Restart
  BY <1>7, <1>16 DEF Tick, SkipUptime, checkShutdown, ShutdownDone, Restart
<1>17. CASE Exit \/ Kill \/ \E w \in writers : Panic(w)
  BY <1>17, DieLists DEF Exit, Kill, Panic
<1>18. ASSUME \/ Signal
              \/ \E p \in Pump : ReceiveResult(p) \/ DeadlineExceeded(p)
                                 \/ ShutdownPump(p) \/ ShutdownReturns(p)
              \/ \E w \in writers : \/ filterData(w) \/ WriteReturns(w) \/ SendResult(w)
                                   \/ \E r \in w.todo : WriteRecord(w, r)
       PROVE  ListInv'
  BY <1>1, <1>18 DEF Signal, ReceiveResult, DeadlineExceeded, ShutdownPump, ShutdownReturns,
                     filterData, WriteReturns, SendResult, WriteRecord
<1>19. CASE UNCHANGED vars
  BY <1>1, <1>19 DEF vars
<1> QED
  BY <1>2, <1>3, <1>6, <1>8, <1>9, <1>10, <1>11, <1>12, <1>13, <1>14, <1>15, <1>16,
     <1>17, <1>18, <1>19
  DEF Next, LoopStep, UptimeStep, WriterStep, ExecStep, Environment

-----------------------------------------------------------------------------
(* No backend gets a record twice.                                           *)

LEMMA FewerWriters ==
  ASSUME WriterInv, writers' \subseteq writers, copies' = copies, sent \subseteq sent'
  PROVE  WriterInv'
BY DEF WriterInv, WriterOK, DistinctKeys, CopiesInv

LEMMA WriterMoves ==
  ASSUME WriterInv, NEW w \in writers, NEW v, Become(w, v),
         v.pump = w.pump, v.keys = w.keys, v.todo \subseteq w.todo,
         UNCHANGED <<copies, sent>>
  PROVE  WriterInv'
<1>1. \A x \in writers' : WriterOK(x)'
  BY DEF WriterInv, WriterOK, Become
<1>2. DistinctKeys'
  BY DEF WriterInv, DistinctKeys, Become
<1>3. CopiesInv'
  BY DEF WriterInv, CopiesInv
<1> QED
  BY <1>1, <1>2, <1>3 DEF WriterInv

(* filterData and WriteData only take records out of a goroutine's hands.    *)
LEMMA MoveForm ==
  ASSUME TypeOK, NEW w \in writers, NEW phase, NEW todo
  PROVE  LET v == [w EXCEPT !.phase = phase, !.todo = todo]
         IN  v.pump = w.pump /\ v.keys = w.keys /\ v.todo = todo
BY DEF TypeOK, Writer

LEMMA WriteRecordStep ==
  ASSUME TypeOK, WriterInv, NEW w \in writers, NEW r \in w.todo, WriteRecord(w, r)
  PROVE  WriterInv'
<1> DEFINE v == [w EXCEPT !.todo = @ \ {r}]
<1>1. v.pump = w.pump /\ v.keys = w.keys /\ v.todo = w.todo \ {r}
  BY DEF TypeOK, Writer
<1>2. w.pump \in Sink /\ r \in Record /\ r \in w.keys /\ r \in sent
  BY DEF TypeOK, Writer, Sink, WriterInv, WriterOK
<1>3. copies[w.pump][r] = 0
  BY DEF WriterInv, WriterOK
<1>4. copies' = [copies EXCEPT ![w.pump][r] = 1]
  BY <1>3 DEF WriteRecord, TypeOK
<1>5. sent' = sent /\ writers' = (writers \ {w}) \cup {v}
  BY DEF WriteRecord, Become, history
<1> HIDE DEF v
<1>6. copies'[w.pump][r] = 1
  BY <1>2, <1>4 DEF TypeOK
<1>7. \A s \in Sink, q \in Record : s # w.pump \/ q # r => copies'[s][q] = copies[s][q]
  BY <1>2, <1>4 DEF TypeOK
<1>8. CopiesInv'
  BY <1>2, <1>5, <1>6, <1>7 DEF CopiesInv, WriterInv
<1>9. DistinctKeys'
  BY <1>1, <1>5 DEF DistinctKeys, WriterInv
<1>10. \A x \in writers' : WriterOK(x)'
  <2>1. WriterOK(v)'
    BY <1>1, <1>2, <1>5, <1>7 DEF WriterInv, WriterOK, TypeOK, Writer
  <2>2. ASSUME NEW x \in writers, x # w
        PROVE  WriterOK(x)'
    <3>1. x.pump = w.pump => r \notin x.todo
      BY <1>2, <2>2 DEF WriterInv, WriterOK, DistinctKeys
    <3>2. x.pump \in Sink /\ x.todo \subseteq Record
      BY DEF TypeOK, Writer, Sink
    <3> QED
      BY <1>5, <1>7, <3>1, <3>2 DEF WriterInv, WriterOK
  <2> QED
    BY <1>5, <2>1, <2>2
<1> QED
  BY <1>8, <1>9, <1>10 DEF WriterInv

LEMMA WriteToPumpsStep ==
  ASSUME TypeOK, ListInv, WriterInv, writeToPumps
  PROVE  WriterInv'
<1>1. batch \cap sent = {}
  BY DEF writeToPumps, ListInv, Accounted, Held, TypeOK
<1>2. /\ writers' = writers \cup {NewWriter(p) : p \in Pump}
      /\ sent' = sent \cup batch /\ copies' = copies
  BY DEF writeToPumps
<1>3. \A p \in Pump : /\ NewWriter(p).pump = p /\ NewWriter(p).keys = batch
                      /\ NewWriter(p).todo \subseteq batch
  BY DEF NewWriter
<1>4. \A s \in Sink, r \in batch : copies[s][r] = 0
  BY <1>1 DEF WriterInv, CopiesInv, TypeOK
<1>5. \A w \in writers : WriterOK(w)'
  BY <1>2 DEF WriterInv, WriterOK
<1>6. ASSUME NEW w \in writers', w \notin writers
      PROVE  WriterOK(w)'
  <2>1. PICK p \in Pump : w = NewWriter(p)
    BY <1>2, <1>6
  <2>2. w.pump \in Sink /\ w.keys = batch /\ w.todo \subseteq batch
    BY <1>3, <2>1 DEF Sink
  <2> QED
    BY <1>2, <1>4, <2>2 DEF WriterOK
<1>7. DistinctKeys'
  <2> SUFFICES ASSUME NEW v \in writers', NEW w \in writers', v.pump = w.pump, v # w
               PROVE  v.keys \cap w.keys = {}
    BY DEF DistinctKeys
  <2>1. \A x \in writers : x.keys \cap batch = {}
    BY <1>1 DEF WriterInv, WriterOK
  <2> QED
    BY <1>2, <1>3, <2>1 DEF WriterInv, DistinctKeys
<1>8. CopiesInv'
  BY <1>2 DEF WriterInv, CopiesInv
<1> QED
  BY <1>2, <1>5, <1>6, <1>7, <1>8 DEF WriterInv

LEMMA WriteUptimeStep ==
  ASSUME TypeOK, ListInv, WriterInv, NEW A \in SUBSET batch, WriteUptimeData(A)
  PROVE  WriterInv'
<1>1. batch \subseteq Record /\ batch \cap sent = {}
  BY DEF WriteUptimeData, ListInv, Accounted, Held, TypeOK
<1>2. writers' = writers /\ sent' = sent \cup batch
  BY DEF WriteUptimeData
<1>3. \A r \in A : copies[UptimePump][r] = 0
  BY <1>1 DEF WriterInv, CopiesInv, TypeOK, Sink
<1>4. \A s \in Sink, r \in Record :
        copies'[s][r] = IF s = UptimePump /\ r \in A THEN 1 ELSE copies[s][r]
  <2> DEFINE row == [r \in Record |-> IF r \in A THEN copies[UptimePump][r] + 1
                                                 ELSE copies[UptimePump][r]]
  <2>1. copies' = [copies EXCEPT ![UptimePump] = row]
    BY DEF WriteUptimeData
  <2>2. \A r \in Record : row[r] = IF r \in A THEN 1 ELSE copies[UptimePump][r]
    BY <1>3
  <2> HIDE DEF row
  <2> QED
    BY <2>1, <2>2 DEF TypeOK
<1>5. CopiesInv'
  BY <1>1, <1>2, <1>4 DEF WriterInv, CopiesInv
<1>6. \A w \in writers : w.pump \in Sink /\ w.pump # UptimePump /\ w.todo \subseteq Record
  BY PurgeLoopAssumption DEF TypeOK, Writer, Sink
<1>7. \A w \in writers : WriterOK(w)'
  BY <1>2, <1>4, <1>6 DEF WriterInv, WriterOK
<1> QED
  BY <1>2, <1>5, <1>7 DEF WriterInv, DistinctKeys

LEMMA WriterInvStep ==
  ASSUME TypeOK, ListInv, WriterInv, [Next]_vars
  PROVE  WriterInv'
<1> USE DEF storage, loop, history
<1>1. CASE writeToPumps
  BY <1>1, WriteToPumpsStep
<1>2. ASSUME NEW A \in SUBSET batch, WriteUptimeData(A)
      PROVE  WriterInv'
  BY <1>2, WriteUptimeStep
<1>3. ASSUME NEW w \in writers, filterData(w)
      PROVE  WriterInv'
  <2> DEFINE todo == IF w.pump \in Configured THEN w.todo \ Blocked[w.pump] ELSE w.todo
             v    == [w EXCEPT !.phase = "write", !.todo = todo]
  <2>1. v.pump = w.pump /\ v.keys = w.keys /\ v.todo \subseteq w.todo
    BY DEF TypeOK, Writer
  <2>2. Become(w, v) /\ UNCHANGED <<copies, sent>>
    BY <1>3 DEF filterData
  <2> HIDE DEF v
  <2> QED
    BY <2>1, <2>2, WriterMoves
<1>4. ASSUME NEW w \in writers, NEW r \in w.todo, WriteRecord(w, r)
      PROVE  WriterInv'
  BY <1>4, WriteRecordStep
<1>5. ASSUME NEW w \in writers, WriteReturns(w)
      PROVE  WriterInv'
  <2> DEFINE v == [w EXCEPT !.todo = {}, !.phase = "send"]
  <2>1. v.pump = w.pump /\ v.keys = w.keys /\ v.todo \subseteq w.todo
    BY DEF TypeOK, Writer
  <2>2. Become(w, v) /\ UNCHANGED <<copies, sent>>
    BY <1>5 DEF WriteReturns
  <2> HIDE DEF v
  <2> QED
    BY <2>1, <2>2, WriterMoves
<1>6. ASSUME NEW w \in writers, SendResult(w) \/ Panic(w)
      PROVE  WriterInv'
  BY <1>6, FewerWriters DEF SendResult, Panic, Die
<1>7. CASE Exit \/ Kill
  BY <1>7, FewerWriters DEF Exit, Kill, Die
<1>8. CASE \/ Tick \/ SkipUptime \/ Pop \/ PopFails \/ PopReplyLost \/ Expire \/ ExpireFails
           \/ NothingPopped \/ WaitReturns \/ checkShutdown \/ ShutdownDone
           \/ Signal \/ Restart \/ UNCHANGED vars
  BY <1>8, FewerWriters
  DEF Tick, SkipUptime, Pop, PopFails, PopReplyLost, Expire, ExpireFails, NothingPopped,
      WaitReturns, checkShutdown, ShutdownDone, Signal, Restart, vars
<1>9. CASE \/ \E p \in Pump : ShutdownPump(p) \/ ShutdownReturns(p)
                              \/ ReceiveResult(p) \/ DeadlineExceeded(p)
           \/ \E r \in Record, k \in Key : GatewayPush(r, k)
           \/ \E k \in Key : ListExpires(k)
  BY <1>9, FewerWriters
  DEF ShutdownPump, ShutdownReturns, ReceiveResult, DeadlineExceeded, GatewayPush, ListExpires
<1> QED
  BY <1>1, <1>2, <1>3, <1>4, <1>5, <1>6, <1>7, <1>8, <1>9
  DEF Next, LoopStep, UptimeStep, WriterStep, ExecStep, Environment

-----------------------------------------------------------------------------
(* A pump without timeout has at most one goroutine.                         *)

LEMMA SameWriters ==
  ASSUME UntimedInv, UNCHANGED <<pc, batch, exec, writers, closed>>
  PROVE  UntimedInv'
BY DEF UntimedInv, Awaited

(* Outside writeToPumps only goroutines of timed-out pumps run.              *)
LEMMA OutsideDispatch ==
  ASSUME UntimedInv, pc # "dispatch", UNCHANGED <<writers, closed>>,
         closed # {} => pc' \in {"shutdown", "stopped"}
  PROVE  UntimedInv'
<1>1. \A w \in writers : w.keys # {} /\ w.pump \in Timed
  BY DEF UntimedInv, Awaited
<1> QED
  BY <1>1 DEF UntimedInv

LEMMA UntimedMoves ==
  ASSUME UntimedInv, NEW w \in writers, NEW v, Become(w, v),
         v.pump = w.pump, v.keys = w.keys,
         UNCHANGED <<pc, batch, exec, closed>>
  PROVE  UntimedInv'
BY DEF UntimedInv, Become, Awaited

LEMMA OnlyWriter ==
  ASSUME WriterInv, UntimedInv, NEW v \in writers, NEW w \in writers,
         v.pump = w.pump, v.pump \notin Timed
  PROVE  v = w
BY DEF WriterInv, DistinctKeys, UntimedInv, Awaited

LEMMA UntimedStep ==
  ASSUME TypeOK, WriterInv, UntimedInv, [Next]_vars
  PROVE  UntimedInv'
<1> USE DEF storage, loop, history
<1>1. CASE writeToPumps
  <2>1. \A w \in writers : w.keys # {} /\ w.pump \in Timed
    BY <1>1 DEF writeToPumps, UntimedInv, Awaited
  <2>2. /\ writers' = writers \cup {NewWriter(p) : p \in Pump}
        /\ pc' = "dispatch" /\ batch' = batch /\ batch # {} /\ closed = {} /\ closed' = {}
        /\ \A p \in Pump : exec'[p] = "waiting"
    BY <1>1 DEF writeToPumps, UntimedInv
  <2>3. \A p \in Pump : NewWriter(p).pump = p /\ NewWriter(p).keys = batch
    BY DEF NewWriter
  <2>4. ASSUME NEW w \in writers'
        PROVE  w.keys # {} /\ (w.pump \notin Timed => Awaited(w)')
    BY <2>1, <2>2, <2>3 DEF Awaited
  <2> QED
    BY <2>2, <2>4 DEF UntimedInv
<1>2. ASSUME NEW w \in writers, filterData(w)
      PROVE  UntimedInv'
  <2> DEFINE todo == IF w.pump \in Configured THEN w.todo \ Blocked[w.pump] ELSE w.todo
             v    == [w EXCEPT !.phase = "write", !.todo = todo]
  <2>1. v.pump = w.pump /\ v.keys = w.keys
    BY DEF TypeOK, Writer
  <2>2. Become(w, v) /\ UNCHANGED <<pc, batch, exec, closed>>
    BY <1>2 DEF filterData
  <2> HIDE DEF v
  <2> QED
    BY <2>1, <2>2, UntimedMoves
<1>3. ASSUME NEW w \in writers, NEW r \in w.todo, WriteRecord(w, r)
      PROVE  UntimedInv'
  <2> DEFINE v == [w EXCEPT !.todo = @ \ {r}]
  <2>1. v.pump = w.pump /\ v.keys = w.keys
    BY DEF TypeOK, Writer
  <2>2. Become(w, v) /\ UNCHANGED <<pc, batch, exec, closed>>
    BY <1>3 DEF WriteRecord
  <2> HIDE DEF v
  <2> QED
    BY <2>1, <2>2, UntimedMoves
<1>4. ASSUME NEW w \in writers, WriteReturns(w)
      PROVE  UntimedInv'
  <2> DEFINE v == [w EXCEPT !.todo = {}, !.phase = "send"]
  <2>1. v.pump = w.pump /\ v.keys = w.keys
    BY DEF TypeOK, Writer
  <2>2. Become(w, v) /\ UNCHANGED <<pc, batch, exec, closed>>
    BY <1>4 DEF WriteReturns
  <2> HIDE DEF v
  <2> QED
    BY <2>1, <2>2, UntimedMoves
<1>5. ASSUME NEW w \in writers, SendResult(w)
      PROVE  UntimedInv'
  <2>1. /\ writers' = writers \ {w} /\ UNCHANGED <<pc, batch, closed>>
        /\ \A p \in Pump \ {w.pump} : exec'[p] = exec[p]
    BY <1>5 DEF SendResult, TypeOK
  <2>2. \A x \in writers' : x.pump \notin Timed => x.pump \in Pump \ {w.pump}
    BY <2>1, OnlyWriter DEF TypeOK, Writer
  <2>3. \A x \in writers' : x.keys # {} /\ (x.pump \notin Timed => Awaited(x)')
    BY <2>1, <2>2 DEF UntimedInv, Awaited
  <2> QED
    BY <2>1, <2>3 DEF UntimedInv
<1>6. ASSUME NEW p \in Pump, ReceiveResult(p) \/ DeadlineExceeded(p)
      PROVE  UntimedInv'
  <2>1. /\ UNCHANGED <<pc, batch, writers, closed>>
        /\ \A q \in Pump \ {p} : exec'[q] = exec[q]
        /\ p \in Timed \/ exec[p] = "answered"
    BY <1>6 DEF ReceiveResult, DeadlineExceeded, TypeOK
  <2>2. \A w \in writers : w.pump \notin Timed => w.pump \in Pump \ {p}
    BY <2>1 DEF UntimedInv, Awaited, TypeOK, Writer
  <2> QED
    BY <2>1, <2>2 DEF UntimedInv, Awaited
<1>7. CASE WaitReturns
  <2>1. \A w \in writers : w.keys # {} /\ w.pump \in Timed
    BY <1>7 DEF WaitReturns, AllDone, UntimedInv, Awaited, TypeOK, Writer
  <2>2. UNCHANGED <<writers, closed>> /\ closed = {}
    BY <1>7 DEF WaitReturns, UntimedInv
  <2> QED
    BY <2>1, <2>2 DEF UntimedInv
<1>8. CASE Exit \/ Kill \/ \E w \in writers : Panic(w)
  BY <1>8 DEF Exit, Kill, Panic, Die, UntimedInv
<1>9. ASSUME NEW p \in Pump, ShutdownPump(p) \/ ShutdownReturns(p)
      PROVE  UntimedInv'
  BY <1>9 DEF ShutdownPump, ShutdownReturns, UntimedInv, Awaited
<1>10. ASSUME NEW A \in SUBSET batch, WriteUptimeData(A)
       PROVE  UntimedInv'
  BY <1>10, OutsideDispatch DEF WriteUptimeData, UntimedInv
<1>11. CASE \/ Tick \/ SkipUptime \/ Pop \/ PopFails \/ PopReplyLost \/ Expire \/ ExpireFails
            \/ NothingPopped \/ checkShutdown \/ ShutdownDone \/ Restart
  BY <1>11, OutsideDispatch
  DEF Tick, SkipUptime, Pop, PopFails, PopReplyLost, Expire, ExpireFails, Visiting,
      NothingPopped, checkShutdown, ShutdownDone, Restart, UntimedInv
<1>12. CASE \/ Signal \/ UNCHANGED vars
            \/ \E r \in Record, k \in Key : GatewayPush(r, k)
            \/ \E k \in Key : ListExpires(k)
  BY <1>12, SameWriters DEF Signal, GatewayPush, ListExpires, vars
<1> QED
  BY <1>1, <1>2, <1>3, <1>4, <1>5, <1>6, <1>7, <1>8, <1>9, <1>10, <1>11, <1>12
  DEF Next, LoopStep, UptimeStep, WriterStep, ExecStep, Environment

(* The inductive invariant of the purge loop.                                *)
THEOREM Inductive == Spec => []IInv
<1>1. Init => IInv
  <2> SUFFICES ASSUME Init
               PROVE  IInv
    OBVIOUS
  <2>1. TypeOK
    BY TypeInit
  <2>2. ListInv /\ WriterInv /\ UntimedInv
    BY DEF Init, ListInv, ListHome, Accounted, InList, Held, BatchInv,
           WriterInv, DistinctKeys, CopiesInv, UntimedInv
  <2> QED
    BY <2>1, <2>2 DEF IInv
<1>2. IInv /\ [Next]_vars => IInv'
  BY TypeStep, ListStep, WriterInvStep, UntimedStep DEF IInv
<1> QED
  BY <1>1, <1>2, PTL DEF Spec

(* Every record the gateway pushed is in its list, in the loop's hands,      *)
(* handed to the pumps or lost before any pump saw it, and in only one of    *)
(* these places (GetAndDeleteSet, StartPurgeLoop, writeToPumps).             *)
THEOREM RecordsAccounted == Spec => []Accounted
<1>1. IInv => Accounted
  BY DEF IInv, ListInv
<1> QED
  BY <1>1, Inductive, PTL

(* No backend gets a record twice, although the goroutine of a pump that     *)
(* timed out goes on beside those of later chunks, Expire may fail after a   *)
(* Pop, and the process may die and restart at any point (execPumpWriting).  *)
THEOREM DeliveredAtMostOnce == Spec => []AtMostOnce
<1>1. IInv => AtMostOnce
  BY DEF IInv, WriterInv, CopiesInv, AtMostOnce
<1> QED
  BY <1>1, Inductive, PTL

(* Two WriteData of a pump without timeout never overlap (execPumpWriting).  *)
THEOREM UntimedNeverOverlap == Spec => []UntimedSequential
<1>1. IInv => UntimedSequential
  BY OnlyWriter DEF IInv, UntimedSequential
<1> QED
  BY <1>1, Inductive, PTL

(* checkShutdown shuts no pump without timeout down while it still writes.   *)
THEOREM QuietShutdown == Spec => []ShutdownQuiet
<1>1. IInv => ShutdownQuiet
  BY DEF IInv, UntimedInv, Awaited, ShutdownQuiet
<1> QED
  BY <1>1, Inductive, PTL


-----------------------------------------------------------------------------
(* The purge loop implements Delivery.                                       *)

(* A chunk is the head of its list.                                          *)
LEMMA PoppedIsHead ==
  ASSUME TypeOK, NEW k \in Key
  PROVE  Promise!IsHead(k, Popped(k))
<1> DEFINE UpTo(r) == {x \in store[k] : x <= r}
<1>1. IsFiniteSet(store[k]) /\ store[k] \subseteq Nat
  <2>1. IsFiniteSet(1 .. MaxRecords)
    BY FS_Interval, PurgeLoopAssumption
  <2>2. store[k] \in SUBSET (1 .. MaxRecords)
    BY DEF TypeOK, Record
  <2>3. IsFiniteSet(store[k])
    BY <2>1, <2>2, FS_Subset
  <2> QED
    BY <2>2, <2>3
<1>2. ASSUME NEW r \in Popped(k), NEW q \in store[k], q < r
      PROVE  q \in Popped(k)
  <2>1. IsFiniteSet(UpTo(r)) /\ UpTo(q) \in SUBSET UpTo(r)
    <3>1. UpTo(r) \in SUBSET store[k]
      OBVIOUS
    <3>2. r \in Nat
      BY <1>1 DEF Popped
    <3> QED
      BY <1>1, <1>2, <3>1, <3>2, FS_Subset
  <2>2. Cardinality(UpTo(q)) <= Cardinality(UpTo(r))
    BY <2>1, FS_Subset
  <2>3. Cardinality(UpTo(q)) \in Nat /\ Cardinality(UpTo(r)) \in Nat
    BY <2>1, FS_Subset, FS_CardinalityType
  <2>4. PurgeChunk # 0 => Cardinality(UpTo(r)) <= PurgeChunk
    BY DEF Popped
  <2> HIDE DEF UpTo
  <2>5. PurgeChunk # 0 => Cardinality(UpTo(q)) <= PurgeChunk
    BY <2>2, <2>3, <2>4, PurgeLoopAssumption
  <2> QED
    BY <1>2, <2>5 DEF Popped, UpTo
<1>3. Popped(k) \subseteq store[k]
  BY DEF Popped
<1> QED
  BY <1>2, <1>3 DEF Promise!IsHead

(* What the loop holds has not been seen by any backend.                     *)
LEMMA HeldUnseen ==
  ASSUME IInv
  PROVE  /\ Held \subseteq Record /\ Held \cap sent = {}
         /\ \A r \in Held : Promise!Unseen(r)
<1>1. Held \subseteq Record /\ Held \cap sent = {}
  BY DEF IInv, TypeOK, ListInv, Accounted, Held
<1>2. \A s \in Sink, r \in Held : copies[s][r] = 0
  BY <1>1 DEF IInv, WriterInv, CopiesInv, TypeOK
<1> QED
  BY <1>1, <1>2 DEF Promise!Unseen

LEMMA HeldIsLost ==
  ASSUME IInv, Held' = {}, dropped' = dropped \cup Held, UNCHANGED <<store, sent, copies>>
  PROVE  Promise!Next
<1>1. Promise!Lose(Held)
  BY HeldUnseen DEF Promise!Lose
<1>2. Held \in SUBSET (Held \cup sent)
  OBVIOUS
<1> QED
  BY <1>1, <1>2 DEF Promise!Next

LEMMA DeliveryStep ==
  ASSUME IInv, [Next]_vars
  PROVE  [Promise!Next]_(Promise!vars)
<1> USE DEF storage, loop, history
<1>0. TypeOK /\ ListInv /\ WriterInv
  BY DEF IInv
<1>1. ASSUME UNCHANGED <<store, dropped, copies>>, (Held \cup sent)' = Held \cup sent
      PROVE  UNCHANGED Promise!vars
  BY <1>1 DEF Promise!vars
<1>2. ASSUME NEW r \in Record, NEW k \in Key, GatewayPush(r, k)
      PROVE  Promise!Next
  <2>1. Promise!New(r)
    BY <1>0, <1>2, HomeOfList, NoKeyAssumption
    DEF GatewayPush, Promise!New, Accounted, ListInv, ListHome
  <2>2. Promise!Push(k, r)
    BY <1>2, <2>1 DEF GatewayPush, Promise!Push, Held
  <2> QED
    BY <2>2 DEF Promise!Next
<1>3. ASSUME NEW k \in Key, ListExpires(k)
      PROVE  Promise!Next
  <2>1. Promise!Drop(k, store[k])
    BY <1>0, <1>3 DEF ListExpires, Promise!Drop, Promise!IsHead, Held, TypeOK
  <2> QED
    BY <2>1 DEF Promise!Next
<1>4. CASE Pop
  <2>1. CurrentKey \in Key /\ Popped(CurrentKey) \in SUBSET store[CurrentKey]
    BY <1>0, CurrentKeyType DEF TypeOK, Popped
  <2>2. Held = {} /\ Held' = Popped(CurrentKey)
    BY <1>4 DEF Pop, Visiting, Held
  <2>3. Promise!Take(CurrentKey, Popped(CurrentKey))
    BY <1>0, <1>4, <2>1, <2>2, PoppedIsHead DEF Pop, TakeHead, Promise!Take
  <2> QED
    BY <2>1, <2>3 DEF Promise!Next
<1>5. CASE PopReplyLost
  <2>1. CurrentKey \in Key /\ Popped(CurrentKey) \in SUBSET store[CurrentKey]
    BY <1>0, CurrentKeyType DEF TypeOK, Popped
  <2>2. Held = {} /\ Held' = {}
    BY <1>5, EndVisitBatch DEF PopReplyLost, Visiting, Held
  <2>3. Promise!Drop(CurrentKey, Popped(CurrentKey))
    BY <1>0, <1>5, <2>1, <2>2, PoppedIsHead DEF PopReplyLost, TakeHead, Promise!Drop
  <2> QED
    BY <2>1, <2>3 DEF Promise!Next
<1>6. CASE ExpireFails
  <2>1. Held' = {} /\ Held = batch
    BY <1>6, EndVisitBatch DEF ExpireFails, Held
  <2> QED
    BY <1>6, <2>1, HeldIsLost DEF ExpireFails
<1>7. CASE Exit \/ Kill \/ \E w \in writers : Panic(w)
  <2>1. Die
    BY <1>7 DEF Exit, Kill, Panic
  <2>2. Held' = {} /\ dropped' = dropped \cup Held
    BY <1>0, <2>1 DEF Die, Held, ListInv, BatchInv
  <2> QED
    BY <2>1, <2>2, HeldIsLost DEF Die
<1>8. ASSUME NEW A \in SUBSET batch, WriteUptimeData(A)
      PROVE  Promise!Next
  <2>1. Held = batch /\ Held' = {} /\ sent' = sent \cup batch
    BY <1>8, EndVisitBatch DEF WriteUptimeData, Held
  <2>2. \A r \in A : copies[UptimePump][r] = 0
    BY <2>1, HeldUnseen DEF Promise!Unseen, Sink
  <2>3. copies' = [copies EXCEPT ![UptimePump] =
                     [r \in Record |-> IF r \in A THEN 1 ELSE @[r]]]
    <3>1. [r \in Record |-> IF r \in A THEN copies[UptimePump][r] + 1
                                      ELSE copies[UptimePump][r]]
          = [r \in Record |-> IF r \in A THEN 1 ELSE copies[UptimePump][r]]
      BY <2>2
    <3> QED
      BY <1>8, <3>1 DEF WriteUptimeData
  <2>4. Promise!See(UptimePump, A)
    BY <1>8, <2>1, <2>2, <2>3 DEF WriteUptimeData, Promise!See
  <2>5. UptimePump \in Sink /\ A \in SUBSET (Held \cup sent)
    BY <2>1 DEF Sink
  <2> QED
    BY <2>4, <2>5 DEF Promise!Next
<1>9. ASSUME NEW w \in writers, NEW r \in w.todo, WriteRecord(w, r)
      PROVE  Promise!Next
  <2>1. w.pump \in Sink /\ r \in Record /\ r \in sent /\ copies[w.pump][r] = 0
    BY <1>0 DEF TypeOK, Writer, Sink, WriterInv, WriterOK
  <2>2. copies' = [copies EXCEPT ![w.pump] =
                     [q \in Record |-> IF q \in {r} THEN 1 ELSE @[q]]]
    <3>1. [copies[w.pump] EXCEPT ![r] = 1]
          = [q \in Record |-> IF q \in {r} THEN 1 ELSE copies[w.pump][q]]
      BY <1>0, <2>1 DEF TypeOK
    <3>2. copies' = [copies EXCEPT ![w.pump] = [@ EXCEPT ![r] = 1]]
      BY <1>9, <2>1 DEF WriteRecord
    <3> QED
      BY <3>1, <3>2
  <2>3. Held' = Held /\ UNCHANGED <<store, sent, dropped>>
    BY <1>9 DEF WriteRecord, Held
  <2>4. Promise!See(w.pump, {r})
    BY <2>1, <2>2, <2>3 DEF Promise!See
  <2>5. {r} \in SUBSET (Held \cup sent)
    BY <2>1
  <2> QED
    BY <2>1, <2>4, <2>5 DEF Promise!Next
<1>10. CASE writeToPumps
  BY <1>1, <1>10 DEF writeToPumps, Held
<1>11. CASE Expire
  BY <1>1, <1>11 DEF Expire, Held
<1>12. CASE PopFails \/ NothingPopped \/ WaitReturns
  <2>1. Held = {} /\ Held' = {}
    BY <1>12, EndVisitBatch DEF PopFails, NothingPopped, WaitReturns, Visiting, Held
  <2> QED
    BY <1>1, <1>12, <2>1 DEF PopFails, NothingPopped, WaitReturns
<1>13. CASE Tick \/ SkipUptime \/ checkShutdown \/ ShutdownDone \/ Restart
  BY <1>1, <1>13 DEF Tick, SkipUptime, checkShutdown, ShutdownDone, Restart, Held
<1>14. ASSUME \/ Signal \/ UNCHANGED vars
              \/ \E p \in Pump : ReceiveResult(p) \/ DeadlineExceeded(p)
                                 \/ ShutdownPump(p) \/ ShutdownReturns(p)
              \/ \E w \in writers : filterData(w) \/ WriteReturns(w) \/ SendResult(w)
       PROVE  UNCHANGED Promise!vars
  BY <1>1, <1>14 DEF Signal, ReceiveResult, DeadlineExceeded, ShutdownPump, ShutdownReturns,
                     filterData, WriteReturns, SendResult, Held, vars
<1> QED
  BY <1>2, <1>3, <1>4, <1>5, <1>6, <1>7, <1>8, <1>9, <1>10, <1>11, <1>12, <1>13, <1>14
  DEF Next, LoopStep, UptimeStep, WriterStep, ExecStep, Environment

(* The loop, its storage and its goroutines together keep the promise of     *)
(* Delivery: what leaves a list is its head, and a backend sees a record     *)
(* that left its list at most once.                                          *)
THEOREM ImplementsDelivery == Spec => Delivers
<1>1. Init => Promise!Init
  BY DEF Init, Promise!Init, Held
<1>2. IInv /\ [Next]_vars => [Promise!Next]_(Promise!vars)
  BY DeliveryStep
<1> QED
  BY <1>1, <1>2, Inductive, PTL DEF Spec, Delivers, Promise!Spec

-----------------------------------------------------------------------------
(* Two more theorems on top of the inductive invariant: no pump is passed    *)
(* over, and a pump without timeout gets the chunks of a list in the order   *)
(* the gateway pushed them.  First, the lists as they are popped.            *)

(* The records the loop holds come from the list it visits.                  *)
BatchHome == \A r \in Held : home[r] = CurrentKey

(* The gateway pushes the records in the order of their numbers.             *)
PushedInOrder ==
  \A q, r \in Record : q < r /\ home[r] # NoKey => home[q] # NoKey

(* What is left of a list is the newest of what was pushed to it.            *)
ListIsTail ==
  \A q, r \in Record :
    home[q] = home[r] /\ q < r /\ InList(q) => InList(r)

(* What was popped later from a list is newer.                               *)
ChunksInOrder ==
  \A r \in batch, q \in sent \ batch : home[q] = home[r] => q < r

(* A goroutine ends without a record left to write.                          *)
EndsEmpty(w) == w.phase = "send" => w.todo = {}

TailInv  == BatchHome /\ PushedInOrder /\ ListIsTail
OrderInv == ChunksInOrder /\ \A w \in writers : EndsEmpty(w)

(* The whole inductive invariant.                                            *)
FullInv == IInv /\ TailInv /\ OrderInv /\ FanOut

LEMMA SameLists ==
  ASSUME TailInv, UNCHANGED <<home, store>>, Held' = {} \/ UNCHANGED <<Held, visit>>
  PROVE  TailInv'
<1>1. \A r \in Record : InList(r)' <=> InList(r)
  BY DEF InList
<1>2. BatchHome'
  BY DEF TailInv, BatchHome, CurrentKey
<1> QED
  BY <1>1, <1>2 DEF TailInv, PushedInOrder, ListIsTail

(* The head of a list leaves it, as Delivery defines a head.                 *)
LEMMA TailStays ==
  ASSUME TypeOK, ListInv, TailInv, NEW k \in Key, NEW R \in SUBSET store[k],
         Promise!IsHead(k, R), store' = [store EXCEPT ![k] = @ \ R], UNCHANGED home
  PROVE  PushedInOrder' /\ ListIsTail'
<1>1. \A r \in Record : InList(r)' <=> InList(r) /\ r \notin R
  BY HeadLeaves
<1>2. ASSUME NEW q \in Record, NEW r \in Record,
             home[q] = home[r], q < r, InList(q), q \notin R
      PROVE  InList(r) /\ r \notin R
  <2>1. InList(r)
    BY <1>2 DEF TailInv, ListIsTail
  <2>2. ASSUME r \in R
        PROVE  FALSE
    <3>1. home[r] = k
      BY <2>2, HomeOfList DEF ListInv
    <3>2. q \in store[k]
      BY <1>2, <3>1 DEF InList
    <3> QED
      BY <1>2, <2>2, <3>2 DEF Promise!IsHead
  <2> QED
    BY <2>1, <2>2
<1>3. ListIsTail'
  BY <1>1, <1>2 DEF ListIsTail
<1> QED
  BY <1>3 DEF TailInv, PushedInOrder

LEMMA PushTail ==
  ASSUME TypeOK, ListInv, TailInv, NEW r \in Record, NEW k \in Key, GatewayPush(r, k)
  PROVE  TailInv'
<1>1. /\ home' = [home EXCEPT ![r] = k] /\ home[r] = NoKey /\ k # NoKey
      /\ \A q \in Record : q < r => home[q] # NoKey
      /\ UNCHANGED <<pc, visit, batch>>
  BY NoKeyAssumption DEF GatewayPush, loop
<1>2. InList(r)' /\ \A q \in Record \ {r} : (InList(q)' <=> InList(q)) /\ home'[q] = home[q]
  BY <1>1 DEF GatewayPush, InList, TypeOK
<1>3. \A q \in Record : home[q] # NoKey => q < r
  BY <1>1 DEF TailInv, PushedInOrder, Record
<1>4. BatchHome'
  <2>1. \A q \in Held : q \in Record /\ q # r
    BY <1>1 DEF Held, TypeOK, ListInv, Accounted
  <2> QED
    BY <1>1, <1>2, <2>1 DEF TailInv, BatchHome, Held, CurrentKey
<1>5. PushedInOrder'
  BY <1>1, <1>2, <1>3 DEF TailInv, PushedInOrder, TypeOK, Record
<1>6. ListIsTail'
  <2> SUFFICES ASSUME NEW q \in Record, NEW x \in Record,
                      home'[q] = home'[x], q < x, InList(q)'
               PROVE  InList(x)'
    BY DEF ListIsTail
  <2>1. CASE x = r
    BY <1>2, <2>1
  <2>2. CASE x # r /\ q = r
    BY <1>1, <1>2, <1>3, <2>2 DEF TypeOK, Record
  <2>3. CASE x # r /\ q # r
    BY <1>2, <2>3 DEF TailInv, ListIsTail
  <2> QED
    BY <2>1, <2>2, <2>3
<1> QED
  BY <1>4, <1>5, <1>6 DEF TailInv

LEMMA TailStep ==
  ASSUME TypeOK, ListInv, TailInv, [Next]_vars
  PROVE  TailInv'
<1> USE DEF storage, loop, history
<1>1. ASSUME NEW r \in Record, NEW k \in Key, GatewayPush(r, k)
      PROVE  TailInv'
  BY <1>1, PushTail
<1>2. ASSUME NEW k \in Key, ListExpires(k)
      PROVE  TailInv'
  <2>1. store' = [store EXCEPT ![k] = @ \ store[k]] /\ Promise!IsHead(k, store[k])
    BY <1>2 DEF ListExpires, Promise!IsHead
  <2>2. PushedInOrder' /\ ListIsTail'
    BY <1>2, <2>1, TailStays DEF ListExpires
  <2>3. BatchHome'
    BY <1>2 DEF ListExpires, TailInv, BatchHome, Held, CurrentKey
  <2> QED
    BY <2>2, <2>3 DEF TailInv
<1>3. CASE Pop \/ PopReplyLost
  <2>1. CurrentKey \in Key /\ Popped(CurrentKey) \in SUBSET store[CurrentKey]
    BY CurrentKeyType DEF TypeOK, Popped
  <2>2. PushedInOrder' /\ ListIsTail'
    BY <1>3, <2>1, PoppedIsHead, TailStays DEF Pop, PopReplyLost, TakeHead
  <2>3. CASE Pop
    <3>1. CurrentKey' = CurrentKey /\ home' = home /\ Held' \subseteq Popped(CurrentKey)
      BY <2>3 DEF Pop, CurrentKey, Held
    <3>2. BatchHome'
      BY <2>1, <3>1, HomeOfList DEF BatchHome, ListInv
    <3> QED
      BY <2>2, <3>2 DEF TailInv
  <2>4. CASE PopReplyLost
    BY <2>2, <2>4, EndVisitBatch DEF PopReplyLost, TailInv, BatchHome
  <2> QED
    BY <1>3, <2>3, <2>4
<1>4. CASE \/ PopFails \/ ExpireFails \/ NothingPopped \/ WaitReturns
           \/ \E A \in SUBSET batch : WriteUptimeData(A)
  BY <1>4, SameLists, EndVisitBatch
  DEF PopFails, ExpireFails, NothingPopped, WaitReturns, WriteUptimeData
<1>5. CASE Exit \/ Kill \/ \E w \in writers : Panic(w)
  BY <1>5, SameLists DEF Exit, Kill, Panic, Die, Held
<1>6. CASE Tick \/ SkipUptime \/ writeToPumps \/ checkShutdown \/ ShutdownDone \/ Restart
  BY <1>6, SameLists
  DEF Tick, SkipUptime, writeToPumps, checkShutdown, ShutdownDone, Restart, Held
<1>7. CASE Expire
  BY <1>7, SameLists DEF Expire, Held
<1>8. ASSUME \/ Signal \/ UNCHANGED vars
             \/ \E p \in Pump : ReceiveResult(p) \/ DeadlineExceeded(p)
                                \/ ShutdownPump(p) \/ ShutdownReturns(p)
             \/ \E w \in writers : \/ filterData(w) \/ WriteReturns(w) \/ SendResult(w)
                                  \/ \E r \in w.todo : WriteRecord(w, r)
      PROVE  TailInv'
  <2>1. UNCHANGED <<home, store, pc, visit, batch>>
    BY <1>8 DEF Signal, ReceiveResult, DeadlineExceeded, ShutdownPump, ShutdownReturns,
                filterData, WriteReturns, SendResult, WriteRecord, vars
  <2> QED
    BY <2>1, SameLists DEF Held
<1> QED
  BY <1>1, <1>2, <1>3, <1>4, <1>5, <1>6, <1>7, <1>8
  DEF Next, LoopStep, UptimeStep, WriterStep, ExecStep, Environment

-----------------------------------------------------------------------------
(* The order of the writes.                                                  *)

LEMMA ChunksStep ==
  ASSUME TypeOK, ListInv, TailInv, ChunksInOrder, [Next]_vars
  PROVE  ChunksInOrder'
<1> USE DEF storage, loop, history
<1>1. ASSUME batch' = {} \/ (batch' = batch /\ sent' \subseteq sent \cup batch), home' = home
      PROVE  ChunksInOrder'
  BY <1>1 DEF ChunksInOrder
<1>2. ASSUME NEW r \in Record, NEW k \in Key, GatewayPush(r, k)
      PROVE  ChunksInOrder'
  <2>1. r \notin sent \cup batch
    BY <1>2 DEF GatewayPush, ListInv, Accounted, BatchInv, Held
  <2>2. batch' = batch /\ sent' = sent /\ \A q \in Record \ {r} : home'[q] = home[q]
    BY <1>2 DEF GatewayPush, TypeOK
  <2> QED
    BY <2>1, <2>2 DEF ChunksInOrder, TypeOK
<1>3. CASE Pop
  <2>1. CurrentKey \in Key /\ Popped(CurrentKey) \in SUBSET store[CurrentKey]
    BY CurrentKeyType DEF TypeOK, Popped
  <2>2. batch' = Popped(CurrentKey) /\ sent' = sent /\ home' = home
    BY <1>3 DEF Pop
  <2>3. ASSUME NEW r \in Popped(CurrentKey), NEW q \in sent, home[q] = home[r]
        PROVE  q < r
    <3>1. r \in Record /\ q \in Record /\ InList(r) /\ q # r /\ ~InList(q)
      BY <2>1, <2>3, HomeOfList DEF TypeOK, ListInv, Accounted
    <3>2. ~(r < q)
      BY <2>3, <3>1 DEF TailInv, ListIsTail
    <3> QED
      BY <3>1, <3>2 DEF Record
  <2> QED
    BY <2>2, <2>3 DEF ChunksInOrder
<1>4. CASE \/ PopFails \/ PopReplyLost \/ ExpireFails \/ NothingPopped \/ WaitReturns
           \/ \E A \in SUBSET batch : WriteUptimeData(A)
  BY <1>1, <1>4, EndVisitBatch
  DEF PopFails, PopReplyLost, ExpireFails, NothingPopped, WaitReturns, WriteUptimeData
<1>5. CASE Exit \/ Kill \/ \E w \in writers : Panic(w)
  BY <1>1, <1>5 DEF Exit, Kill, Panic, Die
<1>6. CASE \/ Tick \/ SkipUptime \/ writeToPumps \/ checkShutdown \/ ShutdownDone
           \/ Restart \/ Expire
  BY <1>1, <1>6
  DEF Tick, SkipUptime, writeToPumps, checkShutdown, ShutdownDone, Restart, Expire
<1>7. CASE \/ Signal \/ UNCHANGED vars \/ \E k \in Key : ListExpires(k)
           \/ \E p \in Pump : ReceiveResult(p) \/ DeadlineExceeded(p)
                              \/ ShutdownPump(p) \/ ShutdownReturns(p)
           \/ \E w \in writers : \/ filterData(w) \/ WriteReturns(w) \/ SendResult(w)
                                \/ \E r \in w.todo : WriteRecord(w, r)
  BY <1>1, <1>7
  DEF Signal, ListExpires, ReceiveResult, DeadlineExceeded, ShutdownPump, ShutdownReturns,
      filterData, WriteReturns, SendResult, WriteRecord, vars
<1> QED
  BY <1>2, <1>3, <1>4, <1>5, <1>6, <1>7
  DEF Next, LoopStep, UptimeStep, WriterStep, ExecStep, Environment

(* A goroutine takes a step.                                                 *)
LEMMA MovesEmpty ==
  ASSUME OrderInv, NEW w \in writers, NEW v, Become(w, v),
         v.phase = "send" => v.todo = {}
  PROVE  \A x \in writers' : EndsEmpty(x)
BY DEF OrderInv, EndsEmpty, Become

LEMMA OrderStep ==
  ASSUME IInv, TailInv, OrderInv, [Next]_vars
  PROVE  OrderInv'
<1> USE DEF storage, loop, history
<1>0. TypeOK /\ ListInv /\ WriterInv
  BY DEF IInv
<1>1. ChunksInOrder'
  BY <1>0, ChunksStep DEF OrderInv
<1>2. ASSUME writers' \subseteq writers
      PROVE  \A w \in writers' : EndsEmpty(w)
  BY <1>2 DEF OrderInv
<1>3. CASE writeToPumps
  <2>1. \A p \in Pump : NewWriter(p).phase = "filter"
    BY DEF NewWriter
  <2>2. writers' = writers \cup {NewWriter(p) : p \in Pump}
    BY <1>3 DEF writeToPumps
  <2>3. \A w \in writers' : EndsEmpty(w)
    BY <2>1, <2>2 DEF OrderInv, EndsEmpty
  <2> QED
    BY <1>1, <2>3 DEF OrderInv, EndsEmpty
<1>4. ASSUME NEW A \in SUBSET batch, WriteUptimeData(A)
      PROVE  OrderInv'
  BY <1>1, <1>2, <1>4 DEF WriteUptimeData, OrderInv, EndsEmpty
<1>5. ASSUME NEW w \in writers, filterData(w)
      PROVE  OrderInv'
  <2> DEFINE todo == IF w.pump \in Configured THEN w.todo \ Blocked[w.pump] ELSE w.todo
             v    == [w EXCEPT !.phase = "write", !.todo = todo]
  <2>1. v.phase = "write"
    BY <1>0 DEF TypeOK, Writer
  <2>2. Become(w, v)
    BY <1>5 DEF filterData
  <2> HIDE DEF v
  <2> QED
    BY <1>1, <2>1, <2>2, MovesEmpty DEF OrderInv, EndsEmpty
<1>6. ASSUME NEW w \in writers, NEW r \in w.todo, WriteRecord(w, r)
      PROVE  OrderInv'
  <2> DEFINE v == [w EXCEPT !.todo = @ \ {r}]
  <2>1. v.phase = "write"
    BY <1>0, <1>6 DEF TypeOK, Writer, WriteRecord
  <2>2. Become(w, v)
    BY <1>6 DEF WriteRecord
  <2> HIDE DEF v
  <2> QED
    BY <1>1, <2>1, <2>2, MovesEmpty DEF OrderInv, EndsEmpty
<1>7. ASSUME NEW w \in writers, WriteReturns(w)
      PROVE  OrderInv'
  <2> DEFINE v == [w EXCEPT !.todo = {}, !.phase = "send"]
  <2>1. v.todo = {}
    BY <1>0 DEF TypeOK, Writer
  <2>2. Become(w, v)
    BY <1>7 DEF WriteReturns
  <2> HIDE DEF v
  <2> QED
    BY <1>1, <2>1, <2>2, MovesEmpty DEF OrderInv, EndsEmpty
<1>8. CASE Exit \/ Kill \/ \E w \in writers : SendResult(w) \/ Panic(w)
  BY <1>1, <1>2, <1>8 DEF Exit, Kill, SendResult, Panic, Die, OrderInv, EndsEmpty
<1>9. CASE \/ Tick \/ SkipUptime \/ Pop \/ PopFails \/ PopReplyLost \/ Expire \/ ExpireFails
           \/ NothingPopped \/ WaitReturns \/ checkShutdown \/ ShutdownDone
           \/ Signal \/ Restart \/ UNCHANGED vars
  BY <1>1, <1>2, <1>9
  DEF Tick, SkipUptime, Pop, PopFails, PopReplyLost, Expire, ExpireFails, NothingPopped,
      WaitReturns, checkShutdown, ShutdownDone, Signal, Restart, vars, OrderInv, EndsEmpty
<1>10. CASE \/ \E p \in Pump : ShutdownPump(p) \/ ShutdownReturns(p)
                               \/ ReceiveResult(p) \/ DeadlineExceeded(p)
            \/ \E r \in Record, k \in Key : GatewayPush(r, k)
            \/ \E k \in Key : ListExpires(k)
  BY <1>1, <1>2, <1>10
  DEF ShutdownPump, ShutdownReturns, ReceiveResult, DeadlineExceeded, GatewayPush, ListExpires, OrderInv, EndsEmpty
<1> QED
  BY <1>3, <1>4, <1>5, <1>6, <1>7, <1>8, <1>9, <1>10
  DEF Next, LoopStep, UptimeStep, WriterStep, ExecStep, Environment

(* A backend of a pump without timeout gets a record when it has none of the *)
(* newer records of the same list, but for those of the same chunk.          *)
LEMMA TakesOldest ==
  ASSUME IInv, OrderInv, [Next]_vars
  PROVE  TakesOldestFirst \/ UNCHANGED vars
<1> USE DEF storage, loop, history
<1>1. ASSUME \A p \in Pump : copies'[p] = copies[p]
      PROVE  TakesOldestFirst
  <2>1. \A p \in Pump, r \in Record : copies[p][r] \in Nat
    BY DEF IInv, TypeOK, Sink
  <2> QED
    BY <1>1, <2>1 DEF TakesOldestFirst
<1>2. ASSUME NEW w \in writers, NEW x \in w.todo, WriteRecord(w, x)
      PROVE  TakesOldestFirst
  <2> SUFFICES ASSUME NEW p \in Pump, p \notin Timed, NEW r \in Record,
                      copies'[p][r] > copies[p][r],
                      NEW q \in Record, home[q] = home[r], q > r
               PROVE  \/ copies[p][q] = 0
                      \/ \E y \in writers : y.pump = p /\ {q, r} \subseteq y.keys
    BY DEF TakesOldestFirst
  <2>1. p = w.pump /\ r = x
    <3>1. \A y \in Record : copies[p][y] \in Nat
      BY DEF IInv, TypeOK, Sink
    <3>2. p # w.pump \/ r # x => copies'[p][r] = copies[p][r]
      BY <1>2 DEF WriteRecord, IInv, TypeOK, Sink
    <3> QED
      BY <3>1, <3>2
  <2>2. w.keys = batch /\ r \in w.todo /\ r \in batch
    BY <2>1 DEF IInv, UntimedInv, Awaited, WriterInv, WriterOK
  <2>3. CASE q \in batch
    BY <2>1, <2>2, <2>3
  <2>4. CASE q \notin batch
    <3>1. q \notin sent
      BY <2>2, <2>4 DEF OrderInv, ChunksInOrder, Record
    <3> QED
      BY <3>1 DEF IInv, WriterInv, CopiesInv, TypeOK, Sink
  <2> QED
    BY <2>3, <2>4
<1>3. ASSUME NEW A \in SUBSET batch, WriteUptimeData(A)
      PROVE  TakesOldestFirst
  BY <1>1, <1>3, PurgeLoopAssumption DEF WriteUptimeData, IInv, TypeOK, Sink
<1>4. CASE \/ Tick \/ SkipUptime \/ Pop \/ PopFails \/ PopReplyLost \/ Expire \/ ExpireFails
           \/ NothingPopped \/ writeToPumps \/ WaitReturns \/ checkShutdown \/ ShutdownDone
           \/ Exit \/ Kill \/ Signal \/ Restart
  BY <1>1, <1>4
  DEF Tick, SkipUptime, Pop, PopFails, PopReplyLost, Expire, ExpireFails, NothingPopped,
      writeToPumps, WaitReturns, checkShutdown, ShutdownDone, Exit, Kill, Die, Signal,
      Restart
<1>5. CASE \/ \E p \in Pump : ShutdownPump(p) \/ ShutdownReturns(p)
                              \/ ReceiveResult(p) \/ DeadlineExceeded(p)
           \/ \E r \in Record, k \in Key : GatewayPush(r, k)
           \/ \E k \in Key : ListExpires(k)
           \/ \E w \in writers : filterData(w) \/ WriteReturns(w) \/ SendResult(w) \/ Panic(w)
  BY <1>1, <1>5
  DEF ShutdownPump, ShutdownReturns, ReceiveResult, DeadlineExceeded, GatewayPush, ListExpires,
      filterData, WriteReturns, SendResult, Panic, Die
<1> QED
  BY <1>2, <1>3, <1>4, <1>5
  DEF Next, LoopStep, UptimeStep, WriterStep, ExecStep, Environment

-----------------------------------------------------------------------------
(* No pump is passed over.                                                   *)

(* A visit reads a list with the serializer that wrote to it: the name built *)
(* by appending the two suffixes in turn is the name the gateway uses.       *)
LEMMA VisitDecodes ==
  ASSUME visit \in Visit, visit # LastVisit, NEW r \in Record, home[r] = CurrentKey
  PROVE  home[r] # UptimeKey /\ (r \notin Corrupt => Decodes(r))
<1>1. visit[1] \in FirstShard .. (NumShards - 1) /\ visit[2] \in 1 .. 2
  BY DEF Visit
<1>2. home[r] = [shard |-> visit[1], suffix |-> KeySuffix(visit[2])]
  BY DEF CurrentKey
<1>3. visit[1] # NumShards
  BY <1>1, PurgeLoopAssumption DEF FirstShard
<1>4. \A s \in 1 .. 2 : KeySuffix(s) = GetSuffix[AnalyticsSerializers[s]]
  <2>1. GetSuffix[AnalyticsSerializers[1]] = <<>>
        /\ GetSuffix[AnalyticsSerializers[2]] = <<"_protobuf">>
    BY DEF GetSuffix, AnalyticsSerializers
  <2>2. <<>> \o <<"_protobuf">> = <<"_protobuf">>
    OBVIOUS
  <2> QED
    BY <2>1, <2>2 DEF KeySuffix
<1> QED
  BY <1>1, <1>2, <1>3, <1>4 DEF UptimeKey, Decodes

(* What settled a record for a pump stays, or something else settles it.     *)
LEMMA StaysSettled ==
  ASSUME TypeOK, FanOut,
         \A r \in sent : home'[r] = home[r],
         \A s \in Sink, r \in Record : copies[s][r] > 0 => copies'[s][r] > 0,
         \A s \in Sink : failed[s] \subseteq failed'[s],
         \A w \in writers : \A r \in w.todo : Settled(w.pump, r)'
  PROVE  \A r \in sent :
           IF home'[r] = UptimeKey
           THEN copies'[UptimePump][r] > 0 \/ r \in failed'[UptimePump] \cup Corrupt
           ELSE \A p \in Pump : Settled(p, r)'
<1> SUFFICES ASSUME NEW r \in sent
             PROVE  IF home'[r] = UptimeKey
                    THEN copies'[UptimePump][r] > 0
                         \/ r \in failed'[UptimePump] \cup Corrupt
                    ELSE \A p \in Pump : Settled(p, r)'
  OBVIOUS
<1>1. r \in Record /\ home'[r] = home[r]
  BY DEF TypeOK
<1>2. CASE home[r] = UptimeKey
  BY <1>1, <1>2 DEF FanOut, Sink
<1>3. CASE home[r] # UptimeKey
  <2> SUFFICES ASSUME NEW p \in Pump, Settled(p, r)
               PROVE  Settled(p, r)'
    BY <1>1, <1>3 DEF FanOut
  <2>1. CASE \E w \in writers : w.pump = p /\ r \in w.todo
    BY <2>1
  <2>2. CASE ~(\E w \in writers : w.pump = p /\ r \in w.todo)
    BY <1>1, <2>2 DEF Settled, Sink
  <2> QED
    BY <2>1, <2>2
<1> QED
  BY <1>2, <1>3

LEMMA SettledSame ==
  ASSUME TypeOK, FanOut, UNCHANGED <<home, copies, failed, writers>>, sent' = sent
  PROVE  FanOut'
<1>1. \A w \in writers : \A r \in w.todo : Settled(w.pump, r)'
  BY DEF Settled
<1> QED
  BY <1>1, StaysSettled DEF FanOut

(* A dying process loses what its goroutines still had to write.             *)
LEMMA DieFanOut ==
  ASSUME TypeOK, FanOut, Die
  PROVE  FanOut'
<1> USE DEF storage, history
<1>1. \A s \in Sink : failed[s] \subseteq failed'[s]
  BY DEF Die
<1>2. \A w \in writers : w.pump \in Sink /\ w.todo \subseteq failed'[w.pump]
  BY DEF Die, TypeOK, Writer, Sink
<1>3. \A w \in writers : \A r \in w.todo : Settled(w.pump, r)'
  BY <1>2 DEF Settled
<1>4. UNCHANGED <<home, copies, sent>>
  BY DEF Die
<1> QED
  BY <1>1, <1>3, <1>4, StaysSettled DEF FanOut

(* One goroutine goes on; each record it held is still settled.              *)
LEMMA MoveFanOut ==
  ASSUME TypeOK, FanOut, NEW w \in writers, NEW v, Become(w, v), v.pump = w.pump,
         UNCHANGED <<home, sent>>,
         \A s \in Sink, r \in Record : copies[s][r] > 0 => copies'[s][r] > 0,
         \A s \in Sink : failed[s] \subseteq failed'[s],
         \A r \in w.todo : r \in v.todo \/ Settled(w.pump, r)'
  PROVE  FanOut'
<1>1. v \in writers' /\ \A x \in writers : x # w => x \in writers'
  BY DEF Become
<1>2. \A x \in writers : \A r \in x.todo : Settled(x.pump, r)'
  BY <1>1 DEF Settled
<1> QED
  BY <1>2, StaysSettled DEF FanOut

(* Every pump gets a goroutine for the whole chunk.                          *)
LEMMA DispatchFanOut ==
  ASSUME TypeOK, TailInv, FanOut, writeToPumps
  PROVE  FanOut'
<1> USE DEF storage, history
<1>1. /\ writers' = writers \cup {NewWriter(p) : p \in Pump} /\ sent' = sent \cup batch
      /\ UNCHANGED <<home, copies, failed>> /\ visit # LastVisit
  BY DEF writeToPumps
<1>2. \A w \in writers : \A r \in w.todo : Settled(w.pump, r)'
  BY <1>1 DEF Settled
<1>3. \A r \in sent : IF home'[r] = UptimeKey
                      THEN copies'[UptimePump][r] > 0
                           \/ r \in failed'[UptimePump] \cup Corrupt
                      ELSE \A p \in Pump : Settled(p, r)'
  BY <1>1, <1>2, StaysSettled
<1>4. ASSUME NEW r \in batch
      PROVE  home'[r] # UptimeKey /\ \A p \in Pump : Settled(p, r)'
  <2>1. r \in Record /\ home[r] = CurrentKey
    BY DEF TypeOK, TailInv, BatchHome, Held, writeToPumps
  <2>2. home[r] # UptimeKey /\ (r \notin Corrupt => Decodes(r))
    BY <1>1, <2>1, VisitDecodes DEF TypeOK
  <2>3. ASSUME NEW p \in Pump, Decodes(r)
        PROVE  Settled(p, r)'
    <3>1. NewWriter(p) \in writers' /\ NewWriter(p).pump = p /\ r \in NewWriter(p).todo
      BY <1>1, <2>3 DEF NewWriter
    <3> QED
      BY <3>1 DEF Settled
  <2>4. ASSUME NEW p \in Pump, r \in Corrupt
        PROVE  Settled(p, r)'
    BY <2>4 DEF Settled
  <2> QED
    BY <1>1, <2>2, <2>3, <2>4
<1> QED
  BY <1>1, <1>3, <1>4 DEF FanOut

LEMMA UptimeFanOut ==
  ASSUME TypeOK, TailInv, FanOut, NEW A \in SUBSET batch, WriteUptimeData(A)
  PROVE  FanOut'
<1> USE DEF storage
<1>0. UptimePump \in Sink
  BY DEF Sink
<1>1. /\ sent' = sent \cup batch /\ UNCHANGED <<home, writers>> /\ visit = LastVisit
      /\ failed' = [failed EXCEPT ![UptimePump] = @ \cup (batch \ (A \cup Corrupt))]
  BY DEF WriteUptimeData
<1>2. \A s \in Sink, r \in Record :
        copies'[s][r] = IF s = UptimePump /\ r \in A THEN copies[s][r] + 1 ELSE copies[s][r]
  <2> DEFINE row == [r \in Record |-> IF r \in A THEN copies[UptimePump][r] + 1
                                                 ELSE copies[UptimePump][r]]
  <2>1. copies' = [copies EXCEPT ![UptimePump] = row]
    BY DEF WriteUptimeData
  <2>2. \A r \in Record : row[r] = IF r \in A THEN copies[UptimePump][r] + 1
                                              ELSE copies[UptimePump][r]
    OBVIOUS
  <2> HIDE DEF row
  <2> QED
    BY <2>1, <2>2 DEF TypeOK
<1>3. \A s \in Sink, r \in Record : copies[s][r] \in Nat
  BY DEF TypeOK
<1>4. \A s \in Sink, r \in Record : copies[s][r] > 0 => copies'[s][r] > 0
  BY <1>2, <1>3
<1>5. \A s \in Sink : failed[s] \subseteq failed'[s]
  BY <1>1 DEF TypeOK
<1>6. \A w \in writers : \A r \in w.todo : Settled(w.pump, r)'
  BY <1>1 DEF Settled
<1>7. \A r \in sent : IF home'[r] = UptimeKey
                      THEN copies'[UptimePump][r] > 0
                           \/ r \in failed'[UptimePump] \cup Corrupt
                      ELSE \A p \in Pump : Settled(p, r)'
  BY <1>1, <1>4, <1>5, <1>6, StaysSettled
<1>8. ASSUME NEW r \in batch
      PROVE  /\ home'[r] = UptimeKey
             /\ copies'[UptimePump][r] > 0 \/ r \in failed'[UptimePump] \cup Corrupt
  <2>1. r \in Record /\ home[r] = UptimeKey
    BY <1>1 DEF TypeOK, TailInv, BatchHome, Held, WriteUptimeData, CurrentKey
  <2>2. CASE r \in A
    BY <1>0, <1>1, <1>2, <1>3, <2>1, <2>2
  <2>3. CASE r \notin A
    BY <1>0, <1>1, <2>1, <2>3 DEF TypeOK
  <2> QED
    BY <2>2, <2>3
<1> QED
  BY <1>1, <1>7, <1>8 DEF FanOut

LEMMA FanOutStep ==
  ASSUME IInv, TailInv, OrderInv, FanOut, [Next]_vars
  PROVE  FanOut'
<1> USE DEF storage, loop, history
<1>0. TypeOK /\ ListInv /\ WriterInv
  BY DEF IInv
<1>1. CASE writeToPumps
  BY <1>0, <1>1, DispatchFanOut
<1>2. ASSUME NEW A \in SUBSET batch, WriteUptimeData(A)
      PROVE  FanOut'
  BY <1>0, <1>2, UptimeFanOut
<1>3. ASSUME NEW w \in writers, filterData(w)
      PROVE  FanOut'
  <2> DEFINE todo == IF w.pump \in Configured THEN w.todo \ Blocked[w.pump] ELSE w.todo
             v    == [w EXCEPT !.phase = "write", !.todo = todo]
  <2>1. v.pump = w.pump /\ v.todo = todo
    BY <1>0 DEF TypeOK, Writer
  <2>2. Become(w, v) /\ UNCHANGED <<home, sent, copies, failed>>
    BY <1>3 DEF filterData
  <2>3. \A r \in w.todo : r \in v.todo \/ Settled(w.pump, r)'
    BY <2>1 DEF Settled
  <2> HIDE DEF v
  <2> QED
    BY <1>0, <2>1, <2>2, <2>3, MoveFanOut
<1>4. ASSUME NEW w \in writers, NEW r \in w.todo, WriteRecord(w, r)
      PROVE  FanOut'
  <2> DEFINE v == [w EXCEPT !.todo = @ \ {r}]
  <2>1. v.pump = w.pump /\ v.todo = w.todo \ {r} /\ w.pump \in Sink /\ r \in Record
    BY <1>0 DEF TypeOK, Writer, Sink
  <2>2. Become(w, v) /\ UNCHANGED <<home, sent, failed>>
    BY <1>4 DEF WriteRecord
  <2>3. /\ copies'[w.pump][r] = copies[w.pump][r] + 1
        /\ \A s \in Sink, q \in Record : s # w.pump \/ q # r => copies'[s][q] = copies[s][q]
        /\ \A s \in Sink, q \in Record : copies[s][q] \in Nat
    BY <1>0, <1>4, <2>1 DEF WriteRecord, TypeOK
  <2>4. \A s \in Sink, q \in Record : copies[s][q] > 0 => copies'[s][q] > 0
    BY <2>1, <2>3
  <2>5. copies'[w.pump][r] > 0
    BY <2>1, <2>3
  <2>6. \A q \in w.todo : q \in v.todo \/ Settled(w.pump, q)'
    BY <2>1, <2>5 DEF Settled
  <2> HIDE DEF v
  <2> QED
    BY <1>0, <2>1, <2>2, <2>4, <2>6, MoveFanOut
<1>5. ASSUME NEW w \in writers, WriteReturns(w)
      PROVE  FanOut'
  <2> DEFINE v == [w EXCEPT !.todo = {}, !.phase = "send"]
  <2>1. v.pump = w.pump /\ w.pump \in Sink
    BY <1>0 DEF TypeOK, Writer, Sink
  <2>2. Become(w, v) /\ UNCHANGED <<home, sent, copies>>
    BY <1>5 DEF WriteReturns
  <2>3. (\A s \in Sink : failed[s] \subseteq failed'[s]) /\ w.todo \subseteq failed'[w.pump]
    BY <1>0, <1>5, <2>1 DEF WriteReturns, TypeOK
  <2>4. \A r \in w.todo : Settled(w.pump, r)'
    BY <2>3 DEF Settled
  <2> HIDE DEF v
  <2> QED
    BY <1>0, <2>1, <2>2, <2>3, <2>4, MoveFanOut
<1>6. ASSUME NEW w \in writers, SendResult(w)
      PROVE  FanOut'
  <2>1. w.todo = {} /\ writers' = writers \ {w} /\ UNCHANGED <<home, sent, copies, failed>>
    BY <1>6 DEF SendResult, OrderInv, EndsEmpty
  <2>2. \A x \in writers : \A r \in x.todo : Settled(x.pump, r)'
    BY <2>1 DEF Settled
  <2> QED
    BY <1>0, <2>1, <2>2, StaysSettled DEF FanOut
<1>7. CASE Exit \/ Kill \/ \E w \in writers : Panic(w)
  BY <1>0, <1>7, DieFanOut DEF Exit, Kill, Panic
<1>8. ASSUME NEW r \in Record, NEW k \in Key, GatewayPush(r, k)
      PROVE  FanOut'
  <2>1. r \notin sent /\ UNCHANGED <<sent, copies, failed, writers>>
    BY <1>0, <1>8 DEF GatewayPush, ListInv, Accounted
  <2>2. \A q \in sent : home'[q] = home[q]
    BY <1>0, <1>8, <2>1 DEF GatewayPush, TypeOK
  <2>3. \A w \in writers : \A q \in w.todo : Settled(w.pump, q)'
    BY <2>1 DEF Settled
  <2> QED
    BY <1>0, <2>1, <2>2, <2>3, StaysSettled DEF FanOut
<1>9. CASE \/ Tick \/ SkipUptime \/ Pop \/ PopFails \/ PopReplyLost \/ Expire \/ ExpireFails
           \/ NothingPopped \/ WaitReturns \/ checkShutdown \/ ShutdownDone
           \/ Signal \/ Restart \/ UNCHANGED vars
  BY <1>0, <1>9, SettledSame
  DEF Tick, SkipUptime, Pop, PopFails, PopReplyLost, Expire, ExpireFails, NothingPopped,
      WaitReturns, checkShutdown, ShutdownDone, Signal, Restart, vars
<1>10. CASE \/ \E p \in Pump : ShutdownPump(p) \/ ShutdownReturns(p)
                               \/ ReceiveResult(p) \/ DeadlineExceeded(p)
            \/ \E k \in Key : ListExpires(k)
  BY <1>0, <1>10, SettledSame
  DEF ShutdownPump, ShutdownReturns, ReceiveResult, DeadlineExceeded, ListExpires
<1> QED
  BY <1>1, <1>2, <1>3, <1>4, <1>5, <1>6, <1>7, <1>8, <1>9, <1>10
  DEF Next, LoopStep, UptimeStep, WriterStep, ExecStep, Environment

-----------------------------------------------------------------------------
(* The purge loop and its writers keep, with the invariant of                *)
(* PurgeLoop_proofs, that every record sent is settled or still to be        *)
(* written for each pump, and that pushes, pops and writes have one order.   *)
THEOREM FullInductive == Spec => []FullInv
<1>1. Init => FullInv
  <2> SUFFICES ASSUME Init
               PROVE  FullInv
    OBVIOUS
  <2>1. TypeOK
    BY TypeInit
  <2>2. ListInv /\ WriterInv /\ UntimedInv
    BY DEF Init, ListInv, ListHome, Accounted, InList, Held, BatchInv,
           WriterInv, DistinctKeys, CopiesInv, UntimedInv
  <2>3. TailInv /\ OrderInv /\ FanOut
    BY DEF Init, TailInv, BatchHome, PushedInOrder, ListIsTail, OrderInv,
           ChunksInOrder, FanOut, Held, InList
  <2> QED
    BY <2>1, <2>2, <2>3 DEF IInv, FullInv
<1>2. FullInv /\ [Next]_vars => FullInv'
  <2> SUFFICES ASSUME FullInv, [Next]_vars
               PROVE  FullInv'
    OBVIOUS
  <2>1. IInv'
    BY TypeStep, ListStep, WriterInvStep, UntimedStep DEF IInv, FullInv
  <2>2. TailInv'
    BY TailStep DEF IInv, FullInv
  <2>3. OrderInv'
    BY OrderStep DEF FullInv
  <2>4. FanOut'
    BY FanOutStep DEF FullInv
  <2> QED
    BY <2>1, <2>2, <2>3, <2>4 DEF FullInv
<1> QED
  BY <1>1, <1>2, PTL DEF Spec

(* writeToPumps passes no pump over: each pump has written a record that was *)
(* dispatched, rejected it with its filters, lost it to an error or to the   *)
(* death of the process, or still has a goroutine that is going to write it. *)
(* It also says that the names of the lists are the gateway's: a record that *)
(* no visit could decode would be settled for nobody.                        *)
THEOREM NoPumpPassedOver == Spec => []FanOut
<1>1. FullInv => FanOut
  BY DEF FullInv
<1> QED
  BY <1>1, FullInductive, PTL

(* A pump without timeout gets the chunks of a list in the order in which    *)
(* the gateway pushed them, over passes, failures and restarts, whatever     *)
(* order it gives the records of a chunk (GetAndDeleteSet, StartPurgeLoop,   *)
(* execPumpWriting).                                                         *)
THEOREM UntimedInOrder == Spec => OldestFirst
<1>1. FullInv /\ [Next]_vars => [TakesOldestFirst]_vars
  BY TakesOldest DEF FullInv
<1> QED
  BY <1>1, FullInductive, PTL DEF Spec, OldestFirst

==============================================================================
