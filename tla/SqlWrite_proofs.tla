---------------------------- MODULE SqlWrite_proofs ----------------------------
(* Theorems about the SQL pumps, for any records, slices, batch size, days   *)
(* and faults.                                                               *)
EXTENDS SqlWrite, DataFacts, TLAPS

Wheres == {"none", "cut", "hasTable", "create", "index", "insert", "nil", "error"}
Entry  == [from : Nat, to : Nat, table : Table, ok : BOOLEAN]
InPart(c) == call[c].at \in {"hasTable", "create", "index", "insert"}
Active(c) == At(c, "cut") \/ InPart(c)

(* The types, also of the calls and the history.                             *)
TypeInv ==
  /\ TypeOK
  /\ call \in [Call -> [at : Wheres, done : Nat, end : Nat]]
  /\ log \in [Call -> Seq(Entry)]

(* What Init left behind.                                                    *)
InitInv ==
  /\ main = "migrate" => indexed = tables
  /\ main \in {"migrate", "index", "off"} => next = 0
  /\ main = "writing" => next # 0
  /\ main = "index" => ~sharded /\ pump \in Indexes /\ Default \in tables
  /\ ~sharded => tables \subseteq {Default}
  /\ migrates => sharded
  /\ postgres => ~sharded
  /\ indexing => ~sharded /\ Default \in tables
  /\ ~sharded /\ main \in {"idle", "writing"} =>
       /\ Default \in tables \/ faults > 0
       /\ pump \in Indexes => Default \in indexed \cup unindexed \/ indexing
  /\ main # "migrate" /\ faults = 0 => \A t \in outdated : LeftOutdated(t)

(* A call is at a part of its records: all of one day, if days matter.       *)
PartInv ==
  \A c \in Call :
    /\ c > next => At(c, "none")
    /\ At(c, "none") => call[c].done = 0 /\ call[c].end = 0
    /\ InPart(c) => call[c].done < call[c].end
    /\ InPart(c) /\ sharded =>
         \A n \in call[c].done + 1 .. call[c].end : DayOf(c, n) = PartTable(c)
    /\ ~sharded => call[c].at \notin {"hasTable", "create", "index"}
    /\ ~sharded => db = Default

(* The inserts of a call so far.                                             *)
LogInv ==
  \A c \in Call :
    /\ call[c].done = IF log[c] = <<>> THEN 0 ELSE log[c][Len(log[c])].to
    /\ At(c, "none") => log[c] = <<>>
    /\ At(c, "nil") => call[c].done = Len(recs[c])
    /\ \A k \in 1 .. Len(log[c]) :
         /\ log[c][k].from = IF k = 1 THEN 1 ELSE log[c][k - 1].to + 1
         /\ log[c][k].to <= Len(recs[c])
         /\ pump \in Record => log[c][k].to - log[c][k].from < BatchSize
         /\ ~sharded => log[c][k].table = Default

(* Without a timeout one call runs, and the handle is at its table.          *)
UntimedInv ==
  ~timed =>
    /\ over = {}
    /\ \A c \in Call : Active(c) => main = "writing" /\ c = next
    /\ \A c \in Call : InPart(c) =>
         /\ db = PartTable(c)
         /\ At(c, "create") => db \notin tables
         /\ At(c, "index") => PartTable(c) \in tables
         /\ At(c, "insert") => PartTable(c) \in tables \/ faults > 0

(* Why an insert or a call failed.                                           *)
ReasonInv ==
  \A c \in Call :
    /\ \A k \in 1 .. Len(log[c]) :
         log[c][k].ok \/ timed \/ faults > 0 \/ LeftOutdated(log[c][k].table)
    /\ At(c, "error") =>
         timed \/ faults > 0 \/ \E k \in 1 .. Len(log[c]) : LeftOutdated(log[c][k].table)

(* Where the rows went.                                                      *)
TargetInv ==
  pump \in Aggregate \/ ~timed =>
    \A c \in Call : \A k \in 1 .. Len(log[c]) : InTableOfItsDay(c, log[c][k])

(* The tables that the sql pump may use without their indexes.               *)
Exempt(t) == ~migrates /\ t = IF sharded THEN Today ELSE Default

Ready(t) ==
  \/ t \in indexed \cup unindexed
  \/ pump = "sql" /\ Exempt(t)
  \/ pump = "sqlAggregate" /\ indexing /\ t = Default

IndexInv ==
  /\ pump = "sql" /\ ~timed =>
       \A t \in tables : Ready(t) \/ \E c \in Call : At(c, "index") /\ PartTable(c) = t
  /\ pump = "sqlAggregate" => \A c \in Call : At(c, "insert") => Ready(PartTable(c))
  /\ pump = "sqlAggregate" \/ (pump = "sql" /\ ~timed) =>
       \A c \in Call : \A k \in 1 .. Len(log[c]) : log[c][k].ok => Ready(log[c][k].table)

IInv ==
  TypeInv /\ InitInv /\ PartInv /\ LogInv /\ UntimedInv /\ ReasonInv /\ TargetInv /\ IndexInv

-----------------------------------------------------------------------------
(* The operators.                                                            *)

LEMMA CallFacts ==
  /\ Call = 1 .. Len(Lengths) /\ Len(Lengths) \in Nat
  /\ \A c \in Call : c \in Nat /\ c # 0
  /\ Record \cap Aggregate = {}
  /\ "sql" \in Record /\ "sqlAggregate" \in Aggregate
BY SqlWriteAssumption DEF Call, Record, Aggregate

LEMMA RecsFacts ==
  ASSUME TypeInv, NEW c \in Call
  PROVE  /\ Len(recs[c]) \in Nat
         /\ call[c].done \in Nat /\ call[c].end \in Nat
         /\ call[c].done <= Len(recs[c]) /\ call[c].end <= Len(recs[c])
         /\ \A n \in 1 .. Len(recs[c]) : DayOf(c, n) \in Day
         /\ call[c].done < Len(recs[c]) => PartTable(c) \in Table
<1>1. /\ Len(recs[c]) \in Nat
      /\ call[c].done \in Nat /\ call[c].end \in Nat
      /\ call[c].done <= Len(recs[c]) /\ call[c].end <= Len(recs[c])
  BY DEF TypeInv, TypeOK
<1>2. ASSUME NEW n \in 1 .. Len(recs[c])
      PROVE  DayOf(c, n) \in Day
  <2>1. recs[c][n] \in Item
    BY DEF TypeInv, TypeOK
  <2> QED
    BY <2>1, SqlWriteAssumption DEF DayOf
<1>3. call[c].done < Len(recs[c]) => PartTable(c) \in Table
  BY <1>1, <1>2 DEF PartTable, Table
<1> QED
  BY <1>1, <1>2, <1>3

(* A part ends with the last record of its day, or with the slice.           *)
LEMMA PartEndFacts ==
  ASSUME TypeInv, NEW c \in Call, call[c].done < Len(recs[c])
  PROVE  /\ PartEnd(c) \in call[c].done + 1 .. Len(recs[c])
         /\ sharded => \A n \in call[c].done + 1 .. PartEnd(c) : DayOf(c, n) = PartTable(c)
<1> DEFINE d == call[c].done
           L == Len(recs[c])
           S == {n \in d + 1 .. L : n = L \/ DayOf(c, n + 1) # DayOf(c, d + 1)}
<1>1. d \in Nat /\ L \in Nat /\ d < L
  BY RecsFacts
<1>2. CASE ~sharded
  BY <1>1, <1>2 DEF PartEnd
<1>3. CASE sharded
  <2>1. S \in SUBSET Nat /\ L \in S
    BY <1>1
  <2>2. PICK m \in S : \A n \in S : m <= n
    BY <2>1, LeastElement
  <2>3. Min(S) \in S /\ \A n \in S : Min(S) <= n
    <3> HIDE DEF S
    <3> QED
      BY <2>2 DEF Min
  <2>4. PartEnd(c) = Min(S)
    BY <1>3 DEF PartEnd
  <2>5. ASSUME NEW n \in d + 1 .. PartEnd(c)
        PROVE  DayOf(c, n) = DayOf(c, d + 1)
    <3>1. CASE n = d + 1
      BY <3>1
    <3>2. CASE n # d + 1
      <4>1. PartEnd(c) \in d + 1 .. L
        BY <1>1, <2>3, <2>4
      <4>2. n - 1 \in d + 1 .. L /\ n - 1 < PartEnd(c) /\ (n - 1) + 1 = n
        BY <1>1, <3>2, <4>1
      <4>3. n - 1 \notin S
        <5> HIDE DEF S
        <5> QED
          BY <1>1, <2>3, <2>4, <4>1, <4>2
      <4> QED
        BY <4>2, <4>3
    <3> QED
      BY <3>1, <3>2
  <2> QED
    BY <1>3, <2>3, <2>4, <2>5 DEF PartTable
<1> QED
  BY <1>2, <1>3

LEMMA BatchEndFacts ==
  ASSUME TypeInv, NEW c \in Call, call[c].done < call[c].end
  PROVE  /\ BatchEnd(c) \in call[c].done + 1 .. call[c].end
         /\ pump \in Record => BatchEnd(c) - (call[c].done + 1) < BatchSize
         /\ pump \in Aggregate => BatchEnd(c) = call[c].end
<1>1. call[c].done \in Nat /\ call[c].end \in Nat /\ BatchSize \in Nat \ {0}
  BY RecsFacts, SqlWriteAssumption
<1>2. ASSUME NEW a \in Nat, NEW b \in Nat
      PROVE  Min({a, b}) = IF a <= b THEN a ELSE b
  <2> DEFINE m == IF a <= b THEN a ELSE b
  <2>1. m \in {a, b} /\ \A x \in {a, b} : m <= x
    OBVIOUS
  <2>2. \A y \in {a, b} : (\A x \in {a, b} : y <= x) => y = m
    OBVIOUS
  <2>3. Min({a, b}) \in {a, b} /\ \A x \in {a, b} : Min({a, b}) <= x
    <3> HIDE DEF m
    <3> QED
      BY <2>1 DEF Min
  <2> QED
    BY <2>2, <2>3
<1>3. call[c].done + BatchSize \in Nat
  BY <1>1
<1>4. CASE pump \in Record
  <2>1. BatchEnd(c) = IF call[c].done + BatchSize <= call[c].end THEN call[c].done + BatchSize
                      ELSE call[c].end
    BY <1>1, <1>2, <1>3, <1>4 DEF BatchEnd
  <2> QED
    BY <1>1, <1>4, <2>1, CallFacts
<1>5. CASE pump \notin Record
  BY <1>1, <1>5 DEF BatchEnd
<1> QED
  BY <1>4, <1>5, CallFacts

-----------------------------------------------------------------------------
(* Who changes what.                                                         *)

Grows ==
  tables \subseteq tables' /\ indexed \subseteq indexed' /\ unindexed \subseteq unindexed'

OnlyCall(c) ==
  /\ UNCHANGED <<pump, sharded, timed, migrates, postgres, recs, over, main, next, outdated,
                 indexing>>
  /\ \A d \in Call \ {c} : call'[d] = call[d] /\ log'[d] = log[d]
  /\ Grows
  /\ faults' \in {faults, faults + 1} /\ faults' \in 0 .. MaxFaults

LEMMA CallFrame ==
  ASSUME TypeInv, NEW c \in Call, WriteDataStep(c)
  PROVE  OnlyCall(c)
<1> USE DEF config, database, loop, OnlyCall, Grows, Goes, Fault, TypeInv, TypeOK
<1> USE SqlWriteAssumption
<1>1. CASE Cut(c) \/ Return(c) \/ HasTable(c)
  BY <1>1 DEF Cut, Return, HasTable
<1>2. CASE CreateTable(c) \/ CreateTableFails(c)
  BY <1>2 DEF CreateTable, CreateTableFails
<1>3. CASE EnsureIndex(c) \/ EnsureIndexFails(c)
  BY <1>3 DEF EnsureIndex, EnsureIndexFails
<1>4. CASE Insert(c)
  <2>1. faults' \in {faults, faults + 1} /\ faults' \in 0 .. MaxFaults
    BY <1>4 DEF Insert
  <2> QED
    BY <1>4, <2>1 DEF Insert
<1> QED
  BY <1>1, <1>2, <1>3, <1>4 DEF WriteDataStep

OnlyDatabase ==
  /\ UNCHANGED <<pump, sharded, timed, migrates, postgres, db, recs, call, log, over, next>>
  /\ Grows
  /\ faults' \in {faults, faults + 1} /\ faults' \in 0 .. MaxFaults

LEMMA StartFrame ==
  ASSUME TypeInv, Start
  PROVE  OnlyDatabase
<1> USE DEF config, database, loop, OnlyDatabase, Grows, Fault, TypeInv, TypeOK
<1> USE SqlWriteAssumption
<1>1. CASE HandleTableMigration \/ MigrationFails
  BY <1>1 DEF HandleTableMigration, MigrationFails, Migrated
<1>2. CASE StartIndex \/ StartIndexFails \/ BackgroundIndex
  BY <1>2 DEF StartIndex, StartIndexFails, BackgroundIndex
<1> QED
  BY <1>1, <1>2 DEF Start


-----------------------------------------------------------------------------
(* Types.                                                                    *)

(* The call goes on, and nothing else of it changes.                         *)
LEMMA MoveType ==
  ASSUME TypeInv, NEW c \in Call, NEW w \in Wheres, Goes(c, w)
  PROVE  /\ call' \in [Call -> [at : Wheres, done : Nat, end : Nat]]
         /\ call'[c].at = w /\ call'[c].done = call[c].done /\ call'[c].end = call[c].end
         /\ \A d \in Call \ {c} : call'[d] = call[d]
BY DEF TypeInv, Goes

LEMMA CutType ==
  ASSUME TypeInv, NEW c \in Call, NEW w \in Wheres, NEW e \in Nat,
         call' = [call EXCEPT ![c].end = e, ![c].at = w]
  PROVE  /\ call' \in [Call -> [at : Wheres, done : Nat, end : Nat]]
         /\ call'[c].at = w /\ call'[c].done = call[c].done /\ call'[c].end = e
BY DEF TypeInv

LEMMA InsertType ==
  ASSUME TypeInv, NEW c \in Call, NEW w \in Wheres, NEW d \in Nat,
         call' = [call EXCEPT ![c].done = d, ![c].at = w]
  PROVE  /\ call' \in [Call -> [at : Wheres, done : Nat, end : Nat]]
         /\ call'[c].at = w /\ call'[c].done = d /\ call'[c].end = call[c].end
BY DEF TypeInv

LEMMA CallTypeStep ==
  ASSUME TypeInv, PartInv, NEW c \in Call, WriteDataStep(c)
  PROVE  /\ call' \in [Call -> [at : Wheres, done : Nat, end : Nat]]
         /\ call'[c].done <= Len(recs[c]) /\ call'[c].end <= Len(recs[c])
         /\ call'[c].at = "insert" => call'[c].done < call'[c].end
         /\ db' \in Table
<1>1. CASE Cut(c)
  <2>1. PartEnd(c) \in call[c].done + 1 .. Len(recs[c]) /\ PartTable(c) \in Table
        /\ call[c].done \in Nat /\ Len(recs[c]) \in Nat
    BY <1>1, PartEndFacts, RecsFacts DEF Cut
  <2>2. PICK w \in Wheres : call' = [call EXCEPT ![c].end = PartEnd(c), ![c].at = w]
    BY <1>1 DEF Cut, Wheres
  <2>3. db' \in {db, PartTable(c)}
    BY <1>1 DEF Cut
  <2>4. PartEnd(c) \in Nat
    BY <2>1
  <2>5. /\ call' \in [Call -> [at : Wheres, done : Nat, end : Nat]]
        /\ call'[c].done = call[c].done /\ call'[c].end = PartEnd(c)
    BY <2>2, <2>4, CutType
  <2> QED
    BY <2>1, <2>3, <2>5 DEF TypeInv, TypeOK
<1>2. CASE Insert(c)
  <2>1. /\ BatchEnd(c) \in call[c].done + 1 .. call[c].end
        /\ call[c].done \in Nat /\ call[c].end \in Nat /\ call[c].end <= Len(recs[c])
        /\ Len(recs[c]) \in Nat
    BY <1>2, BatchEndFacts, RecsFacts DEF Insert, PartInv, InPart, At
  <2>2. PICK w \in Wheres :
          /\ call' = [call EXCEPT ![c].done = BatchEnd(c), ![c].at = w]
          /\ w = "insert" => BatchEnd(c) < call[c].end
    BY <1>2 DEF Insert, Wheres
  <2>3. BatchEnd(c) \in Nat /\ BatchEnd(c) <= Len(recs[c])
    BY <2>1
  <2>4. /\ call' \in [Call -> [at : Wheres, done : Nat, end : Nat]]
        /\ call'[c].at = w /\ call'[c].done = BatchEnd(c) /\ call'[c].end = call[c].end
    BY <2>2, <2>3, InsertType
  <2>5. db' = db
    BY <1>2 DEF Insert
  <2> QED
    BY <2>1, <2>2, <2>3, <2>4, <2>5 DEF TypeInv, TypeOK
<1>3. CASE ~Cut(c) /\ ~Insert(c)
  <2>1. PICK w \in Wheres : Goes(c, w) /\ (w = "insert" => InPart(c))
    BY <1>3
    DEF WriteDataStep, Return, HasTable, CreateTable, CreateTableFails, EnsureIndex,
        EnsureIndexFails, AfterCreate, Wheres, InPart, At
  <2>2. db' = db \/ (InPart(c) /\ db' = PartTable(c))
    <3>1. CASE HasTable(c)
      BY <3>1 DEF HasTable, InPart, At
    <3>2. CASE ~HasTable(c)
      BY <1>3, <3>2
      DEF WriteDataStep, Return, CreateTable, CreateTableFails, EnsureIndex, EnsureIndexFails
    <3> QED
      BY <3>1, <3>2
  <2>3. InPart(c) => call[c].done < call[c].end /\ PartTable(c) \in Table
    BY RecsFacts DEF PartInv
  <2> QED
    BY <2>1, <2>2, <2>3, MoveType, RecsFacts DEF TypeInv, TypeOK
<1> QED
  BY <1>1, <1>2, <1>3

LEMMA LogTypeStep ==
  ASSUME TypeInv, PartInv, NEW c \in Call, WriteDataStep(c)
  PROVE  log' \in [Call -> Seq(Entry)]
<1>1. CASE Insert(c)
  <2>1. BatchEnd(c) \in Nat /\ call[c].done + 1 \in Nat
    BY <1>1, BatchEndFacts, RecsFacts DEF Insert, PartInv, InPart, At
  <2>2. Target(c) \in Table
    BY <1>1, RecsFacts DEF Insert, PartInv, InPart, At, Target, TypeInv, TypeOK
  <2>3. PICK ok \in BOOLEAN :
          log' = [log EXCEPT ![c] = Append(@, [from |-> call[c].done + 1, to |-> BatchEnd(c),
                                               table |-> Target(c), ok |-> ok])]
    BY <1>1 DEF Insert
  <2>4. [from |-> call[c].done + 1, to |-> BatchEnd(c), table |-> Target(c), ok |-> ok] \in Entry
    BY <2>1, <2>2 DEF Entry
  <2> QED
    BY <2>3, <2>4, AppendFacts DEF TypeInv
<1>2. CASE ~Insert(c)
  BY <1>2
  DEF WriteDataStep, Cut, Return, HasTable, CreateTable, CreateTableFails, EnsureIndex,
      EnsureIndexFails, TypeInv
<1> QED
  BY <1>1, <1>2

LEMMA TypeStep ==
  ASSUME TypeInv, InitInv, PartInv, [Next]_vars
  PROVE  TypeInv'
<1>0. TypeOK
  BY DEF TypeInv
<1>1. ASSUME NEW c \in Call, WriteDataStep(c)
      PROVE  TypeInv'
  <2>1. OnlyCall(c)
    BY <1>1, CallFrame
  <2>2. tables' \subseteq Table /\ indexed' \subseteq tables' /\ unindexed' \subseteq Table
    <3>1. tables' \subseteq tables \cup {db}
      BY <1>1
      DEF WriteDataStep, Cut, Return, HasTable, CreateTable, CreateTableFails, EnsureIndex,
          EnsureIndexFails, Insert, database
    <3>2. indexed' \subseteq indexed \cup (tables \cap {PartTable(c)})
      BY <1>1
      DEF WriteDataStep, Cut, Return, HasTable, CreateTable, CreateTableFails, EnsureIndex,
          EnsureIndexFails, Insert, database
    <3>3. unindexed' = unindexed \/ (InPart(c) /\ unindexed' = unindexed \cup {PartTable(c)})
      <4>1. CASE EnsureIndexFails(c)
        BY <4>1 DEF EnsureIndexFails, InPart, At
      <4>2. CASE ~EnsureIndexFails(c)
        BY <1>1, <4>2
        DEF WriteDataStep, Cut, Return, HasTable, CreateTable, CreateTableFails, EnsureIndex,
            Insert, database
      <4> QED
        BY <4>1, <4>2
    <3>4. InPart(c) => PartTable(c) \in Table
      BY RecsFacts DEF PartInv
    <3> QED
      BY <1>0, <2>1, <3>1, <3>2, <3>3, <3>4 DEF TypeOK, OnlyCall, Grows
  <2>3. /\ call' \in [Call -> [at : Wheres, done : Nat, end : Nat]]
        /\ log' \in [Call -> Seq(Entry)] /\ db' \in Table
    BY <1>1, CallTypeStep, LogTypeStep
  <2>4. ASSUME NEW d \in Call
        PROVE  /\ call'[d].at \in Wheres
               /\ 0 <= call'[d].done /\ call'[d].done <= Len(recs'[d])
               /\ 0 <= call'[d].end /\ call'[d].end <= Len(recs'[d])
               /\ call'[d].at = "insert" => call'[d].done < call'[d].end
    <3>1. recs' = recs /\ (d # c => call'[d] = call[d])
      BY <2>1 DEF OnlyCall
    <3>2. call'[d].done \in Nat /\ call'[d].end \in Nat /\ call'[d].at \in Wheres
      BY <2>3
    <3>3. CASE d = c
      BY <1>1, <3>1, <3>2, <3>3, CallTypeStep
    <3>4. CASE d # c
      BY <1>0, <3>1, <3>2, <3>4 DEF TypeOK, At
    <3> QED
      BY <3>3, <3>4
  <2>5. pump' = pump /\ sharded' = sharded /\ timed' = timed /\ migrates' = migrates
        /\ postgres' = postgres /\ recs' = recs /\ over' = over /\ main' = main
        /\ next' = next /\ outdated' = outdated /\ indexing' = indexing
        /\ faults' \in 0 .. MaxFaults /\ tables \subseteq tables'
    BY <2>1 DEF OnlyCall, Grows
  <2> QED
    BY <1>0, <2>2, <2>3, <2>4, <2>5 DEF TypeInv, TypeOK, At, Wheres
<1>2. CASE Start
  <2>1. OnlyDatabase
    BY <1>2, StartFrame
  <2>2. Default \in Table /\ Today \in Table
    BY SqlWriteAssumption DEF Table
  <2>3. /\ tables' \subseteq Table /\ indexed' \cup outdated' \subseteq tables'
        /\ unindexed' \subseteq Table /\ indexing' \in BOOLEAN
        /\ main' \in {"migrate", "index", "idle", "writing", "off"}
    <3>1. CASE HandleTableMigration \/ MigrationFails
      <4>1. ToMigrate \subseteq Table
        BY <1>0, <2>2 DEF ToMigrate, TypeOK
      <4>2. PICK T \in SUBSET ToMigrate : Migrated(T)
        BY <3>1 DEF HandleTableMigration, MigrationFails
      <4>3. /\ UNCHANGED <<indexed, unindexed, indexing>>
            /\ main' \in {"migrate", "index", "idle", "writing", "off"}
        BY <3>1 DEF HandleTableMigration, MigrationFails
      <4> QED
        BY <1>0, <4>1, <4>2, <4>3 DEF TypeOK, Migrated
    <3>2. CASE StartIndex \/ StartIndexFails
      BY <1>0, <2>2, <3>2 DEF StartIndex, StartIndexFails, TypeOK, InitInv, database
    <3>3. CASE BackgroundIndex
      BY <1>0, <2>2, <3>3 DEF BackgroundIndex, TypeOK, InitInv, loop
    <3> QED
      BY <1>2, <3>1, <3>2, <3>3 DEF Start
  <2>4. pump' = pump /\ sharded' = sharded /\ timed' = timed /\ migrates' = migrates
        /\ postgres' = postgres /\ recs' = recs /\ over' = over /\ log' = log
        /\ next' = next /\ call' = call /\ db' = db /\ faults' \in 0 .. MaxFaults
    BY <2>1 DEF OnlyDatabase
  <2> QED
    BY <1>0, <2>3, <2>4 DEF TypeInv, TypeOK, At
<1>3. CASE StartWrite
  <2>1. /\ next' = next + 1 /\ next + 1 \in Call /\ main' = "writing"
        /\ UNCHANGED <<config, db, database, log, over, faults>>
    BY <1>0, <1>3, CallFacts DEF StartWrite, TypeOK
  <2>2. PICK taken \in Taken(Lengths[next + 1]) :
          /\ recs' = [recs EXCEPT ![next + 1] = taken]
          /\ Goes(next + 1, IF taken = <<>> THEN "nil" ELSE "cut")
    BY <1>3, <2>1 DEF StartWrite
  <2>3. taken \in Seq(Item)
    <3>1. Lengths[next + 1] \in Nat
      BY <2>1, SqlWriteAssumption DEF Call
    <3>2. PICK n \in 0 .. Lengths[next + 1] : taken \in [1 .. n -> {r \in Item : Wanted(r)}]
      BY <2>2 DEF Taken, BoundedSeq, SeqOf
    <3> QED
      BY <3>1, <3>2
  <2>4. /\ call' \in [Call -> [at : Wheres, done : Nat, end : Nat]]
        /\ call'[next + 1].at \in {"nil", "cut"}
        /\ call'[next + 1].done = call[next + 1].done /\ call'[next + 1].end = call[next + 1].end
        /\ \A d \in Call \ {next + 1} : call'[d] = call[d]
    BY <2>1, <2>2, MoveType DEF Wheres
  <2>5. /\ call[next + 1].done = 0 /\ call[next + 1].end = 0 /\ next \in Nat
    BY <1>0, <2>1, CallFacts DEF PartInv, TypeOK
  <2>6. recs' \in [Call -> Seq(Item)] /\ Len(taken) \in Nat
    BY <1>0, <2>1, <2>2, <2>3 DEF TypeOK
  <2>7. ASSUME NEW d \in Call
        PROVE  /\ call'[d].at \in Wheres
               /\ 0 <= call'[d].done /\ call'[d].done <= Len(recs'[d])
               /\ 0 <= call'[d].end /\ call'[d].end <= Len(recs'[d])
               /\ call'[d].at = "insert" => call'[d].done < call'[d].end
    <3>1. CASE d = next + 1
      BY <1>0, <2>1, <2>2, <2>4, <2>5, <2>6, <3>1 DEF TypeOK
    <3>2. CASE d # next + 1
      <4>1. call'[d] = call[d] /\ recs'[d] = recs[d] /\ call'[d].at \in Wheres
        BY <1>0, <2>1, <2>2, <2>4, <3>2 DEF TypeOK
      <4> QED
        BY <1>0, <4>1 DEF TypeOK, At
    <3> QED
      BY <3>1, <3>2
  <2>8. over \subseteq 1 .. next' /\ log' = log
    BY <1>0, <2>1, <2>5 DEF TypeOK
  <2> QED
    BY <1>0, <2>1, <2>4, <2>6, <2>7, <2>8 DEF TypeInv, TypeOK, At, Wheres, config, database
<1>4. CASE WriteDone \/ Deadline
  <2>1. /\ UNCHANGED <<config, db, database, recs, call, log, next, faults>>
        /\ over' \subseteq over \cup {next} /\ main' = "idle" /\ next # 0
    BY <1>4 DEF WriteDone, Deadline, InitInv
  <2>2. over' \subseteq 1 .. next
    BY <1>0, <2>1, CallFacts DEF TypeOK
  <2> QED
    BY <1>0, <2>1, <2>2 DEF TypeInv, TypeOK, At, config, database
<1>5. CASE UNCHANGED vars
  BY <1>0, <1>5 DEF vars, config, database, loop, TypeInv, TypeOK, At
<1> QED
  BY <1>1, <1>2, <1>3, <1>4, <1>5 DEF Next

-----------------------------------------------------------------------------
(* What Init left behind.                                                    *)

LEMMA CallsAfterInit ==
  ASSUME TypeInv, InitInv, PartInv, NEW c \in Call, call[c].at # "none"
  PROVE  main \notin {"migrate", "index", "off"} /\ c <= next /\ next # 0
<1>1. ~(c > next) /\ c \in Nat /\ c # 0 /\ next \in Nat
  BY CallFacts DEF PartInv, At, TypeInv, TypeOK
<1> QED
  BY <1>1 DEF InitInv

LEMMA StepsAtWork ==
  ASSUME NEW c \in Call, WriteDataStep(c)
  PROVE  Active(c) /\ call[c].at \notin {"none", "nil", "error"}
BY DEF WriteDataStep, Cut, Return, HasTable, CreateTable, CreateTableFails, EnsureIndex,
       EnsureIndexFails, Insert, At, Active, InPart

LEMMA InitInvStep ==
  ASSUME TypeInv, InitInv, PartInv, [Next]_vars
  PROVE  InitInv'
<1>0. TypeOK /\ faults \in Nat
  BY SqlWriteAssumption DEF TypeInv, TypeOK
<1> USE DEF LeftOutdated
<1>1. ASSUME NEW c \in Call, WriteDataStep(c)
      PROVE  InitInv'
  <2>1. OnlyCall(c)
    BY <1>1, CallFrame
  <2>2. main \notin {"migrate", "index", "off"} /\ next # 0
    BY <1>1, CallsAfterInit, StepsAtWork
  <2>3. ~sharded => tables' = tables
    BY <1>1
    DEF WriteDataStep, Cut, Return, HasTable, CreateTable, CreateTableFails, EnsureIndex,
        EnsureIndexFails, Insert, At, PartInv, database
  <2> QED
    BY <1>0, <2>1, <2>2, <2>3 DEF InitInv, OnlyCall, Grows
<1>2. CASE HandleTableMigration
  <2>1. /\ main = "migrate" /\ tables' = tables \cup ToMigrate /\ outdated' = outdated \ ToMigrate
        /\ main' = IF ~sharded /\ pump \in Indexes THEN "index" ELSE "idle"
        /\ UNCHANGED <<pump, sharded, timed, migrates, postgres, indexed, indexing, unindexed,
                       next, faults>>
    BY <1>2 DEF HandleTableMigration, Migrated, config
  <2>2. outdated \subseteq tables
    BY <1>0 DEF TypeOK
  <2>3. \A t \in outdated' : LeftOutdated(t)'
    BY <2>1, <2>2 DEF ToMigrate, InitInv
  <2> QED
    BY <1>0, <2>1, <2>3 DEF InitInv, ToMigrate
<1>3. CASE MigrationFails
  <2>1. PICK T \in SUBSET ToMigrate : tables' = tables \cup T
    BY <1>3 DEF MigrationFails, Migrated
  <2>2. /\ main = "migrate" /\ faults' = faults + 1
        /\ main' = IF ~sharded /\ pump # "graphAggregate" THEN "off" ELSE "idle"
        /\ UNCHANGED <<pump, sharded, timed, migrates, postgres, indexed, indexing, unindexed,
                       next>>
    BY <1>3 DEF MigrationFails, Fault, config
  <2> QED
    BY <1>0, <2>1, <2>2 DEF InitInv, ToMigrate, Indexes
<1>4. CASE StartIndex \/ StartIndexFails
  BY <1>0, <1>4
  DEF StartIndex, StartIndexFails, InitInv, config, database, Fault
<1>5. CASE BackgroundIndex
  BY <1>0, <1>5 DEF BackgroundIndex, InitInv, config, loop, Fault
<1>6. CASE StartWrite
  <2>1. next' # 0
    BY <1>0, <1>6, CallFacts DEF StartWrite, TypeOK
  <2> QED
    BY <1>0, <1>6, <2>1 DEF StartWrite, InitInv, config, database
<1>7. CASE WriteDone \/ Deadline
  BY <1>0, <1>7 DEF WriteDone, Deadline, InitInv, config, database
<1>8. CASE UNCHANGED vars
  BY <1>8 DEF vars, config, database, loop, InitInv
<1> QED
  BY <1>1, <1>2, <1>3, <1>4, <1>5, <1>6, <1>7, <1>8 DEF Next, Start

-----------------------------------------------------------------------------
(* The parts of a slice.                                                     *)

(* The steps of a call that stay in its part.                                *)
LEMMA SamePart ==
  ASSUME TypeInv, PartInv, NEW c \in Call, WriteDataStep(c), ~Cut(c), ~Insert(c)
  PROVE  /\ call'[c].done = call[c].done /\ call'[c].end = call[c].end
         /\ log' = log
         /\ PartTable(c)' = PartTable(c)
         /\ At(c, "cut") => At(c, "nil")' /\ call[c].done = Len(recs[c])
         /\ ~At(c, "cut") => InPart(c) /\ (InPart(c)' \/ At(c, "error")')
         /\ call'[c].at \in {"nil", "create", "index", "insert", "error"}
         /\ At(c, "create")' => At(c, "hasTable")
         /\ At(c, "index")' => At(c, "hasTable") \/ At(c, "create")
<1>1. PICK w \in {"nil", "create", "index", "insert", "error"} :
        /\ Goes(c, w)
        /\ At(c, "cut") => w = "nil" /\ call[c].done = Len(recs[c])
        /\ ~At(c, "cut") => InPart(c) /\ w # "nil"
        /\ w = "create" => At(c, "hasTable")
        /\ w = "index" => At(c, "hasTable") \/ At(c, "create")
  BY DEF WriteDataStep, Return, HasTable, CreateTable, CreateTableFails, EnsureIndex,
         EnsureIndexFails, AfterCreate, At, InPart
<1>2. call'[c].at = w /\ call'[c].done = call[c].done /\ call'[c].end = call[c].end
  BY <1>1, MoveType DEF Wheres
<1>3. log' = log
  BY DEF WriteDataStep, Return, HasTable, CreateTable, CreateTableFails, EnsureIndex,
         EnsureIndexFails
<1>4. PartTable(c)' = PartTable(c)
  BY <1>2, CallFrame DEF PartTable, DayOf, OnlyCall
<1> QED
  BY <1>1, <1>2, <1>3, <1>4 DEF At, InPart

(* What Cut and Insert do to their call.                                     *)
LEMMA CutFacts ==
  ASSUME TypeInv, NEW c \in Call, Cut(c)
  PROVE  /\ call[c].done < Len(recs[c])
         /\ call'[c].done = call[c].done /\ call'[c].end = PartEnd(c)
         /\ call'[c].at = IF sharded THEN "hasTable" ELSE "insert"
         /\ log' = log /\ PartTable(c)' = PartTable(c)
         /\ db' = IF sharded THEN PartTable(c) ELSE db
         /\ UNCHANGED <<tables, indexed, unindexed, faults>>
<1>1. PartEnd(c) \in Nat
  BY PartEndFacts, RecsFacts DEF Cut
<1>2. call' = [call EXCEPT ![c].end = PartEnd(c),
                           ![c].at = IF sharded THEN "hasTable" ELSE "insert"]
  BY DEF Cut
<1>3. (IF sharded THEN "hasTable" ELSE "insert") \in Wheres
  BY DEF Wheres
<1>4. /\ call'[c].done = call[c].done /\ call'[c].end = PartEnd(c)
      /\ call'[c].at = IF sharded THEN "hasTable" ELSE "insert"
  BY <1>1, <1>2, <1>3, CutType
<1>5. PartTable(c)' = PartTable(c)
  BY <1>4 DEF PartTable, DayOf, Cut, config
<1> QED
  BY <1>4, <1>5 DEF Cut, database

LEMMA InsertFacts ==
  ASSUME TypeInv, PartInv, NEW c \in Call, Insert(c)
  PROVE  /\ InPart(c) /\ call[c].done < call[c].end
         /\ BatchEnd(c) \in call[c].done + 1 .. call[c].end
         /\ call'[c].done = BatchEnd(c) /\ call'[c].end = call[c].end
         /\ UNCHANGED <<db, tables, indexed, outdated, unindexed>>
         /\ \E ok \in BOOLEAN :
              /\ ok => Target(c) \in tables \ outdated /\ c \notin over
              /\ ~ok => \/ Target(c) \notin tables \ outdated
                        \/ c \in over
                        \/ faults' = faults + 1
              /\ log'[c] = Append(log[c], [from |-> call[c].done + 1, to |-> BatchEnd(c),
                                           table |-> Target(c), ok |-> ok])
              /\ call'[c].at = IF ~ok /\ pump \in Aggregate THEN "error"
                               ELSE IF BatchEnd(c) < call[c].end THEN "insert"
                               ELSE "cut"
<1>1. InPart(c) /\ call[c].done < call[c].end
  BY DEF Insert, InPart, At, PartInv
<1>2. BatchEnd(c) \in call[c].done + 1 .. call[c].end /\ BatchEnd(c) \in Nat
  BY <1>1, BatchEndFacts, RecsFacts
<1>3. PICK ok \in BOOLEAN :
        /\ ok => Target(c) \in tables \ outdated /\ c \notin over
        /\ IF ok \/ Target(c) \notin tables \ outdated \/ c \in over THEN UNCHANGED faults ELSE Fault
        /\ log' = [log EXCEPT ![c] = Append(@, [from |-> call[c].done + 1, to |-> BatchEnd(c),
                                                table |-> Target(c), ok |-> ok])]
        /\ call' = [call EXCEPT ![c].done = BatchEnd(c),
                                ![c].at = IF ~ok /\ pump \in Aggregate THEN "error"
                                          ELSE IF BatchEnd(c) < call[c].end THEN "insert"
                                          ELSE "cut"]
  BY DEF Insert
<1> DEFINE w == IF ~ok /\ pump \in Aggregate THEN "error"
                ELSE IF BatchEnd(c) < call[c].end THEN "insert" ELSE "cut"
<1>4. w \in Wheres /\ call' = [call EXCEPT ![c].done = BatchEnd(c), ![c].at = w]
  BY <1>3 DEF Wheres
<1>5. call'[c].at = w /\ call'[c].done = BatchEnd(c) /\ call'[c].end = call[c].end
  <2> HIDE DEF w
  <2> QED
    BY <1>2, <1>4, InsertType
<1>6. log'[c] = Append(log[c], [from |-> call[c].done + 1, to |-> BatchEnd(c),
                                table |-> Target(c), ok |-> ok])
  BY <1>3 DEF TypeInv
<1>7. ~ok => \/ Target(c) \notin tables \ outdated
             \/ c \in over
             \/ faults' = faults + 1
  BY <1>3 DEF Fault
<1>8. UNCHANGED <<db, tables, indexed, outdated, unindexed>>
  BY DEF Insert, database
<1> QED
  BY <1>1, <1>2, <1>3, <1>5, <1>6, <1>7, <1>8

LEMMA StartWriteFacts ==
  ASSUME TypeInv, PartInv, StartWrite
  PROVE  /\ next' = next + 1 /\ next + 1 \in Call /\ At(next + 1, "none")
         /\ main = "idle" /\ main' = "writing"
         /\ UNCHANGED <<pump, sharded, timed, migrates, postgres, db, tables, indexed, outdated,
                        indexing, unindexed, log, over, faults>>
         /\ call'[next + 1].done = 0 /\ call'[next + 1].end = 0
         /\ call'[next + 1].at \in {"nil", "cut"}
         /\ call'[next + 1].at = "nil" => Len(recs'[next + 1]) = 0
         /\ \A d \in Call \ {next + 1} : call'[d] = call[d] /\ recs'[d] = recs[d]
<1>0. TypeOK
  BY DEF TypeInv
<1>1. next' = next + 1 /\ next + 1 \in Call /\ next \in Nat /\ next + 1 > next
  BY <1>0, CallFacts DEF StartWrite, TypeOK
<1>2. PICK taken :
        /\ recs' = [recs EXCEPT ![next + 1] = taken]
        /\ Goes(next + 1, IF taken = <<>> THEN "nil" ELSE "cut")
  BY <1>1 DEF StartWrite
<1>3. PICK w \in {"nil", "cut"} : Goes(next + 1, w) /\ (w = "nil" => taken = <<>>)
  BY <1>2
<1>4. /\ call'[next + 1].at = w /\ call'[next + 1].done = call[next + 1].done
      /\ call'[next + 1].end = call[next + 1].end
      /\ \A d \in Call \ {next + 1} : call'[d] = call[d]
  BY <1>1, <1>3, MoveType DEF Wheres
<1>5. At(next + 1, "none") /\ call[next + 1].done = 0 /\ call[next + 1].end = 0
  BY <1>1 DEF PartInv
<1>6. recs'[next + 1] = taken /\ \A d \in Call \ {next + 1} : recs'[d] = recs[d]
  BY <1>0, <1>1, <1>2 DEF TypeOK
<1>7. w = "nil" => Len(recs'[next + 1]) = 0
  BY <1>3, <1>6
<1> QED
  BY <1>1, <1>3, <1>4, <1>5, <1>6, <1>7 DEF StartWrite, config, database

(* The steps of the loop and of Init that leave the calls alone.             *)
LEMMA QuietFacts ==
  ASSUME TypeInv, Start \/ WriteDone \/ Deadline \/ UNCHANGED vars
  PROVE  /\ UNCHANGED <<pump, sharded, timed, migrates, postgres, db, recs, call, log, next>>
         /\ Grows
         /\ faults' \in {faults, faults + 1}
<1>1. CASE Start
  BY <1>1, StartFrame DEF OnlyDatabase
<1>2. CASE WriteDone \/ Deadline
  BY <1>2 DEF WriteDone, Deadline, config, database, Grows
<1>3. CASE UNCHANGED vars
  BY <1>3 DEF vars, config, database, loop, Grows
<1> QED
  BY <1>1, <1>2, <1>3

LEMMA PartInvStep ==
  ASSUME TypeInv, PartInv, [Next]_vars
  PROVE  PartInv'
<1>1. ASSUME NEW c \in Call, WriteDataStep(c)
      PROVE  PartInv'
  <2>1. OnlyCall(c)
    BY <1>1, CallFrame
  <2>2. ~sharded => db' = db
    <3>1. CASE Cut(c)
      BY <3>1, CutFacts
    <3>2. CASE ~Cut(c)
      BY <1>1, <3>2
      DEF WriteDataStep, Return, HasTable, CreateTable, CreateTableFails, EnsureIndex,
          EnsureIndexFails, Insert, At, PartInv
    <3> QED
      BY <3>1, <3>2
  <2>3. ASSUME NEW d \in Call, d # c
        PROVE  /\ d > next => At(d, "none")'
               /\ At(d, "none")' => call'[d].done = 0 /\ call'[d].end = 0
               /\ InPart(d)' => call'[d].done < call'[d].end
               /\ InPart(d)' /\ sharded =>
                    \A n \in call'[d].done + 1 .. call'[d].end : DayOf(d, n)' = PartTable(d)'
               /\ ~sharded => call'[d].at \notin {"hasTable", "create", "index"}
    <3>1. call'[d] = call[d] /\ recs' = recs /\ sharded' = sharded
      BY <2>1, <2>3 DEF OnlyCall
    <3> QED
      BY <3>1 DEF PartInv, At, InPart, DayOf, PartTable
  <2>4. ~(c > next) /\ call[c].at # "none" /\ call'[c].at # "none"
    <3>1. call[c].at # "none"
      BY <1>1, StepsAtWork
    <3>2. call'[c].at # "none"
      BY <1>1, CutFacts, InsertFacts, SamePart
    <3> QED
      BY <3>1, <3>2 DEF PartInv, At
  <2>5. /\ InPart(c)' => call'[c].done < call'[c].end
        /\ InPart(c)' /\ sharded =>
             \A n \in call'[c].done + 1 .. call'[c].end : DayOf(c, n)' = PartTable(c)'
        /\ ~sharded => call'[c].at \notin {"hasTable", "create", "index"}
    <3>0. \A n : DayOf(c, n)' = DayOf(c, n)
      BY <2>1 DEF DayOf, OnlyCall
    <3>1. CASE Cut(c)
      <4>1. /\ PartEnd(c) \in call[c].done + 1 .. Len(recs[c])
            /\ call[c].done \in Nat /\ Len(recs[c]) \in Nat
            /\ sharded => \A n \in call[c].done + 1 .. PartEnd(c) : DayOf(c, n) = PartTable(c)
        BY <3>1, CutFacts, PartEndFacts, RecsFacts
      <4> QED
        BY <3>0, <3>1, <4>1, CutFacts
    <3>2. CASE Insert(c)
      <4>1. /\ InPart(c) /\ BatchEnd(c) \in call[c].done + 1 .. call[c].end
            /\ call'[c].done = BatchEnd(c) /\ call'[c].end = call[c].end
            /\ call'[c].at \in {"insert", "cut", "error"}
            /\ call'[c].at = "insert" => BatchEnd(c) < call[c].end
            /\ call[c].done \in Nat /\ call[c].end \in Nat
        BY <3>2, InsertFacts, RecsFacts
      <4>2. InPart(c)' => BatchEnd(c) < call[c].end
        BY <4>1 DEF InPart
      <4>3. ASSUME InPart(c)', sharded, NEW n \in call'[c].done + 1 .. call'[c].end
            PROVE  DayOf(c, n)' = PartTable(c)'
        <5>1. PartTable(c)' = DayOf(c, call'[c].done + 1)
          BY <2>1, <3>0, <4>3 DEF PartTable, OnlyCall, DayOf
        <5>2. /\ n \in call[c].done + 1 .. call[c].end
              /\ call'[c].done + 1 \in call[c].done + 1 .. call[c].end
          BY <4>1, <4>2, <4>3
        <5> QED
          BY <3>0, <4>1, <4>3, <5>1, <5>2 DEF PartInv
      <4> QED
        BY <4>1, <4>2, <4>3
    <3>3. CASE ~Cut(c) /\ ~Insert(c)
      <4>1. /\ call'[c].done = call[c].done /\ call'[c].end = call[c].end
            /\ PartTable(c)' = PartTable(c)
            /\ InPart(c)' => InPart(c)
            /\ ~sharded => call'[c].at \notin {"hasTable", "create", "index"}
        <5>1. InPart(c)' => InPart(c)
          BY <1>1, <3>3, SamePart DEF At, InPart
        <5> QED
          BY <1>1, <3>3, <5>1, SamePart DEF At, PartInv
      <4> QED
        BY <3>0, <4>1 DEF PartInv
    <3> QED
      BY <3>1, <3>2, <3>3
  <2>6. sharded' = sharded /\ next' = next
    BY <2>1 DEF OnlyCall
  <2>7. ~sharded /\ Call # {} => db' = Default
    BY <2>2 DEF PartInv
  <2> QED
    BY <2>3, <2>4, <2>5, <2>6, <2>7 DEF PartInv, At
<1>2. CASE StartWrite
  <2>1. next \in Nat /\ next' = next + 1
    BY <1>2, StartWriteFacts, CallFacts DEF TypeInv, TypeOK
  <2>2. ASSUME NEW d \in Call, d # next + 1
        PROVE  call'[d] = call[d] /\ recs'[d] = recs[d]
    BY <1>2, <2>2, StartWriteFacts
  <2>3. /\ call'[next + 1].at \in {"nil", "cut"} /\ UNCHANGED <<sharded, db>>
    BY <1>2, StartWriteFacts
  <2>4. ASSUME NEW d \in Call
        PROVE  /\ d > next' => At(d, "none")'
               /\ At(d, "none")' => call'[d].done = 0 /\ call'[d].end = 0
               /\ InPart(d)' => call'[d].done < call'[d].end
               /\ InPart(d)' /\ sharded' =>
                    \A n \in call'[d].done + 1 .. call'[d].end : DayOf(d, n)' = PartTable(d)'
               /\ ~sharded' => call'[d].at \notin {"hasTable", "create", "index"}
               /\ ~sharded' => db' = Default
    <3>1. CASE d = next + 1
      BY <2>1, <2>3, <3>1, CallFacts DEF At, InPart, PartInv
    <3>2. CASE d # next + 1
      <4>1. d \in Nat
        BY CallFacts
      <4> QED
        BY <2>1, <2>2, <2>3, <3>2, <4>1 DEF PartInv, At, InPart, DayOf, PartTable
    <3> QED
      BY <3>1, <3>2
  <2> QED
    BY <2>4 DEF PartInv
<1>3. CASE Start \/ WriteDone \/ Deadline \/ UNCHANGED vars
  BY <1>3, QuietFacts DEF PartInv, At, InPart, DayOf, PartTable
<1> QED
  BY <1>1, <1>2, <1>3 DEF Next

-----------------------------------------------------------------------------
(* The history of a call.                                                    *)

NewEntry(c, ok) ==
  [from |-> call[c].done + 1, to |-> BatchEnd(c), table |-> Target(c), ok |-> ok]

(* An insert adds one entry.                                                 *)
LEMMA LogGrows ==
  ASSUME TypeInv, PartInv, NEW c \in Call, Insert(c)
  PROVE  \E ok \in BOOLEAN :
           /\ Len(log[c]) \in Nat
           /\ Len(log'[c]) = Len(log[c]) + 1
           /\ \A k \in 1 .. Len(log[c]) : log'[c][k] = log[c][k]
           /\ log'[c][Len(log[c]) + 1] = NewEntry(c, ok)
           /\ log'[c] # <<>>
           /\ ok => Target(c) \in tables \ outdated /\ c \notin over
           /\ ~ok => \/ Target(c) \notin tables \ outdated
                     \/ c \in over
                     \/ faults' = faults + 1
           /\ call'[c].at = IF ~ok /\ pump \in Aggregate THEN "error"
                            ELSE IF BatchEnd(c) < call[c].end THEN "insert"
                            ELSE "cut"
<1>1. PICK ok \in BOOLEAN :
        /\ ok => Target(c) \in tables \ outdated /\ c \notin over
        /\ ~ok => \/ Target(c) \notin tables \ outdated
                  \/ c \in over
                  \/ faults' = faults + 1
        /\ log'[c] = Append(log[c], NewEntry(c, ok))
        /\ call'[c].at = IF ~ok /\ pump \in Aggregate THEN "error"
                         ELSE IF BatchEnd(c) < call[c].end THEN "insert"
                         ELSE "cut"
  BY InsertFacts DEF NewEntry
<1>2. NewEntry(c, ok) \in Entry
  <2>1. InPart(c) /\ call[c].done < call[c].end /\ BatchEnd(c) \in call[c].done + 1 .. call[c].end
    BY InsertFacts
  <2>2. BatchEnd(c) \in Nat /\ call[c].done + 1 \in Nat /\ PartTable(c) \in Table
    BY <2>1, RecsFacts
  <2>3. Target(c) \in Table
    BY <2>2 DEF Target, TypeInv, TypeOK
  <2> QED
    BY <2>2, <2>3 DEF NewEntry, Entry
<1>3. log[c] \in Seq(Entry) /\ Len(log[c]) \in Nat
  BY DEF TypeInv
<1>4. /\ Len(log'[c]) = Len(log[c]) + 1
      /\ \A k \in 1 .. Len(log[c]) : log'[c][k] = log[c][k]
      /\ log'[c][Len(log[c]) + 1] = NewEntry(c, ok)
  <2> DEFINE x == NewEntry(c, ok)
  <2> HIDE DEF x
  <2> QED
    BY <1>1, <1>2, <1>3, AppendFacts DEF x
<1>5. log'[c] # <<>>
  BY <1>3, <1>4
<1> QED
  BY <1>1, <1>3, <1>4, <1>5

LEMMA LogInvStep ==
  ASSUME TypeInv, PartInv, LogInv, [Next]_vars
  PROVE  LogInv'
<1> DEFINE Fits(d) ==
      /\ call[d].done = IF log[d] = <<>> THEN 0 ELSE log[d][Len(log[d])].to
      /\ At(d, "none") => log[d] = <<>>
      /\ At(d, "nil") => call[d].done = Len(recs[d])
      /\ \A k \in 1 .. Len(log[d]) :
           /\ log[d][k].from = IF k = 1 THEN 1 ELSE log[d][k - 1].to + 1
           /\ log[d][k].to <= Len(recs[d])
           /\ pump \in Record => log[d][k].to - log[d][k].from < BatchSize
           /\ ~sharded => log[d][k].table = Default
<1>0. \A d \in Call : Fits(d)
  BY DEF LogInv
<1>1. ASSUME NEW c \in Call, WriteDataStep(c), NEW d \in Call
      PROVE  Fits(d)'
  <2>1. OnlyCall(c)
    BY <1>1, CallFrame
  <2>2. CASE d # c
    <3>1. call'[d] = call[d] /\ log'[d] = log[d] /\ recs' = recs /\ sharded' = sharded
          /\ pump' = pump
      BY <2>1, <2>2 DEF OnlyCall
    <3> QED
      BY <1>0, <3>1 DEF At
  <2>3. CASE d = c /\ Insert(c)
    <3>1. PICK ok \in BOOLEAN :
           /\ Len(log[c]) \in Nat
           /\ Len(log'[c]) = Len(log[c]) + 1
           /\ \A k \in 1 .. Len(log[c]) : log'[c][k] = log[c][k]
           /\ log'[c][Len(log[c]) + 1] = NewEntry(c, ok)
           /\ log'[c] # <<>>
           /\ call'[c].at \in {"error", "insert", "cut"}
      BY <2>3, LogGrows
    <3>2. /\ BatchEnd(c) \in call[c].done + 1 .. call[c].end /\ call'[c].done = BatchEnd(c)
          /\ call[c].done \in Nat /\ call[c].end \in Nat /\ call[c].end <= Len(recs[c])
          /\ Len(recs[c]) \in Nat
          /\ pump \in Record => BatchEnd(c) - (call[c].done + 1) < BatchSize
      BY <2>3, InsertFacts, RecsFacts, BatchEndFacts
    <3>3. /\ NewEntry(c, ok).from = call[c].done + 1 /\ NewEntry(c, ok).to = BatchEnd(c)
          /\ ~sharded => NewEntry(c, ok).table = Default
      BY DEF NewEntry, Target, PartTable, PartInv
    <3>4. UNCHANGED <<recs, pump, sharded>>
      BY <2>1 DEF OnlyCall
    <3>5. ASSUME NEW k \in 1 .. Len(log'[c])
          PROVE  /\ log'[c][k].from = IF k = 1 THEN 1 ELSE log'[c][k - 1].to + 1
                 /\ log'[c][k].to <= Len(recs[c])
                 /\ pump \in Record => log'[c][k].to - log'[c][k].from < BatchSize
                 /\ ~sharded => log'[c][k].table = Default
      <4>1. CASE k \in 1 .. Len(log[c])
        <5>1. k # 1 => k - 1 \in 1 .. Len(log[c])
          BY <3>1, <4>1
        <5>2. log'[c][k] = log[c][k] /\ (k # 1 => log'[c][k - 1] = log[c][k - 1])
          BY <3>1, <4>1, <5>1
        <5> QED
          BY <1>0, <4>1, <5>2
      <4>2. CASE k = Len(log[c]) + 1
        <5>1. log'[c][k] = NewEntry(c, ok)
          BY <3>1, <4>2
        <5>2. call[c].done + 1 = IF k = 1 THEN 1 ELSE log'[c][k - 1].to + 1
          <6>1. CASE log[c] = <<>>
            <7>1. Len(log[c]) = 0 /\ call[c].done = 0
              BY <1>0, <6>1
            <7> QED
              BY <4>2, <7>1
          <6>2. CASE log[c] # <<>>
            <7>1. Len(log[c]) # 0 /\ log[c] \in Seq(Entry)
              BY <6>2 DEF TypeInv
            <7>2. k # 1 /\ k - 1 = Len(log[c]) /\ log'[c][k - 1] = log[c][Len(log[c])]
              BY <3>1, <4>2, <7>1
            <7> QED
              BY <1>0, <6>2, <7>2
          <6> QED
            BY <6>1, <6>2
        <5>3. BatchEnd(c) <= Len(recs[c])
          BY <3>2
        <5> QED
          BY <3>2, <3>3, <5>1, <5>2, <5>3
      <4> QED
        BY <3>1, <4>1, <4>2
    <3>6. call'[c].done = IF log'[c] = <<>> THEN 0 ELSE log'[c][Len(log'[c])].to
      BY <3>1, <3>2, <3>3
    <3> QED
      BY <2>3, <3>1, <3>4, <3>5, <3>6 DEF At
  <2>4. CASE d = c /\ Cut(c)
    <3>1. /\ call'[c].done = call[c].done /\ log' = log /\ UNCHANGED <<recs, pump, sharded>>
          /\ call'[c].at \in {"hasTable", "insert"}
      BY <2>1, <2>4, CutFacts DEF OnlyCall
    <3> QED
      BY <1>0, <2>4, <3>1 DEF At
  <2>5. CASE d = c /\ ~Cut(c) /\ ~Insert(c)
    <3>1. /\ call'[c].done = call[c].done /\ log' = log /\ UNCHANGED <<recs, pump, sharded>>
          /\ ~At(c, "none")' /\ (At(c, "nil")' => call[c].done = Len(recs[c]))
      BY <1>1, <2>1, <2>5, SamePart DEF OnlyCall, At, InPart
    <3> QED
      BY <1>0, <2>5, <3>1 DEF At
  <2> QED
    BY <2>2, <2>3, <2>4, <2>5
<1>2. ASSUME StartWrite, NEW d \in Call
      PROVE  Fits(d)'
  <2>1. UNCHANGED <<log, pump, sharded>>
    BY <1>2, StartWriteFacts
  <2>2. CASE d = next + 1
    <3>1. /\ log'[d] = <<>> /\ call'[d].done = 0 /\ call'[d].at # "none"
          /\ call'[d].at = "nil" => Len(recs'[d]) = 0
      BY <1>0, <1>2, <2>1, <2>2, StartWriteFacts
    <3>2. 1 .. Len(log'[d]) = {}
      BY <3>1
    <3> QED
      BY <3>1, <3>2 DEF At
  <2>3. CASE d # next + 1
    <3>1. call'[d] = call[d] /\ recs'[d] = recs[d]
      BY <1>2, <2>3, StartWriteFacts
    <3> QED
      BY <1>0, <2>1, <3>1 DEF At
  <2> QED
    BY <2>2, <2>3
<1>3. ASSUME Start \/ WriteDone \/ Deadline \/ UNCHANGED vars, NEW d \in Call
      PROVE  Fits(d)'
  BY <1>0, <1>3, QuietFacts DEF At
<1>4. \A d \in Call : Fits(d)'
  BY <1>1, <1>2, <1>3 DEF Next
<1> QED
  BY <1>4 DEF LogInv

-----------------------------------------------------------------------------
(* Without a timeout.                                                        *)

LEMMA UntimedStep ==
  ASSUME TypeInv, InitInv, PartInv, UntimedInv, [Next]_vars, ~timed
  PROVE  UntimedInv'
<1>0. /\ over = {}
      /\ \A c \in Call : Active(c) => main = "writing" /\ c = next
      /\ \A c \in Call : InPart(c) =>
           /\ db = PartTable(c)
           /\ At(c, "create") => db \notin tables
           /\ At(c, "index") => PartTable(c) \in tables
           /\ At(c, "insert") => PartTable(c) \in tables \/ faults > 0
  BY DEF UntimedInv
<1>t. faults \in Nat
  BY SqlWriteAssumption DEF TypeInv, TypeOK
<1>1. ASSUME NEW c \in Call, WriteDataStep(c)
      PROVE  UntimedInv'
  <2>1. OnlyCall(c)
    BY <1>1, CallFrame
  <2>2. main = "writing" /\ c = next
    BY <1>0, <1>1, StepsAtWork
  <2>3. \A d \in Call : d # c => ~Active(d)' /\ ~InPart(d)'
    BY <1>0, <2>1, <2>2 DEF OnlyCall, Active, InPart, At
  <2>4. ASSUME InPart(c)'
        PROVE  /\ db' = PartTable(c)'
               /\ At(c, "create")' => db' \notin tables'
               /\ At(c, "index")' => PartTable(c)' \in tables'
               /\ At(c, "insert")' => PartTable(c)' \in tables' \/ faults' > 0
    <3>1. CASE Cut(c)
      <4>1. /\ db' = PartTable(c)'
            /\ call'[c].at \in {"hasTable", "insert"}
            /\ call'[c].at = "insert" => ~sharded
        BY <3>1, CutFacts DEF PartTable, PartInv
      <4>2. ~sharded => PartTable(c)' = Default /\ tables' = tables /\ faults' = faults
        BY <3>1, CutFacts DEF PartTable
      <4>3. ~sharded => Default \in tables \/ faults > 0
        BY <2>2 DEF InitInv
      <4> QED
        BY <4>1, <4>2, <4>3 DEF At
    <3>2. CASE Insert(c)
      <4>1. /\ InPart(c) /\ BatchEnd(c) \in call[c].done + 1 .. call[c].end
            /\ call'[c].done = BatchEnd(c)
            /\ call'[c].at \in {"insert", "cut", "error"}
            /\ call'[c].at = "insert" => BatchEnd(c) < call[c].end
            /\ call[c].done \in Nat /\ call[c].end \in Nat
            /\ UNCHANGED <<db, tables>>
        BY <3>2, InsertFacts, RecsFacts
      <4>2. call'[c].at = "insert" /\ BatchEnd(c) + 1 \in call[c].done + 1 .. call[c].end
        BY <2>4, <4>1 DEF InPart
      <4>3. PartTable(c)' = PartTable(c)
        BY <2>1, <4>1, <4>2 DEF PartTable, PartInv, OnlyCall, DayOf
      <4>4. At(c, "insert") /\ faults' >= faults
        BY <1>t, <2>1, <3>2 DEF Insert, OnlyCall
      <4> QED
        BY <1>0, <1>t, <4>1, <4>2, <4>3, <4>4, <2>1 DEF At, OnlyCall
    <3>3. CASE ~Cut(c) /\ ~Insert(c)
      <4>1. PartTable(c)' = PartTable(c) /\ InPart(c) /\ tables \subseteq tables'
        BY <1>1, <2>1, <2>4, <3>3, SamePart DEF InPart, At, OnlyCall, Grows
      <4>2. db = PartTable(c) /\ db' = db
        <5>1. db = PartTable(c)
          BY <1>0, <4>1
        <5>2. db' \in {db, PartTable(c)}
          BY <1>1, <3>3
          DEF WriteDataStep, Return, HasTable, CreateTable, CreateTableFails, EnsureIndex,
              EnsureIndexFails
        <5> QED
          BY <5>1, <5>2
      <4>3. call'[c].at \in {"create", "index", "insert"}
        BY <1>1, <2>4, <3>3, SamePart DEF InPart
      <4>4. CASE HasTable(c)
        <5>1. PICK w \in {"create", "index", "insert"} :
                Goes(c, w) /\ (w = "create" <=> PartTable(c) \notin tables)
          BY <4>4 DEF HasTable
        <5>2. call'[c].at = w
          BY <5>1, MoveType DEF Wheres
        <5>3. tables' = tables
          BY <4>4 DEF HasTable, database
        <5> QED
          BY <4>1, <4>2, <5>1, <5>2, <5>3 DEF At
      <4>5. CASE ~HasTable(c)
        <5>1. call'[c].at # "create"
          BY <1>1, <3>3, <4>5, MoveType
          DEF WriteDataStep, Return, CreateTable, CreateTableFails, EnsureIndex,
              EnsureIndexFails, AfterCreate, Wheres
        <5>2. CASE CreateTable(c)
          BY <4>1, <4>2, <5>1, <5>2 DEF CreateTable, At
        <5>3. CASE CreateTableFails(c)
          <6>1. db \notin tables
            BY <1>0, <4>1, <5>3 DEF CreateTableFails
          <6>2. faults' = faults + 1
            BY <5>3, <6>1 DEF CreateTableFails, Fault
          <6>3. call'[c].at # "index"
            BY <5>3, MoveType DEF CreateTableFails, Wheres
          <6> QED
            BY <1>t, <4>1, <4>2, <5>1, <6>2, <6>3 DEF At
        <5>4. CASE EnsureIndex(c)
          BY <4>1, <4>2, <4>3, <5>1, <5>4 DEF EnsureIndex, At
        <5>5. CASE EnsureIndexFails(c) \/ Return(c)
          <6>1. call'[c].at \in {"error", "nil"}
            BY <5>5, MoveType DEF EnsureIndexFails, Return, Wheres
          <6> QED
            BY <4>3, <6>1
        <5> QED
          BY <1>1, <3>3, <4>5, <5>2, <5>3, <5>4, <5>5 DEF WriteDataStep
      <4> QED
        BY <4>4, <4>5
    <3> QED
      BY <3>1, <3>2, <3>3
  <2>5. over' = {} /\ main' = "writing" /\ c = next' /\ timed' = timed
    BY <1>0, <2>1, <2>2 DEF OnlyCall
  <2> QED
    BY <2>3, <2>4, <2>5 DEF UntimedInv
<1>2. CASE StartWrite
  <2>1. \A d \in Call : d # next + 1 => ~Active(d) /\ ~InPart(d)
    BY <1>0, <1>2, StartWriteFacts DEF Active
  <2>2. \A d \in Call : d # next + 1 => ~Active(d)' /\ ~InPart(d)'
    BY <1>2, <2>1, StartWriteFacts DEF Active, InPart, At
  <2>3. /\ \A d \in Call : d = next + 1 => ~InPart(d)'
        /\ next' = next + 1 /\ main' = "writing" /\ over' = over
    BY <1>2, StartWriteFacts DEF InPart
  <2>4. ASSUME NEW d \in Call
        PROVE  /\ Active(d)' => main' = "writing" /\ d = next'
               /\ ~InPart(d)'
    BY <1>2, <2>2, <2>3, StartWriteFacts DEF InPart
  <2> QED
    BY <1>0, <2>3, <2>4 DEF UntimedInv
<1>3. CASE WriteDone
  <2>1. \A c \in Call : ~Active(c) /\ ~InPart(c)
    BY <1>0, <1>3 DEF WriteDone, Returned, Active, InPart, At
  <2>2. call' = call /\ over' = over
    BY <1>3 DEF WriteDone
  <2> QED
    BY <1>0, <2>1, <2>2 DEF UntimedInv, Active, InPart, At
<1>4. CASE Deadline
  BY <1>4 DEF Deadline
<1>5. CASE Start \/ UNCHANGED vars
  <2>1. /\ UNCHANGED <<call, recs, db, over, next, sharded>> /\ Grows
        /\ faults' \in {faults, faults + 1}
    <3>1. UNCHANGED vars => UNCHANGED over
      BY DEF vars, loop
    <3>2. Start => UNCHANGED over
      BY StartFrame DEF OnlyDatabase
    <3> QED
      BY <1>5, <3>1, <3>2, QuietFacts
  <2>2. CASE \A c \in Call : ~Active(c)
    BY <1>0, <2>1, <2>2 DEF UntimedInv, Active, InPart, At
  <2>3. CASE \E c \in Call : Active(c)
    <3>1. main = "writing"
      BY <1>0, <2>3
    <3>2. main' = main /\ tables' = tables
      BY <1>5, <3>1
      DEF Start, HandleTableMigration, MigrationFails, StartIndex, StartIndexFails,
          BackgroundIndex, loop, vars, database
    <3> QED
      BY <1>0, <1>t, <2>1, <3>2 DEF UntimedInv, Active, InPart, At, PartTable, DayOf
  <2> QED
    BY <2>2, <2>3
<1> QED
  BY <1>1, <1>2, <1>3, <1>4, <1>5 DEF Next

-----------------------------------------------------------------------------
(* Why an insert or a call failed.                                           *)

(* Without a timeout, a fault and an outdated table an insert is accepted.   *)
LEMMA InsertExplained ==
  ASSUME TypeInv, InitInv, PartInv, UntimedInv, NEW c \in Call, Insert(c), NEW ok \in BOOLEAN,
         ~ok => Target(c) \notin tables \ outdated \/ c \in over \/ faults' = faults + 1
  PROVE  ok \/ timed \/ faults' > 0 \/ LeftOutdated(Target(c))
<1>1. faults \in Nat /\ faults' \in {faults, faults + 1}
  BY CallFrame, SqlWriteAssumption DEF OnlyCall, WriteDataStep, TypeInv, TypeOK
<1>2. CASE faults = 0 /\ faults' = faults /\ ~timed /\ ~ok
  <2>1. InPart(c) /\ At(c, "insert")
    BY DEF Insert, InPart, At
  <2>2. Target(c) = PartTable(c) /\ PartTable(c) \in tables /\ over = {}
    BY <1>2, <2>1 DEF UntimedInv, Target
  <2>3. main # "migrate"
    BY <2>1, CallsAfterInit DEF At
  <2> QED
    BY <1>1, <1>2, <2>2, <2>3 DEF InitInv
<1> QED
  BY <1>1, <1>2

LEMMA ReasonInvStep ==
  ASSUME TypeInv, InitInv, PartInv, LogInv, UntimedInv, ReasonInv, [Next]_vars
  PROVE  ReasonInv'
<1> DEFINE Reason(t) == timed \/ faults > 0 \/ LeftOutdated(t)
           Explained(d) ==
             /\ \A k \in 1 .. Len(log[d]) : log[d][k].ok \/ Reason(log[d][k].table)
             /\ At(d, "error") =>
                  timed \/ faults > 0 \/ \E k \in 1 .. Len(log[d]) : LeftOutdated(log[d][k].table)
<1>0. \A d \in Call : Explained(d)
  BY DEF ReasonInv
<1>t. faults \in Nat
  BY SqlWriteAssumption DEF TypeInv, TypeOK
<1>1. ASSUME NEW c \in Call, WriteDataStep(c), NEW d \in Call
      PROVE  Explained(d)'
  <2>1. OnlyCall(c)
    BY <1>1, CallFrame
  <2>2. /\ \A t : LeftOutdated(t)' <=> LeftOutdated(t)
        /\ timed' = timed /\ (faults > 0 => faults' > 0)
    BY <1>t, <2>1 DEF LeftOutdated, OnlyCall
  <2>3. CASE log'[d] = log[d] /\ (At(d, "error")' => At(d, "error") \/ timed \/ faults' > 0)
    BY <1>0, <2>2, <2>3
  <2>4. CASE d # c
    BY <2>1, <2>3, <2>4 DEF OnlyCall, At
  <2>5. CASE d = c /\ Insert(c)
    <3>1. PICK ok \in BOOLEAN :
           /\ Len(log[c]) \in Nat
           /\ Len(log'[c]) = Len(log[c]) + 1
           /\ \A k \in 1 .. Len(log[c]) : log'[c][k] = log[c][k]
           /\ log'[c][Len(log[c]) + 1] = NewEntry(c, ok)
           /\ ~ok => Target(c) \notin tables \ outdated \/ c \in over \/ faults' = faults + 1
           /\ call'[c].at = IF ~ok /\ pump \in Aggregate THEN "error"
                            ELSE IF BatchEnd(c) < call[c].end THEN "insert"
                            ELSE "cut"
      BY <2>5, LogGrows
    <3>2. ok \/ timed \/ faults' > 0 \/ LeftOutdated(Target(c))
      BY <2>5, <3>1, InsertExplained
    <3>3. NewEntry(c, ok).ok = ok /\ NewEntry(c, ok).table = Target(c)
      BY DEF NewEntry
    <3>4. ASSUME NEW k \in 1 .. Len(log'[c])
          PROVE  log'[c][k].ok \/ Reason(log[c][k].table)'
      <4>1. CASE k \in 1 .. Len(log[c])
        BY <1>0, <2>2, <3>1, <4>1
      <4>2. CASE k = Len(log[c]) + 1
        BY <2>2, <3>1, <3>2, <3>3, <4>2
      <4> QED
        BY <3>1, <4>1, <4>2
    <3>5. At(c, "error")' => timed' \/ faults' > 0
                             \/ \E k \in 1 .. Len(log'[c]) : LeftOutdated(log[c][k].table)'
      <4>1. At(c, "error")' => ~ok
        BY <3>1 DEF At
      <4>2. Len(log[c]) + 1 \in 1 .. Len(log'[c])
        BY <3>1
      <4> QED
        BY <2>2, <3>1, <3>2, <3>3, <4>1, <4>2
    <3> QED
      BY <2>5, <3>4, <3>5
  <2>6. CASE d = c /\ Cut(c)
    BY <2>3, <2>6, CutFacts DEF At
  <2>7. CASE d = c /\ ~Cut(c) /\ ~Insert(c)
    <3>1. log' = log /\ (At(c, "error")' => InPart(c))
      BY <1>1, <2>7, SamePart DEF At
    <3>2. At(c, "error")' => timed \/ faults' > 0
      <4>1. CASE CreateTableFails(c)
        BY <1>t, <4>1 DEF CreateTableFails, Fault, UntimedInv, InPart, At
      <4>2. CASE EnsureIndexFails(c)
        BY <1>t, <4>2 DEF EnsureIndexFails, Fault, UntimedInv, InPart, At
      <4>3. CASE ~CreateTableFails(c) /\ ~EnsureIndexFails(c)
        <5>1. PICK w \in {"nil", "create", "index", "insert"} : Goes(c, w)
          BY <1>1, <2>7, <4>3
          DEF WriteDataStep, Return, HasTable, CreateTable, EnsureIndex, AfterCreate
        <5> QED
          BY <5>1, MoveType DEF At, Wheres
      <4> QED
        BY <4>1, <4>2, <4>3
    <3> QED
      BY <2>3, <2>7, <3>1, <3>2
  <2> QED
    BY <2>4, <2>5, <2>6, <2>7
<1>2. ASSUME StartWrite, NEW d \in Call
      PROVE  Explained(d)'
  <2>1. /\ UNCHANGED <<log, timed, faults, outdated, sharded, pump, migrates>>
        /\ At(d, "error")' => At(d, "error")
    BY <1>2, StartWriteFacts DEF At
  <2> QED
    BY <1>0, <2>1 DEF LeftOutdated
<1>3. ASSUME Start \/ WriteDone \/ Deadline \/ UNCHANGED vars, NEW d \in Call
      PROVE  Explained(d)'
  <2>1. /\ UNCHANGED <<log, call, timed, sharded, pump, migrates>>
        /\ faults > 0 => faults' > 0
    BY <1>3, <1>t, QuietFacts
  <2>2. CASE call[d].at = "none"
    <3>1. Len(log[d]) = 0
      BY <2>2 DEF LogInv, At
    <3> QED
      BY <2>1, <2>2, <3>1 DEF At
  <2>3. CASE call[d].at # "none"
    <3>1. main \notin {"migrate", "index", "off"}
      BY <2>3, CallsAfterInit
    <3>2. outdated' = outdated
      BY <1>3, <3>1
      DEF Start, HandleTableMigration, MigrationFails, StartIndex, StartIndexFails,
          BackgroundIndex, WriteDone, Deadline, vars, database
    <3> QED
      BY <1>0, <2>1, <3>2 DEF LeftOutdated, At
  <2> QED
    BY <2>2, <2>3
<1>4. \A d \in Call : Explained(d)'
  BY <1>1, <1>2, <1>3 DEF Next
<1> QED
  BY <1>4 DEF ReasonInv

-----------------------------------------------------------------------------
(* Where the rows went.                                                      *)

(* An aggregate pump, or one without a timeout, inserts into the table of    *)
(* the part.                                                                 *)
LEMMA TargetIsPartTable ==
  ASSUME UntimedInv, NEW c \in Call, Insert(c), pump \in Aggregate \/ ~timed
  PROVE  Target(c) = PartTable(c)
BY CallFacts DEF UntimedInv, Target, Insert, InPart, At

LEMMA TargetInvStep ==
  ASSUME TypeInv, InitInv, PartInv, LogInv, UntimedInv, TargetInv, [Next]_vars
  PROVE  TargetInv'
<1> SUFFICES ASSUME (pump \in Aggregate \/ ~timed)', NEW d \in Call, NEW k \in 1 .. Len(log'[d])
             PROVE  InTableOfItsDay(d, log[d][k])'
  BY DEF TargetInv
<1>0. /\ pump \in Aggregate \/ ~timed
      /\ UNCHANGED <<pump, timed, sharded>>
  <2>1. ASSUME NEW c \in Call, WriteDataStep(c)
        PROVE  UNCHANGED <<pump, timed, sharded>>
    BY <2>1, CallFrame DEF OnlyCall
  <2> QED
    BY <2>1, StartWriteFacts, QuietFacts DEF Next
<1>1. CASE log'[d] = log[d] /\ recs'[d] = recs[d]
  BY <1>0, <1>1 DEF TargetInv, InTableOfItsDay, DayOf
<1>2. ASSUME NEW c \in Call, WriteDataStep(c)
      PROVE  InTableOfItsDay(d, log[d][k])'
  <2>1. OnlyCall(c)
    BY <1>2, CallFrame
  <2>2. CASE d # c
    BY <1>1, <2>1, <2>2 DEF OnlyCall
  <2>3. CASE d = c /\ Insert(c)
    <3>1. PICK ok \in BOOLEAN :
           /\ Len(log[c]) \in Nat
           /\ Len(log'[c]) = Len(log[c]) + 1
           /\ \A n \in 1 .. Len(log[c]) : log'[c][n] = log[c][n]
           /\ log'[c][Len(log[c]) + 1] = NewEntry(c, ok)
      BY <2>3, LogGrows
    <3>2. recs' = recs
      BY <2>1 DEF OnlyCall
    <3>3. CASE k \in 1 .. Len(log[c])
      BY <1>0, <2>3, <3>1, <3>2, <3>3 DEF TargetInv, InTableOfItsDay, DayOf
    <3>4. CASE k = Len(log[c]) + 1
      <4>1. /\ NewEntry(c, ok).table = PartTable(c)
            /\ NewEntry(c, ok).from = call[c].done + 1
            /\ NewEntry(c, ok).to = BatchEnd(c)
        BY <1>0, <2>3, TargetIsPartTable DEF NewEntry
      <4>2. /\ BatchEnd(c) \in call[c].done + 1 .. call[c].end /\ InPart(c)
            /\ call[c].done \in Nat /\ call[c].end \in Nat
        BY <2>3, InsertFacts, RecsFacts
      <4>3. ASSUME NEW n \in call[c].done + 1 .. BatchEnd(c)
            PROVE  PartTable(c) = IF sharded THEN DayOf(c, n) ELSE Default
        <5>1. n \in call[c].done + 1 .. call[c].end
          BY <4>2
        <5> QED
          BY <4>2, <5>1 DEF PartInv, PartTable
      <4>4. log'[d][k] = NewEntry(c, ok)
        BY <2>3, <3>1, <3>4
      <4> QED
        BY <1>0, <2>3, <3>2, <4>1, <4>3, <4>4 DEF InTableOfItsDay, DayOf
    <3> QED
      BY <2>3, <3>1, <3>3, <3>4
  <2>4. CASE d = c /\ ~Insert(c)
    <3>1. log' = log
      BY <1>2, <2>4, CutFacts, SamePart
    <3>2. recs' = recs
      BY <2>1 DEF OnlyCall
    <3> QED
      BY <1>1, <3>1, <3>2
  <2> QED
    BY <2>2, <2>3, <2>4
<1>3. CASE StartWrite
  <2>1. d # next + 1
    <3>1. Len(log[next + 1]) = 0 /\ log' = log
      BY <1>3, StartWriteFacts DEF LogInv
    <3> QED
      BY <3>1
  <2> QED
    BY <1>1, <1>3, <2>1, StartWriteFacts
<1>4. CASE Start \/ WriteDone \/ Deadline \/ UNCHANGED vars
  BY <1>1, <1>4, QuietFacts
<1> QED
  BY <1>2, <1>3, <1>4 DEF Next

-----------------------------------------------------------------------------
(* Indexes.                                                                  *)

LEMMA ConfigFacts ==
  ASSUME TypeInv, PartInv, [Next]_vars
  PROVE  UNCHANGED <<pump, sharded, timed, migrates>> /\ Grows
<1>1. ASSUME NEW c \in Call, WriteDataStep(c)
      PROVE  UNCHANGED <<pump, sharded, timed, migrates>> /\ Grows
  BY <1>1, CallFrame DEF OnlyCall
<1>2. CASE StartWrite
  BY <1>2, StartWriteFacts DEF Grows
<1>3. CASE Start \/ WriteDone \/ Deadline \/ UNCHANGED vars
  BY <1>3, QuietFacts
<1> QED
  BY <1>1, <1>2, <1>3 DEF Next

(* A table that may be used stays so: when the goroutine that creates the    *)
(* index ends, the index is there or is known not to be.                     *)
LEMMA ReadyStays ==
  ASSUME TypeInv, PartInv, [Next]_vars, NEW t, Ready(t)
  PROVE  Ready(t)'
<1>1. UNCHANGED <<pump, sharded, timed, migrates>> /\ Grows
  BY ConfigFacts
<1>2. CASE indexing /\ t = Default
  <2>1. indexing' \/ Default \in indexed' \cup unindexed'
    <3>1. ASSUME NEW c \in Call, WriteDataStep(c)
          PROVE  indexing' = indexing
      BY <3>1, CallFrame DEF OnlyCall
    <3>2. CASE BackgroundIndex
      BY <3>2 DEF BackgroundIndex
    <3>3. CASE Start /\ ~BackgroundIndex
      BY <1>2, <3>3
      DEF Start, HandleTableMigration, MigrationFails, StartIndex, StartIndexFails, database
    <3>4. CASE WriteDone \/ Deadline \/ UNCHANGED vars
      BY <1>2, <3>4 DEF WriteDone, Deadline, vars, database
    <3>5. CASE StartWrite
      BY <1>2, <3>5, StartWriteFacts
    <3> QED
      BY <1>2, <3>1, <3>2, <3>3, <3>4, <3>5 DEF Next
  <2> QED
    BY <1>1, <1>2, <2>1 DEF Ready, Exempt, Grows
<1> QED
  BY <1>1, <1>2 DEF Ready, Exempt, Grows

(* The tables of the sql pump without a timeout.                             *)
Covered(t) == Ready(t) \/ \E c \in Call : At(c, "index") /\ PartTable(c) = t

LEMMA CoveredStep ==
  ASSUME TypeInv, InitInv, PartInv, UntimedInv, [Next]_vars, pump = "sql", ~timed,
         \A t \in tables : Covered(t), NEW t \in tables'
  PROVE  Covered(t)'
<1>1. CASE t \in tables /\ Ready(t)
  BY <1>1, ReadyStays DEF Covered
<1>2. ASSUME NEW c \in Call, WriteDataStep(c)
      PROVE  Covered(t)'
  <2>1. CASE CreateTable(c) /\ t = db
    <3>1. call'[c].at = "index" /\ ~Cut(c) /\ ~Insert(c)
      <4>1. Goes(c, "index")
        BY <2>1 DEF CreateTable, AfterCreate, Ensures
      <4> QED
        BY <2>1, <4>1, MoveType DEF Wheres, CreateTable, Cut, Insert, At
    <3>2. PartTable(c)' = PartTable(c) /\ db = PartTable(c)
      BY <1>2, <2>1, <3>1, SamePart DEF UntimedInv, CreateTable, InPart, At
    <3> QED
      BY <2>1, <3>1, <3>2 DEF Covered, At
  <2>2. CASE ~(CreateTable(c) /\ t = db)
    <3>1. t \in tables
      BY <1>2, <2>2
      DEF WriteDataStep, Cut, Return, HasTable, CreateTable, CreateTableFails, EnsureIndex,
          EnsureIndexFails, Insert, database
    <3>2. CASE ~Ready(t)
      <4>1. PICK d \in Call : At(d, "index") /\ PartTable(d) = t
        BY <3>1, <3>2 DEF Covered
      <4>2. d = c
        BY <1>2, <4>1, StepsAtWork DEF UntimedInv, Active, InPart, At
      <4>3. CASE EnsureIndex(c) \/ EnsureIndexFails(c)
        BY <4>1, <4>2, <4>3 DEF EnsureIndex, EnsureIndexFails, Covered, Ready
      <4> QED
        BY <1>2, <4>1, <4>2, <4>3
        DEF WriteDataStep, Cut, Return, HasTable, CreateTable, CreateTableFails, Insert, At
    <3> QED
      BY <1>1, <3>1, <3>2
  <2> QED
    BY <2>1, <2>2
<1>3. CASE HandleTableMigration \/ MigrationFails
  <2>1. /\ main = "migrate" /\ tables' \subseteq tables \cup ToMigrate /\ indexed = tables
        /\ UNCHANGED <<pump, sharded, migrates>>
    BY <1>3 DEF HandleTableMigration, MigrationFails, Migrated, InitInv, config
  <2>2. t \in tables \/ Exempt(t)
    BY <2>1 DEF ToMigrate, Exempt, InitInv
  <2>3. Ready(t)
    BY <2>1, <2>2 DEF Ready
  <2> QED
    BY <2>3, ReadyStays DEF Covered
<1>4. CASE StartIndex \/ StartIndexFails \/ BackgroundIndex \/ StartWrite \/ WriteDone \/ Deadline
           \/ UNCHANGED vars
  <2>1. t \in tables
    BY <1>4
    DEF StartIndex, StartIndexFails, BackgroundIndex, StartWrite, WriteDone, Deadline, vars,
        database
  <2>2. CASE ~Ready(t)
    <3>1. PICK d \in Call : At(d, "index") /\ PartTable(d) = t
      BY <2>1, <2>2 DEF Covered
    <3>2. call'[d] = call[d] /\ recs'[d] = recs[d] /\ sharded' = sharded
      <4>1. CASE StartWrite
        <5>1. d # next + 1
          BY <3>1, <4>1, StartWriteFacts DEF At
        <5> QED
          BY <4>1, <5>1, StartWriteFacts
      <4>2. CASE ~StartWrite
        BY <1>4, <4>2, QuietFacts DEF Start
      <4> QED
        BY <4>1, <4>2
    <3> QED
      BY <3>1, <3>2 DEF Covered, At, PartTable, DayOf
  <2> QED
    BY <1>1, <2>1, <2>2
<1> QED
  BY <1>2, <1>3, <1>4 DEF Next, Start

(* An aggregate pump inserts into tables that are ready.                     *)
LEMMA AggregateStep ==
  ASSUME TypeInv, InitInv, PartInv, [Next]_vars, pump = "sqlAggregate",
         \A c \in Call : At(c, "insert") => Ready(PartTable(c)),
         NEW d \in Call, At(d, "insert")'
  PROVE  Ready(PartTable(d))'
<1>1. CASE At(d, "insert") /\ PartTable(d)' = PartTable(d)
  <2> DEFINE t == PartTable(d)
  <2>1. Ready(t)
    BY <1>1
  <2>2. \A u : Ready(u) => Ready(u)'
    BY ReadyStays
  <2> QED
    BY <1>1, <2>1, <2>2
<1>2. ASSUME NEW c \in Call, WriteDataStep(c)
      PROVE  Ready(PartTable(d))'
  <2>1. OnlyCall(c)
    BY <1>2, CallFrame
  <2>2. CASE d # c
    BY <1>1, <2>1, <2>2 DEF OnlyCall, At, PartTable, DayOf
  <2>3. CASE d = c /\ Cut(c)
    <3>1. ~sharded /\ PartTable(c)' = Default
      BY <2>1, <2>3, CutFacts DEF At, PartTable, OnlyCall
    <3>2. main \in {"idle", "writing"}
      BY <2>3, CallsAfterInit DEF Cut, At, TypeInv, TypeOK
    <3>3. Ready(Default)
      BY <3>1, <3>2 DEF InitInv, Indexes, Ready
    <3>4. \A u : Ready(u) => Ready(u)'
      BY ReadyStays
    <3> QED
      BY <2>3, <3>1, <3>3, <3>4
  <2>4. CASE d = c /\ Insert(c)
    <3>1. BatchEnd(c) = call[c].end
      BY <2>4, InsertFacts, BatchEndFacts DEF Aggregate
    <3>2. ~(BatchEnd(c) < call[c].end)
      BY <3>1, RecsFacts
    <3>3. call'[c].at \in {"error", "cut"}
      BY <2>4, <3>2, InsertFacts
    <3> QED
      BY <2>4, <3>3 DEF At
  <2>5. CASE d = c /\ EnsureIndex(c)
    <3>1. PartTable(c)' = PartTable(c) /\ indexed' = indexed \cup {PartTable(c)}
      BY <1>2, <2>5, SamePart DEF EnsureIndex, Cut, Insert, At
    <3> QED
      BY <2>5, <3>1 DEF Ready
  <2>6. CASE d = c /\ ~Cut(c) /\ ~Insert(c) /\ ~EnsureIndex(c)
    <3>1. PICK w \in {"nil", "create", "index", "error"} : Goes(c, w)
      BY <1>2, <2>6
      DEF WriteDataStep, Return, HasTable, CreateTable, CreateTableFails, EnsureIndexFails,
          AfterCreate, Ensures
    <3>2. call'[c].at = w
      BY <3>1, MoveType DEF Wheres
    <3> QED
      BY <2>6, <3>1, <3>2 DEF At
  <2> QED
    BY <2>2, <2>3, <2>4, <2>5, <2>6
<1>3. CASE StartWrite
  BY <1>1, <1>3, StartWriteFacts DEF At, PartTable, DayOf
<1>4. CASE Start \/ WriteDone \/ Deadline \/ UNCHANGED vars
  BY <1>1, <1>4, QuietFacts DEF At, PartTable, DayOf
<1> QED
  BY <1>2, <1>3, <1>4 DEF Next

LEMMA IndexInvStep ==
  ASSUME TypeInv, InitInv, PartInv, LogInv, UntimedInv, IndexInv, [Next]_vars
  PROVE  IndexInv'
<1>0. UNCHANGED <<pump, timed>>
  BY ConfigFacts
<1>1. (pump = "sql" /\ ~timed => \A t \in tables : Covered(t))'
  BY <1>0, CoveredStep DEF IndexInv, Covered
<1>2. (pump = "sqlAggregate" => \A c \in Call : At(c, "insert") => Ready(PartTable(c)))'
  BY <1>0, AggregateStep DEF IndexInv
<1>3. ASSUME pump = "sqlAggregate" \/ (pump = "sql" /\ ~timed),
             NEW d \in Call, NEW k \in 1 .. Len(log'[d]), log'[d][k].ok
      PROVE  Ready(log[d][k].table)'
  <2>0. \A t : Ready(t) => Ready(t)'
    BY ReadyStays
  <2>1. CASE k \in 1 .. Len(log[d]) /\ log'[d][k] = log[d][k]
    <3>1. Ready(log[d][k].table)
      BY <1>3, <2>1 DEF IndexInv
    <3> QED
      BY <2>0, <2>1, <3>1
  <2>2. ASSUME NEW c \in Call, WriteDataStep(c)
        PROVE  Ready(log[d][k].table)'
    <3>1. CASE d # c
      BY <2>1, <2>2, <3>1, CallFrame DEF OnlyCall
    <3>2. CASE d = c /\ Insert(c)
      <4>1. PICK ok \in BOOLEAN :
             /\ Len(log[c]) \in Nat
             /\ Len(log'[c]) = Len(log[c]) + 1
             /\ \A n \in 1 .. Len(log[c]) : log'[c][n] = log[c][n]
             /\ log'[c][Len(log[c]) + 1] = NewEntry(c, ok)
             /\ ok => Target(c) \in tables \ outdated /\ c \notin over
        BY <3>2, LogGrows
      <4>2. CASE k = Len(log[c]) + 1
        <5>1. log'[d][k].table = Target(c) /\ Target(c) \in tables
          BY <1>3, <3>2, <4>1, <4>2 DEF NewEntry
        <5>2. Target(c) = PartTable(c) /\ At(c, "insert")
          BY <1>3, <3>2, TargetIsPartTable, CallFacts DEF Insert
        <5>3. Ready(PartTable(c))
          <6>1. CASE pump = "sqlAggregate"
            BY <5>2, <6>1 DEF IndexInv
          <6>2. CASE pump = "sql" /\ ~timed
            BY <5>1, <5>2, <6>2 DEF IndexInv, UntimedInv, Active, InPart, At
          <6> QED
            BY <1>3, <6>1, <6>2
        <5> QED
          BY <2>0, <5>1, <5>2, <5>3
      <4> QED
        BY <2>1, <3>2, <4>1, <4>2
    <3>3. CASE d = c /\ ~Insert(c)
      <4>1. log' = log
        BY <2>2, <3>3, CutFacts, SamePart
      <4> QED
        BY <2>1, <4>1
    <3> QED
      BY <3>1, <3>2, <3>3
  <2>3. CASE ~(\E c \in Call : WriteDataStep(c))
    <3>1. log' = log
      BY <2>3, StartWriteFacts, QuietFacts DEF Next
    <3> QED
      BY <2>1, <3>1
  <2> QED
    BY <2>2, <2>3
<1> QED
  BY <1>0, <1>1, <1>2, <1>3 DEF IndexInv, Covered

LEMMA UntimedKept ==
  ASSUME TypeInv, InitInv, PartInv, UntimedInv, [Next]_vars
  PROVE  UntimedInv'
<1>1. CASE timed
  BY <1>1, ConfigFacts DEF UntimedInv
<1> QED
  BY <1>1, UntimedStep

-----------------------------------------------------------------------------
(* The theorems.                                                             *)

LEMMA InitEstablishes ==
  ASSUME Init
  PROVE  IInv
<1>1. /\ \A c \in Call : call[c].at = "none" /\ call[c].done = 0 /\ call[c].end = 0
      /\ \A c \in Call : log[c] = <<>> /\ recs[c] = <<>> /\ Len(log[c]) = 0 /\ Len(recs[c]) = 0
      /\ call \in [Call -> [at : Wheres, done : Nat, end : Nat]]
      /\ log \in [Call -> Seq(Entry)] /\ recs \in [Call -> Seq(Item)]
  BY DEF Init, Wheres
<1>2. TypeInv
  <2>1. /\ pump \in Record \cup Aggregate /\ sharded \in BOOLEAN /\ timed \in BOOLEAN
        /\ migrates \in BOOLEAN /\ postgres \in BOOLEAN /\ indexing \in BOOLEAN
        /\ db \in Table
    BY DEF Init, Table
  <2>2. indexed \cup outdated \subseteq tables /\ tables \subseteq Table /\ unindexed \subseteq Table
    <3>1. tables \subseteq Table
      BY SqlWriteAssumption DEF Init, Table
    <3> QED
      BY <3>1 DEF Init
  <2>3. over \subseteq 1 .. next /\ next \in Call \cup {0} /\ faults \in 0 .. MaxFaults
    BY SqlWriteAssumption DEF Init
  <2>4. main \in {"migrate", "index", "idle", "writing", "off"}
    BY DEF Init
  <2> QED
    BY <1>1, <2>1, <2>2, <2>3, <2>4 DEF TypeInv, TypeOK, At
<1>3. InitInv
  BY DEF Init, InitInv
<1>4. PartInv
  BY <1>1 DEF Init, PartInv, At, InPart
<1>5. LogInv /\ UntimedInv /\ ReasonInv /\ TargetInv
  BY <1>1 DEF Init, LogInv, UntimedInv, ReasonInv, TargetInv, At, Active, InPart
<1>6. IndexInv
  BY <1>1 DEF Init, IndexInv, Ready, At
<1> QED
  BY <1>2, <1>3, <1>4, <1>5, <1>6 DEF IInv

(* The invariant of the SQL pumps: what Init leaves of tables, schemas and   *)
(* indexes, where each call is in its slice, what it inserted so far and     *)
(* why it failed, and, without a timeout, that the handle of the pump is at  *)
(* the table of the one call that runs.                                      *)
THEOREM Inductive == Spec => []IInv
<1>1. IInv /\ [Next]_vars => IInv'
  BY TypeStep, InitInvStep, PartInvStep, LogInvStep, UntimedStep, ReasonInvStep, TargetInvStep,
     IndexInvStep, UntimedKept DEF IInv
<1> QED
  BY <1>1, InitEstablishes, PTL DEF Spec

(* The variables of Init and WriteData keep their types: a table with        *)
(* indexes or an old schema exists, a call is inside its slice, and the      *)
(* handle is at a day's table or the default one.                            *)
THEOREM Typed == Spec => []TypeOK
<1>1. IInv => TypeOK
  BY DEF IInv, TypeInv
<1> QED
  BY <1>1, Inductive, PTL

LEMMA InsertsOf ==
  ASSUME TypeInv, NEW c \in Call
  PROVE  /\ DOMAIN log[c] = 1 .. Len(log[c]) /\ Len(log[c]) \in Nat
         /\ \A i \in Inserts(c) : \E k \in 1 .. Len(log[c]) : i = log[c][k]
         /\ \A k \in 1 .. Len(log[c]) : log[c][k] \in Inserts(c)
BY DEF TypeInv, Inserts, ToSet

(* WriteData of sharded pumps puts every batch into the table of the day of  *)
(* all its records: always for the aggregate pumps, which name the table in  *)
(* the statement, and for the pumps for records, which insert through the    *)
(* shared handle, if they have no timeout.                                   *)
THEOREM RowsInTheirTable == Spec => []RightTable
<1>1. IInv => RightTable
  BY InsertsOf DEF IInv, TargetInv, RightTable
<1> QED
  BY <1>1, Inductive, PTL

(* The batches of a slice follow each other without gap or overlap, none is  *)
(* longer than batch_size, a WriteData that returns nil has gone through the *)
(* whole slice, and one that fails has a reason that is not its own: a       *)
(* refused statement, a call that timed out, a table that Init was not to    *)
(* migrate.                                                                  *)
THEOREM WholeSlice == Spec => []EachRecordOnce
<1>1. ASSUME IInv
      PROVE  EachRecordOnce
  <2> USE <1>1 DEF IInv
  <2>1. ASSUME NEW c \in Call, NEW k \in DOMAIN log[c]
        PROVE  /\ log[c][k].from = IF k = 1 THEN 1 ELSE log[c][k - 1].to + 1
               /\ pump \in Record => log[c][k].to - log[c][k].from < BatchSize
               /\ log[c][k].ok \/ timed \/ faults > 0 \/ LeftOutdated(log[c][k].table)
    BY <2>1, InsertsOf DEF LogInv, ReasonInv
  <2>2. ASSUME NEW c \in Call, At(c, "nil"), recs[c] # <<>>
        PROVE  log[c] # <<>> /\ Last(log[c]).to = Len(recs[c])
    <3>1. recs[c] \in Seq(Item) /\ Len(recs[c]) # 0
      BY <2>2 DEF TypeInv, TypeOK
    <3> QED
      BY <2>2, <3>1 DEF LogInv, Last
  <2>3. ASSUME NEW c \in Call, At(c, "error")
        PROVE  timed \/ faults > 0 \/ \E i \in Inserts(c) : LeftOutdated(i.table)
    BY <2>3, InsertsOf DEF ReasonInv
  <2> QED
    BY <2>1, <2>2, <2>3 DEF EachRecordOnce, TypeInv
<1> QED
  BY <1>1, Inductive, PTL

(* The sql pump without a timeout and the sql aggregate pump put no row into *)
(* a table before ensureIndex, or the goroutine of Init, made its indexes or *)
(* failed to, but for the table that the sql pump's Init migrates.           *)
THEOREM RowsAfterIndexes == Spec => []IndexedBeforeUse
<1>1. ASSUME IInv
      PROVE  IndexedBeforeUse
  BY <1>1, InsertsOf DEF IInv, IndexInv, IndexedBeforeUse, Ready, Exempt
<1> QED
  BY <1>1, Inductive, PTL
=============================================================================
