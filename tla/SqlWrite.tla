------------------------------ MODULE SqlWrite ------------------------------
(***************************************************************************)
(* Init and WriteData of the SQL pumps: sql, graph_sql and mcp_sql, which  *)
(* insert records, and the three aggregate pumps, which upsert counters.   *)
(* With table_sharding a slice is cut where the day changes and each part  *)
(* goes to the table of its day, which is created on the way.              *)
(*                                                                         *)
(* Init brings tables of an earlier version to the present schema; before  *)
(* that a table refuses the rows of this one.                              *)
(*                                                                         *)
(* The pump keeps the database handle, with the current table in it, in a  *)
(* field.  The pumps for records insert through that field; the aggregate  *)
(* pumps name the table in each statement.  A call that timed out goes on  *)
(* next to the following ones and shares the field with them.              *)
(*                                                                         *)
(* The counters of a part are one upsert here, whatever batches of         *)
(* dimensions it is sent in.                                               *)
(***************************************************************************)
EXTENDS Integers, Sequences, SequencesExt, FiniteSetsExt

CONSTANTS
  Day,         \* the days of the records
  Today,       \* the day of Init
  Old,         \* days that may have a table already
  Default,     \* the table used without sharding
  Item,        \* records [class, day]
  Lengths,     \* bound: Lengths[c] is the longest slice of call c
  BatchSize,   \* batch_size
  MaxFaults    \* bound: statements the database refuses

ASSUME SqlWriteAssumption ==
  /\ Default \notin Day
  /\ Today \in Day /\ Old \subseteq Day
  /\ Item \subseteq [class : {"nil", "rest", "graph", "mcp"}, day : Day]
  /\ Lengths \in Seq(Nat)
  /\ BatchSize \in Nat \ {0}
  /\ MaxFaults \in Nat

Record    == {"sql", "graph", "mcp"}
Aggregate == {"sqlAggregate", "graphAggregate", "mcpAggregate"}
Indexes   == {"sqlAggregate", "mcpAggregate"}
Call      == DOMAIN Lengths
Table     == Day \cup {Default}

VARIABLES
  pump,      \* which of the six pumps
  sharded,   \* table_sharding
  timed,     \* whether the pump has a timeout
  migrates,  \* migrate_sharded_tables
  postgres,  \* the indexes of an aggregate pump are created in the background
  db,        \* the table of the handle in the pump
  tables,    \* the tables of the database
  indexed,   \* those that have their indexes
  outdated,  \* those that have the schema of an earlier version
  indexing,  \* the indexes of the default table are being created
  recs,      \* recs[c]: the records call c is to write
  call,      \* call[c]: where call c is
  log,       \* history: the inserts of call c
  unindexed, \* history: tables whose indexes could not be created
  over,      \* the calls whose context is over
  main,      \* what Init and the purge loop do; "off" is a pump that is not used
  next,      \* the call it waits for
  faults     \* statements refused

config   == <<pump, sharded, timed, migrates, postgres>>
database == <<tables, indexed, outdated, indexing, unindexed>>
loop     == <<over, main, next>>
vars     == <<config, db, database, recs, call, log, loop, faults>>

Init ==
  /\ pump \in Record \cup Aggregate
  /\ sharded \in BOOLEAN
  /\ timed \in BOOLEAN
  /\ migrates \in IF sharded THEN BOOLEAN ELSE {FALSE}
  /\ postgres \in IF sharded \/ pump \notin Indexes THEN {FALSE} ELSE BOOLEAN
  /\ db = Default
  /\ tables \in IF sharded THEN SUBSET Old ELSE SUBSET {Default}
  /\ indexed = tables
  /\ outdated \in {{}, tables}
  /\ indexing = FALSE
  /\ recs = [c \in Call |-> <<>>]
  /\ call = [c \in Call |-> [at |-> "none", done |-> 0, end |-> 0]]
  /\ log = [c \in Call |-> <<>>]
  /\ unindexed = {}
  /\ over = {}
  /\ main = "migrate"
  /\ next = 0
  /\ faults = 0

At(c, where)   == call[c].at = where
Goes(c, where) == call' = [call EXCEPT ![c].at = where]
Fault          == faults < MaxFaults /\ faults' = faults + 1

-----------------------------------------------------------------------------
(* Init.                                                                    *)

(* The tables that AutoMigrate is called for: all there are, or the one of  *)
(* the day, or, by the graph aggregate pump, none.                          *)
ToMigrate ==
  IF ~sharded THEN {Default}
  ELSE IF pump = "graphAggregate" THEN {}
  ELSE IF migrates THEN tables ELSE {Today}

Migrated(T) ==
  /\ tables' = tables \cup T
  /\ outdated' = outdated \ T

HandleTableMigration ==
  /\ main = "migrate"
  /\ Migrated(ToMigrate)
  /\ main' = IF ~sharded /\ pump \in Indexes THEN "index" ELSE "idle"
  /\ UNCHANGED <<config, db, indexed, indexing, unindexed, recs, call, log, over, next, faults>>

(* Only an error about the one table without sharding ends Init; the other  *)
(* tables are tried, whichever failed.                                      *)
MigrationFails ==
  /\ main = "migrate" /\ Fault
  /\ \E T \in SUBSET ToMigrate \ {ToMigrate} : Migrated(T)
  /\ main' = IF ~sharded /\ pump # "graphAggregate" THEN "off" ELSE "idle"
  /\ UNCHANGED <<config, db, indexed, indexing, unindexed, recs, call, log, over, next>>

(* The table is there by now; its index is created here or by a goroutine.  *)
StartIndex ==
  /\ main = "index"
  /\ IF postgres /\ Default \notin indexed
     THEN indexing' = TRUE /\ UNCHANGED indexed
     ELSE indexed' = indexed \cup {Default} /\ UNCHANGED indexing
  /\ main' = "idle"
  /\ UNCHANGED <<config, db, tables, outdated, unindexed, recs, call, log, over, next, faults>>

StartIndexFails ==
  /\ main = "index" /\ ~postgres /\ Default \notin indexed /\ Fault
  /\ main' = "off"
  /\ UNCHANGED <<config, db, database, recs, call, log, over, next>>

BackgroundIndex ==
  /\ indexing
  /\ indexing' = FALSE
  /\ \/ indexed' = indexed \cup {Default} /\ UNCHANGED <<unindexed, faults>>
     \/ unindexed' = unindexed \cup {Default} /\ Fault /\ UNCHANGED indexed
  /\ UNCHANGED <<config, db, tables, outdated, recs, call, log, loop>>

-----------------------------------------------------------------------------
(* The purge loop.                                                          *)

(* The records a pump takes out of a slice; the others leave no trace.  The *)
(* aggregate pumps choose among the records of a part only when they count  *)
(* them.  They assert the type of every value: a slice with a nil ends the  *)
(* process and is not given to them here.                                   *)
Wanted(r) ==
  CASE pump = "sql"   -> r.class \notin {"nil", "mcp"}
    [] pump = "graph" -> r.class = "graph"
    [] pump = "mcp"   -> r.class = "mcp"
    [] OTHER          -> r.class # "nil"

Taken(n) == BoundedSeq({r \in Item : Wanted(r)}, n)

StartWrite ==
  /\ main = "idle" /\ next < Len(Lengths)
  /\ next' = next + 1
  /\ main' = "writing"
  /\ \E taken \in Taken(Lengths[next']) :
       /\ recs' = [recs EXCEPT ![next'] = taken]
       /\ Goes(next', IF taken = <<>> THEN "nil" ELSE "cut")
  /\ UNCHANGED <<config, db, database, log, over, faults>>

Returned(c) == call[c].at \in {"nil", "error"}

WriteDone ==
  /\ main = "writing" /\ Returned(next)
  /\ main' = "idle"
  /\ UNCHANGED <<config, db, database, recs, call, log, over, next, faults>>

Deadline ==
  /\ timed /\ main = "writing"
  /\ over' = over \cup {next}
  /\ main' = "idle"
  /\ UNCHANGED <<config, db, database, recs, call, log, next, faults>>

-----------------------------------------------------------------------------
(* WriteData of call c.                                                     *)

DayOf(c, n) == recs[c][n].day

(* The last record of the part that begins after the records done.          *)
PartEnd(c) ==
  IF sharded THEN Min({n \in call[c].done + 1 .. Len(recs[c]) :
                         n = Len(recs[c]) \/ DayOf(c, n + 1) # DayOf(c, call[c].done + 1)})
  ELSE Len(recs[c])

PartTable(c) == IF sharded THEN DayOf(c, call[c].done + 1) ELSE Default

Cut(c) ==
  /\ At(c, "cut") /\ call[c].done < Len(recs[c])
  /\ call' = [call EXCEPT ![c].end = PartEnd(c),
                          ![c].at = IF sharded THEN "hasTable" ELSE "insert"]
  /\ db' = IF sharded THEN PartTable(c) ELSE db
  /\ UNCHANGED <<config, database, recs, log, loop, faults>>

Return(c) ==
  /\ At(c, "cut") /\ call[c].done = Len(recs[c])
  /\ Goes(c, "nil")
  /\ UNCHANGED <<config, db, database, recs, log, loop, faults>>

(* The pumps that use ensureTable, stop at its errors and create indexes.   *)
Ensures == pump \in {"sql", "sqlAggregate"}

HasTable(c) ==
  /\ At(c, "hasTable")
  /\ IF PartTable(c) \in tables
     THEN /\ Goes(c, IF pump = "sqlAggregate" THEN "index" ELSE "insert")
          /\ UNCHANGED db
     ELSE /\ Goes(c, "create")
          /\ db' = IF Ensures THEN PartTable(c) ELSE db
  /\ UNCHANGED <<config, database, recs, log, loop, faults>>

(* Mistake: the indexes of a new table are left for later.                  *)
AfterCreateUnindexed == "insert"

AfterCreate == IF Ensures THEN "index" ELSE "insert"

(* The table of the handle is created.                                      *)
CreateTable(c) ==
  /\ At(c, "create") /\ db \notin tables
  /\ tables' = tables \cup {db}
  /\ Goes(c, AfterCreate)
  /\ UNCHANGED <<config, db, indexed, outdated, indexing, unindexed, recs, log, loop, faults>>

(* Creation fails, also because the table exists by now; AutoMigrate of     *)
(* the graph and MCP pumps looks again before it creates.                   *)
CreateTableFails(c) ==
  /\ At(c, "create")
  /\ Fault \/ (db \in tables /\ UNCHANGED faults)
  /\ Goes(c, IF Ensures THEN "error" ELSE "insert")
  /\ UNCHANGED <<config, db, database, recs, log, loop>>

EnsureIndex(c) ==
  /\ At(c, "index") /\ PartTable(c) \in tables
  /\ indexed' = indexed \cup {PartTable(c)}
  /\ Goes(c, "insert")
  /\ UNCHANGED <<config, db, tables, outdated, indexing, unindexed, recs, log, loop, faults>>

EnsureIndexFails(c) ==
  /\ At(c, "index")
  /\ \/ PartTable(c) \notin indexed /\ Fault
     \/ PartTable(c) \notin tables /\ UNCHANGED faults
  /\ unindexed' = unindexed \cup {PartTable(c)}
  /\ Goes(c, "error")
  /\ UNCHANGED <<config, db, tables, indexed, outdated, indexing, recs, log, loop>>

(* Mistake: a batch is one record too long.                                 *)
BatchEndOver(c) ==
  IF pump \in Record THEN Min({call[c].done + BatchSize + 1, call[c].end}) ELSE call[c].end

BatchEnd(c) ==
  IF pump \in Record THEN Min({call[c].done + BatchSize, call[c].end}) ELSE call[c].end

(* Mistake: the aggregate pumps write through the handle.                   *)
TargetHandle(c) == db

Target(c) == IF pump \in Record THEN db ELSE PartTable(c)

(* The pumps for records log a failed batch and go on with the next one;    *)
(* the aggregate pumps return the error.                                    *)
Insert(c) ==
  /\ At(c, "insert")
  /\ \E ok \in BOOLEAN :
       /\ ok => Target(c) \in tables \ outdated /\ c \notin over
       /\ IF ok \/ Target(c) \notin tables \ outdated \/ c \in over THEN UNCHANGED faults ELSE Fault
       /\ log' = [log EXCEPT ![c] = Append(@, [from |-> call[c].done + 1, to |-> BatchEnd(c),
                                               table |-> Target(c), ok |-> ok])]
       /\ call' = [call EXCEPT ![c].done = BatchEnd(c),
                               ![c].at = IF ~ok /\ pump \in Aggregate THEN "error"
                                         ELSE IF BatchEnd(c) < call[c].end THEN "insert"
                                         ELSE "cut"]
  /\ UNCHANGED <<config, db, database, recs, loop>>

WriteDataStep(c) ==
  \/ Cut(c) \/ Return(c) \/ HasTable(c) \/ CreateTable(c) \/ CreateTableFails(c)
  \/ EnsureIndex(c) \/ EnsureIndexFails(c) \/ Insert(c)

Start == HandleTableMigration \/ MigrationFails \/ StartIndex \/ StartIndexFails \/ BackgroundIndex

Next == Start \/ StartWrite \/ WriteDone \/ Deadline \/ \E c \in Call : WriteDataStep(c)

Spec == Init /\ [][Next]_vars

-----------------------------------------------------------------------------
TypeOK ==
  /\ pump \in Record \cup Aggregate
  /\ sharded \in BOOLEAN
  /\ timed \in BOOLEAN
  /\ db \in Table
  /\ indexed \cup outdated \subseteq tables /\ tables \subseteq Table
  /\ unindexed \subseteq Table
  /\ {migrates, postgres, indexing} \subseteq BOOLEAN
  /\ recs \in [Call -> Seq(Item)]
  /\ \A c \in Call :
       /\ call[c].at \in {"none", "cut", "hasTable", "create", "index", "insert", "nil", "error"}
       /\ 0 <= call[c].done /\ call[c].done <= Len(recs[c])
       /\ 0 <= call[c].end /\ call[c].end <= Len(recs[c])
       /\ At(c, "insert") => call[c].done < call[c].end
  /\ over \subseteq 1 .. next
  /\ main \in {"migrate", "index", "idle", "writing", "off"}
  /\ next \in Call \cup {0}
  /\ faults \in 0 .. MaxFaults

Inserts(c) == ToSet(log[c])

InTableOfItsDay(c, i) ==
  i.ok => \A n \in i.from .. i.to : i.table = IF sharded THEN DayOf(c, n) ELSE Default

(* A batch goes to the table of the day of all its records.  The pumps for  *)
(* records are sure of it only while no earlier call of the same pump is    *)
(* still running.                                                           *)
RightTable ==
  pump \in Aggregate \/ ~timed => \A c \in Call : \A i \in Inserts(c) : InTableOfItsDay(c, i)

(* README.md:1112, "all the records of the day are going to be stored in    *)
(* tyk_analytics_YYYYMMDD table", whatever times out.                       *)
DayTables == \A c \in Call : \A i \in Inserts(c) : InTableOfItsDay(c, i)

(* A table is known to be outdated: Init was not to migrate it.             *)
LeftOutdated(t) ==
  t \in outdated /\ sharded /\ (pump = "graphAggregate" \/ (~migrates /\ t # Today))

(* The inserts of a call go through its records without gap or overlap,     *)
(* no batch is longer than the limit, and a nil result means that none was  *)
(* left out.  An insert or a call fails only for a refused statement, an    *)
(* earlier call that interferes, or a table that Init was not to migrate.   *)
EachRecordOnce ==
  TypeOK /\ \A c \in Call :
    /\ \A k \in DOMAIN log[c] :
         /\ log[c][k].from = IF k = 1 THEN 1 ELSE log[c][k - 1].to + 1
         /\ pump \in Record => log[c][k].to - log[c][k].from < BatchSize
         /\ log[c][k].ok \/ timed \/ faults > 0 \/ LeftOutdated(log[c][k].table)
    /\ At(c, "nil") /\ recs[c] # <<>> => log[c] # <<>> /\ Last(log[c]).to = Len(recs[c])
    /\ At(c, "error") => timed \/ faults > 0 \/ \E i \in Inserts(c) : LeftOutdated(i.table)

(* A table gets its first row after its indexes.  The sql pump creates      *)
(* indexes only together with a table: if that failed it goes on without    *)
(* them, and so it does, for good, with a table that Init created: that of  *)
(* the day it starts on, or the only one.  An aggregate pump may be ahead   *)
(* of the goroutine that creates the index.                                 *)
IndexedBeforeUse ==
  \/ pump = "sqlAggregate"
  \/ pump = "sql" /\ ~timed
  => \A c \in Call : \A i \in Inserts(c) :
       i.ok => \/ i.table \in indexed \cup unindexed
               \/ pump = "sql" /\ ~migrates /\ i.table = IF sharded THEN Today ELSE Default
               \/ pump = "sqlAggregate" /\ indexing

=============================================================================
