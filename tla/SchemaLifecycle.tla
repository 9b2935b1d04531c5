-------------------------- MODULE SchemaLifecycle --------------------------
(***************************************************************************)
(* The schema of one database over the runs of many programs: scrape,      *)
(* scrape -migrate up, reset and status, scrape -maintain and -ping, and   *)
(* scrape-server.  Programs may run at the same time, may fail at any      *)
(* statement and may be killed.  Sqlite commits a migration and its entry  *)
(* in goose's version table at once; mysql commits every DDL statement by  *)
(* itself, so that a migration takes a step for each of its statements and *)
(* one for its entry.                                                      *)
(***************************************************************************)
EXTENDS Naturals

CONSTANTS
  Program,     \* processes
  N,           \* number of migrations
  Engine,      \* engines to consider, among "sqlite" and "mysql"
  MaxLaunches  \* bound on the programs started

ASSUME SchemaAssumption ==
  /\ N \in Nat \ {0}
  /\ Engine \subseteq {"sqlite", "mysql"}
  /\ MaxLaunches \in Nat

Migration == 1 .. N

\* The statements that apply a migration and those that take it back: the first
\* creates the tables urls and id_map and an index of urls, and drops the two
\* tables; any other creates and drops one.  What statement k creates is called k.
Ups(m) == IF m = 1 THEN 3 ELSE 1
Downs(m) == IF m = 1 THEN 2 ELSE 1
Part(m) == 1 .. Ups(m)

\* An index goes with its table.
Drops(m, k) == IF m = 1 /\ k = 1 THEN {1, 3} ELSE {k}

\* What -migrate accepts; scrape-server has no such flag.
MigrationCommand == {"up", "reset", "status"}
Command == MigrationCommand \union {"run", "maintain", "ping"}

VARIABLES
  engine,      \* the engine of the database
  exists,      \* sqlite: the file is there; mysql: the schema is
  tracked,     \* goose's version table is there
  tables,      \* what is there of each migration
  versions,    \* goose's version table: a row for each migration recorded
  lastId,      \* the id of the row entered last
  pc,          \* where each program is
  cmd,         \* the command each program was started with
  todo,        \* the migration a program is about to apply, or those to take back
  part,        \* mysql: statements of its migration a program has executed
  launches,    \* number of programs started so far
  clash,       \* history: an up and a reset were under way at the same time
  interrupted  \* history: migrations that a program ended in the middle of

schema == <<tables, versions, lastId>>
database == <<exists, tracked, schema>>
history == <<clash, interrupted>>
schemaVars == <<engine, database, pc, cmd, todo, part, launches, history>>

UpStages == {"up.ensure", "up.next", "up.apply"}
ResetStages == {"reset.read", "reset.down"}
Ended == {"off", "ok", "failed"}

SchemaInit ==
  /\ engine \in Engine
  /\ exists = FALSE
  /\ tracked = FALSE
  /\ tables = [m \in Migration |-> {}]
  /\ versions = {}
  /\ lastId = 0
  /\ pc = [p \in Program |-> "off"]
  /\ cmd = [p \in Program |-> "run"]
  /\ todo = [p \in Program |-> {}]
  /\ part = [p \in Program |-> 0]
  /\ launches = 0
  /\ clash = FALSE
  /\ interrupted = {}

\* A program moves on; an up and a reset that overlap are remembered.
Goto(p, stage) ==
  /\ pc' = [pc EXCEPT ![p] = stage]
  /\ clash' = (clash \/ (/\ \E q \in Program : pc'[q] \in UpStages
                         /\ \E q \in Program : pc'[q] \in ResetStages))

Recorded == {row.version : row \in versions}

\* goose.GetDBVersion: the version of the latest row, 0 if there is none.
CurrentVersion(v) ==
  \/ versions = {} /\ v = 0
  \/ \E row \in versions : row.version = v /\ \A other \in versions : other.id <= row.id

\* goose enters a migration, or deletes every row of one.
Record(m) ==
  /\ lastId' = lastId + 1
  /\ versions' = versions \union {[id |-> lastId', version |-> m]}

\* Mutant: deletes the latest row of a migration and not every one.
UnrecordLatest(m) ==
  /\ versions' = {row \in versions :
                    row.version = m =>
                      \E other \in versions : other.version = m /\ row.id < other.id}
  /\ UNCHANGED lastId

Unrecord(m) ==
  /\ versions' = {row \in versions : row.version # m}
  /\ UNCHANGED lastId

-----------------------------------------------------------------------------
\* The program reads its flags and builds the engine.
Launch(p, c) ==
  /\ pc[p] \in Ended
  /\ launches < MaxLaunches
  /\ launches' = launches + 1
  /\ cmd' = [cmd EXCEPT ![p] = c]
  /\ todo' = [todo EXCEPT ![p] = {}]
  /\ Goto(p, "open")
  /\ UNCHANGED <<engine, database, part, interrupted>>

\* Open connects to nothing yet.  AfterOpen of sqlite creates the schema when
\* there is no file and the command is no migration; mysql has no AfterOpen.
Open(p) ==
  /\ pc[p] = "open"
  /\ Goto(p, IF engine = "sqlite" /\ ~exists /\ cmd[p] \notin MigrationCommand
             THEN "up.ensure" ELSE "opened")
  /\ UNCHANGED <<engine, database, cmd, todo, part, launches, interrupted>>

\* main goes on with the command.  The first connection to a sqlite file
\* creates it; mysql refuses a schema that is not there, except to up, which
\* connects without one and creates it first.
Serve(p) ==
  /\ pc[p] = "opened" /\ cmd[p] = "run"
  /\ Goto(p, "serving")
  /\ UNCHANGED <<engine, database, cmd, todo, part, launches, interrupted>>

Maintain(p) ==
  /\ pc[p] = "opened" /\ cmd[p] = "maintain"
  /\ exists' = (exists \/ engine = "sqlite")
  /\ Goto(p, IF engine = "sqlite" /\ 1 \in tables[1] THEN "ok" ELSE "failed")
  /\ UNCHANGED <<engine, tracked, schema, cmd, todo, part, launches, interrupted>>

\* Ping and status; status makes sure that there is a version table.
PingOrStatus(p) ==
  /\ pc[p] = "opened" /\ cmd[p] \in {"ping", "status"}
  /\ exists' = (exists \/ engine = "sqlite")
  /\ tracked' = (tracked \/ (cmd[p] = "status" /\ exists'))
  /\ Goto(p, IF exists' THEN "ok" ELSE "failed")
  /\ UNCHANGED <<engine, schema, cmd, todo, part, launches, interrupted>>

\* MigrateUp on behalf of the command: BeforeMigrateUp creates mysql's schema.
StartUp(p) ==
  /\ pc[p] = "opened" /\ cmd[p] = "up"
  /\ exists' = (exists \/ engine = "mysql")
  /\ Goto(p, "up.ensure")
  /\ UNCHANGED <<engine, tracked, schema, cmd, todo, part, launches, interrupted>>

StartReset(p) ==
  /\ pc[p] = "opened" /\ cmd[p] = "reset"
  /\ Goto(p, "reset.read")
  /\ UNCHANGED <<engine, database, cmd, todo, part, launches, interrupted>>

-----------------------------------------------------------------------------
(***************************************************************************)
(* goose.Up: make sure of the version table, then apply the successor of   *)
(* the current version until there is none.                                *)
(***************************************************************************)
UpEnsure(p) ==
  /\ pc[p] = "up.ensure"
  /\ exists' = TRUE
  /\ tracked' = TRUE
  /\ Goto(p, "up.next")
  /\ UNCHANGED <<engine, schema, cmd, todo, part, launches, interrupted>>

\* Mutant: the last migration is never reached.
UpNextShort(p) ==
  /\ pc[p] = "up.next"
  /\ \E v \in 0 .. N :
       /\ CurrentVersion(v)
       /\ IF v + 1 >= N
          THEN /\ Goto(p, IF cmd[p] = "up" THEN "ok" ELSE "opened")
               /\ UNCHANGED todo
          ELSE /\ todo' = [todo EXCEPT ![p] = {v + 1}]
               /\ Goto(p, "up.apply")
  /\ UNCHANGED <<engine, database, cmd, part, launches, interrupted>>

\* MigrateUp returns to the command, or to AfterOpen and so to Open.
UpNext(p) ==
  /\ pc[p] = "up.next"
  /\ \E v \in 0 .. N :
       /\ CurrentVersion(v)
       /\ IF v = N
          THEN /\ Goto(p, IF cmd[p] = "up" THEN "ok" ELSE "opened")
               /\ UNCHANGED todo
          ELSE /\ todo' = [todo EXCEPT ![p] = {v + 1}]
               /\ Goto(p, "up.apply")
  /\ UNCHANGED <<engine, database, cmd, part, launches, interrupted>>

\* All statements of an up can be repeated but mysql's first index: it needs its
\* table and is created without IF NOT EXISTS.
Creatable(m, k) == m = 1 /\ k = 3 => 1 \in tables[1] /\ 3 \notin tables[1]

\* The next statement of a migration and no more.
Create(p, m) ==
  /\ part[p] < Ups(m) /\ Creatable(m, part[p] + 1)
  /\ tables' = [tables EXCEPT ![m] = @ \union {part[p] + 1}]
  /\ part' = [part EXCEPT ![p] = @ + 1]
  /\ Goto(p, "up.apply")
  /\ UNCHANGED <<versions, lastId>>

\* Mutant: sqlite too commits the statements of a migration one by one.
UpApplySplit(p) ==
  /\ pc[p] = "up.apply"
  /\ \E m \in todo[p] : Create(p, m)
  /\ UNCHANGED <<engine, exists, tracked, cmd, todo, launches, interrupted>>

\* The SQL of a migration, on sqlite with its entry.
UpApply(p) ==
  /\ pc[p] = "up.apply"
  /\ \E m \in todo[p] :
       \/ /\ engine = "sqlite"
          /\ tables' = [tables EXCEPT ![m] = Part(m)]
          /\ Record(m)
          /\ Goto(p, "up.next")
          /\ UNCHANGED part
       \/ engine = "mysql" /\ Create(p, m)
       \/ /\ engine = "mysql"
          /\ part[p] < Ups(m) /\ ~Creatable(m, part[p] + 1)
          /\ part' = [part EXCEPT ![p] = 0]
          /\ Goto(p, "failed")
          /\ UNCHANGED schema
  /\ UNCHANGED <<engine, exists, tracked, cmd, todo, launches, interrupted>>

UpRecord(p) ==
  /\ pc[p] = "up.apply"
  /\ engine = "mysql"
  /\ \E m \in todo[p] : part[p] = Ups(m) /\ Record(m)
  /\ part' = [part EXCEPT ![p] = 0]
  /\ Goto(p, "up.next")
  /\ UNCHANGED <<engine, exists, tracked, tables, cmd, todo, launches, interrupted>>

-----------------------------------------------------------------------------
(***************************************************************************)
(* goose.Reset: read which migrations are recorded, once, and take them    *)
(* back from the last to the first.  It makes no version table.            *)
(***************************************************************************)
ResetRead(p) ==
  /\ pc[p] = "reset.read"
  /\ IF tracked
     THEN /\ todo' = [todo EXCEPT ![p] = Recorded]
          /\ Goto(p, "reset.down")
     ELSE UNCHANGED todo /\ Goto(p, "failed")
  /\ exists' = (exists \/ engine = "sqlite")
  /\ UNCHANGED <<engine, tracked, schema, cmd, part, launches, interrupted>>

IsLast(m, ms) == m \in ms /\ \A n \in ms : n <= m

\* The last migration on the list is taken back, on sqlite with its entries.
ResetDown(p) ==
  /\ pc[p] = "reset.down"
  /\ \E m \in todo[p] :
       /\ IsLast(m, todo[p])
       /\ \/ /\ engine = "sqlite"
             /\ tables' = [tables EXCEPT ![m] = {}]
             /\ Unrecord(m)
             /\ todo' = [todo EXCEPT ![p] = @ \ {m}]
             /\ UNCHANGED part
          \/ /\ engine = "mysql" /\ part[p] < Downs(m)
             /\ tables' = [tables EXCEPT ![m] = @ \ Drops(m, part[p] + 1)]
             /\ part' = [part EXCEPT ![p] = @ + 1]
             /\ UNCHANGED <<versions, lastId, todo>>
  /\ Goto(p, "reset.down")
  /\ UNCHANGED <<engine, exists, tracked, cmd, launches, interrupted>>

\* Mutant: the migration stays on the list of those to take back.
ResetRecordRepeats(p) ==
  /\ pc[p] = "reset.down"
  /\ engine = "mysql"
  /\ \E m \in todo[p] : IsLast(m, todo[p]) /\ part[p] = Downs(m) /\ Unrecord(m)
  /\ part' = [part EXCEPT ![p] = 0]
  /\ Goto(p, "reset.down")
  /\ UNCHANGED <<engine, exists, tracked, tables, cmd, todo, launches, interrupted>>

\* Mutant: the version table is emptied with the first migration taken back.
ResetRecordAll(p) ==
  /\ pc[p] = "reset.down"
  /\ engine = "mysql"
  /\ \E m \in todo[p] :
       /\ IsLast(m, todo[p]) /\ part[p] = Downs(m)
       /\ versions' = {}
       /\ todo' = [todo EXCEPT ![p] = @ \ {m}]
  /\ UNCHANGED lastId
  /\ part' = [part EXCEPT ![p] = 0]
  /\ Goto(p, "reset.down")
  /\ UNCHANGED <<engine, exists, tracked, tables, cmd, launches, interrupted>>

ResetRecord(p) ==
  /\ pc[p] = "reset.down"
  /\ engine = "mysql"
  /\ \E m \in todo[p] :
       /\ IsLast(m, todo[p]) /\ part[p] = Downs(m)
       /\ Unrecord(m)
       /\ todo' = [todo EXCEPT ![p] = @ \ {m}]
  /\ part' = [part EXCEPT ![p] = 0]
  /\ Goto(p, "reset.down")
  /\ UNCHANGED <<engine, exists, tracked, tables, cmd, launches, interrupted>>

ResetEnds(p) ==
  /\ pc[p] = "reset.down"
  /\ todo[p] = {}
  /\ Goto(p, "ok")
  /\ UNCHANGED <<engine, database, cmd, todo, part, launches, interrupted>>

-----------------------------------------------------------------------------
\* A statement fails and main exits, the program is killed, or a server stops.
\* Any statement may be the last of a migration on mysql.
Stop(p) ==
  /\ pc[p] \notin Ended
  /\ interrupted' = interrupted \union {m \in todo[p] : part[p] > 0 /\ IsLast(m, todo[p])}
  /\ part' = [part EXCEPT ![p] = 0]
  /\ Goto(p, "failed")
  /\ UNCHANGED <<engine, database, cmd, todo, launches>>

Step(p) ==
  \/ Open(p)
  \/ Serve(p) \/ Maintain(p) \/ PingOrStatus(p) \/ StartUp(p) \/ StartReset(p)
  \/ UpEnsure(p) \/ UpNext(p) \/ UpApply(p) \/ UpRecord(p)
  \/ ResetRead(p) \/ ResetDown(p) \/ ResetRecord(p) \/ ResetEnds(p)

SchemaNext ==
  \E p \in Program :
    \/ \E c \in Command : Launch(p, c)
    \/ Step(p)
    \/ Stop(p)

SchemaSpec == SchemaInit /\ [][SchemaNext]_schemaVars

\* A program that runs goes on; nobody has to start or kill one.
SchemaFairSpec == SchemaSpec /\ \A p \in Program : WF_schemaVars(Step(p))

-----------------------------------------------------------------------------
\* Every variable keeps its type.
SchemaTypeOK ==
  /\ engine \in Engine
  /\ exists \in BOOLEAN
  /\ tracked \in BOOLEAN
  /\ tables \in [Migration -> SUBSET (1 .. 3)]
  /\ versions \subseteq [id : Nat, version : Migration]
  /\ lastId \in Nat
  /\ pc \in [Program -> Ended \union UpStages \union ResetStages \union {"open", "opened", "serving"}]
  /\ cmd \in [Program -> Command]
  /\ todo \in [Program -> SUBSET Migration]
  /\ part \in [Program -> 0 .. 3]
  /\ launches \in Nat
  /\ clash \in BOOLEAN
  /\ interrupted \subseteq Migration

\* On sqlite the version table says which tables there are, whatever programs
\* migrate at once, fail or are killed.
VersionsTellTables ==
  engine = "sqlite" =>
    \A m \in Migration : tables[m] = IF m \in Recorded THEN Part(m) ELSE {}

\* A recorded migration has all before it, so that the latest entry tells how
\* far the schema is, unless an up and a reset got into each other's way.
NoGaps == ~clash => \A m \in Recorded : 1 .. m \subseteq Recorded

\* An up that reports success leaves all of every migration there, although
\* others may be applying the same statements and programs may have been killed
\* on the way.  Excepted are the migrations that a program was stopped in the
\* middle of, which mysql lets happen: up may report success without their
\* tables.
UpMeansCurrent ==
  [][\A p \in Program :
       pc[p] = "up.next" /\ pc'[p] \in {"ok", "opened"} /\ ~clash =>
         \A m \in Migration \ interrupted : tables[m] = Part(m)]_schemaVars

\* Every command comes to an end, but the server's, which comes to serve,
\* however many programs migrate at once.
CommandsEnd ==
  \A p \in Program : pc[p] \notin Ended ~> pc[p] \in Ended \union {"serving"}

\* A reset that reports success leaves no entry, be there as many rows for a
\* migration as ups that raced to apply it, and nothing of any migration but
\* those that a program was stopped in the middle of.
ResetMeansEmpty ==
  [][\A p \in Program :
       pc[p] = "reset.down" /\ pc'[p] = "ok" /\ ~clash =>
         /\ Recorded = {}
         /\ \A m \in Migration \ interrupted : tables[m] = {}]_schemaVars

\* The version table as those see it who ask for the schema's version: however
\* many programs apply the same migrations or take them back, its entries come
\* one at a time in order, and go in the reverse order.
Versions == INSTANCE SchemaVersions WITH applied <- Recorded, muddled <- clash
VersionsPromise == Versions!VersionsSpec

\* README.md: "SQLite databases will be automatically brought up to date
\* whenever scrape or scrape-server are invoked".
ServesCurrent ==
  [][\A p \in Program : pc[p] = "opened" /\ pc'[p] = "serving" =>
       \A m \in Migration : tables[m] = Part(m)]_schemaVars

\* README.md on -migrate up: "Bring the database up to the latest version,
\* creating if necessary".  Here of ups that report success and met no reset.
UpBringsUpToDate ==
  [][\A p \in Program :
       pc[p] = "up.next" /\ pc'[p] = "ok" /\ ~clash =>
         \A m \in Migration : tables[m] = Part(m)]_schemaVars
=============================================================================
