---------------------------- MODULE SchemaService ----------------------------
(* The database service of one process: DatabaseServiceImpl, its
   SchemaManager and the SQL catalog of the DataFusion engine
   (src/service/mod.rs, laoflchdb_sql_df_engine/src/lib.rs).

   Every schema is a RocksDB directory behind a tokio RwLock of its own; the
   SQL engine is behind one more.  A request runs as a tokio task which waits
   for these locks, at an await point each, and other tasks run in between.
   Both kinds of lock are fair: a request for a lock waits behind every
   earlier request it conflicts with.  A request whose client goes away is
   dropped at the await point it has reached, and the process may be killed
   and started again at any moment.

   Rows, columns, comments and query results are left out: the model keeps
   which tables exist, which are registered for SQL, which engines are loaded,
   and who holds or awaits which lock.  Of what SQL text does to the catalog by
   itself it keeps what that takes from the registered tables, not the views
   and memory tables it makes.                                               *)
EXTENDS Naturals

CONSTANTS
  Schemas,     \* names of the schemas besides sys
  Sys,         \* the schema "sys", loaded for ever
  Tables,      \* names of the tables that clients make up
  User,        \* the table an engine creates when it opens without one
  Targets,     \* the <<schema, table>> pairs that CREATE and DROP name
  SqlLock,     \* the lock of the SQL engine
  Callers,     \* the tasks that serve requests
  Ops,         \* the kinds of requests that arrive
  MayCancel,   \* TRUE: a client may go away while its request is served
  MaxRestarts  \* bound: how often the process is killed and started again

AllOps == {"create_schema", "drop_schema", "create_table", "drop_table",
           "read", "write", "sql_query", "refresh"}

ASSUME SchemaAssumption ==
  /\ Sys \notin Schemas /\ User \notin Tables
  /\ SqlLock \notin Schemas \cup {Sys}
  /\ Ops \subseteq AllOps
  /\ Targets \subseteq (Schemas \cup {Sys}) \X (Tables \cup {User})
  /\ MayCancel \in BOOLEAN /\ MaxRestarts \in Nat

AllSchemas == Schemas \cup {Sys}
AllTables  == Tables \cup {User}
Locks      == AllSchemas \cup {SqlLock}

VARIABLES
  tables,      \* [AllSchemas -> SUBSET AllTables]: what list_tables finds
  dirs,        \* the schemas that have a directory on disk
  engines,     \* SchemaManager::engines: the schemas whose engine is loaded
  registered,  \* the <<schema, table>> pairs of the SQL catalog
  plain,       \* the schemas whose name unquoted SQL text reads as it is written
  queue,       \* queue[l]: who holds or awaits lock l, how, and behind whom
  task,        \* [Callers -> the request it serves and how far it has got]
  acked,       \* history: tables whose creation was answered Ok
  gone,        \* history: Tables whose dropping was answered Ok
  overtaken,   \* history: tables dropped between the two halves of a CREATE
  restarts     \* number of restarts so far

catalog == <<tables, dirs, engines, registered>>
history == <<acked, gone, overtaken>>
vars    == <<catalog, queue, task, history, restarts, plain>>

-----------------------------------------------------------------------------
(* Tasks.  "schema" is the schema the task is busy with, "todo" the schemas
   sql_query has still to visit, and "holds" says that the task owns an Arc
   of the schema's engine.                                                   *)

Pcs == {"idle", "lookup", "open", "insert", "engine", "asleep", "verify",
        "catalog", "next"}

Idle == [op |-> "none", schema |-> Sys, table |-> User, pc |-> "idle",
         todo |-> {}, holds |-> FALSE]

Ask == [task: Callers, mode: {"R", "W"}, behind: SUBSET Callers]

TypeOK ==
  /\ tables \in [AllSchemas -> SUBSET AllTables]
  /\ dirs \subseteq AllSchemas /\ engines \subseteq dirs
  /\ registered \subseteq AllSchemas \X AllTables
  /\ queue \in [Locks -> SUBSET Ask]
  /\ task \in [Callers -> [op: AllOps \cup {"none"}, schema: AllSchemas,
                           table: AllTables, pc: Pcs,
                           todo: SUBSET AllSchemas, holds: BOOLEAN]]
  /\ acked \subseteq AllSchemas \X AllTables
  /\ gone \subseteq AllSchemas \X AllTables
  /\ overtaken \subseteq AllSchemas \X AllTables
  /\ plain \subseteq AllSchemas
  /\ restarts \in 0..MaxRestarts

\* tokio::sync::RwLock grants in the order of asking: a writer when nobody is
\* before it, a reader when no writer is.
Granted(c, l) ==
  /\ \E r \in queue[l] : r.task = c
  /\ \A r \in queue[l] : r.task = c =>
       /\ r.mode = "W" => r.behind = {}
       /\ \A b \in queue[l] : b.task \in r.behind => b.mode = "R"

\* The holders and waiters of a lock with c behind them all ...
With(asks, c, m) ==
  asks \cup {[task |-> c, mode |-> m, behind |-> {r.task : r \in asks}]}

Asking(q, c, l, m) == [q EXCEPT ![l] = With(@, c, m)]

\* ... and without it.
Without(asks, c) ==
  {[r EXCEPT !.behind = @ \ {c}] : r \in {a \in asks : a.task # c}}

Releasing(q, c, l) == [q EXCEPT ![l] = Without(@, c)]

ReleasingAll(q, c) == [l \in Locks |-> Without(q[l], c)]

To(c, pc) == task' = [task EXCEPT ![c].pc = pc]

\* The handler returns: its guards are dropped, its Arcs too.
Ended(c) ==
  /\ task' = [task EXCEPT ![c] = Idle]
  /\ queue' = ReleasingAll(queue, c)

\* An engine is open while the map, a task or a registered table owns it.
Open(s) ==
  \/ s \in engines
  \/ \E c \in Callers : task[c].holds /\ task[c].schema = s
  \/ \E t \in AllTables : <<s, t>> \in registered

\* Variant: the second open of a directory succeeds, as long as no engine of it is
\* in the map.
CanOpenUnlocked(s) == s \notin engines

\* RocksDB locks the directory of an open database: a second open fails.
CanOpen(s) == ~Open(s)

-----------------------------------------------------------------------------
(* Requests arrive.                                                          *)

Ddl(op) == op \in {"create_table", "drop_table"}

\* CREATE and DROP name a target.
MayStart(op, s, t) == Ddl(op) => <<s, t>> \in Targets

\* sql_query and refresh_tables take the lock of the SQL engine first; every
\* other handler looks the schema up in the manager first.
Start(c) ==
  \E op \in Ops, s \in AllSchemas, t \in AllTables :
    /\ task[c].pc = "idle"
    /\ MayStart(op, s, t)
    /\ op \in {"drop_schema", "create_schema"} => s # Sys
    /\ LET sqlFirst == op \in {"sql_query", "refresh"}
       IN  /\ task' = [task EXCEPT ![c] =
                         [op |-> op, holds |-> FALSE,
                          table |-> IF Ddl(op) THEN t ELSE User,
                          schema |-> IF op = "refresh" THEN Sys ELSE s,
                          todo |-> IF op = "sql_query" THEN {Sys, s} ELSE {},
                          pc |-> IF sqlFirst THEN "catalog" ELSE "lookup"]]
           /\ queue' = IF sqlFirst THEN Asking(queue, c, SqlLock, "W") ELSE queue
    /\ UNCHANGED <<catalog, history, restarts, plain>>

-----------------------------------------------------------------------------
(* SchemaManager.                                                            *)

\* Which way a handler wants the lock of the engine it has looked up.
EngineMode(op) ==
  IF op \in {"create_table", "drop_table", "write"} THEN "W" ELSE "R"

\* The handler owns the engine now and asks for its lock.
Found(c) ==
  /\ task' = [task EXCEPT ![c].pc = "engine", ![c].holds = TRUE]
  /\ queue' = Asking(queue, c, task[c].schema, EngineMode(task[c].op))

\* get_schema_engine: the loaded engine, or a miss after which the map's mutex
\* is released.
Lookup(c) ==
  /\ task[c].pc = "lookup"
  /\ task[c].op \notin {"create_schema", "drop_schema"}
  /\ IF task[c].schema \in engines
     THEN Found(c)
     ELSE To(c, "open") /\ UNCHANGED queue
  /\ UNCHANGED <<catalog, history, restarts, plain>>

\* create_schema: an error when the schema is loaded already.
CheckSchema(c) ==
  /\ task[c].pc = "lookup" /\ task[c].op = "create_schema"
  /\ IF task[c].schema \in engines
     THEN Ended(c)
     ELSE To(c, "open") /\ UNCHANGED queue
  /\ UNCHANGED <<catalog, history, restarts, plain>>

\* MultiTableRocksDBEngine::new: the directory and the default user table are
\* created when they are missing, the table also after somebody dropped it.
Opens(c) ==
  LET s == task[c].schema
  IN  /\ dirs' = dirs \cup {s}
      /\ tables' = [tables EXCEPT ![s] = @ \cup {User}]
      /\ task' = [task EXCEPT ![c].pc = "insert", ![c].holds = TRUE]
      /\ UNCHANGED <<engines, registered, queue>>

\* The database is open elsewhere.  sql_query tries to open it once more for
\* itself and then goes on with the next schema; the others answer the error.
CannotOpen(c) ==
  /\ IF task[c].op = "sql_query"
     THEN /\ task' = [task EXCEPT ![c].pc = "next",
                                  ![c].todo = @ \ {task[c].schema}]
          /\ UNCHANGED queue
     ELSE Ended(c)
  /\ UNCHANGED catalog

OpenEngine(c) ==
  /\ task[c].pc = "open"
  /\ IF CanOpen(task[c].schema) THEN Opens(c) ELSE CannotOpen(c)
  /\ UNCHANGED <<history, restarts, plain>>

\* The second half of get_schema_engine and of create_schema: the engine goes
\* into the map.  create_schema then declares the schema in the SQL engine.
InsertEngine(c) ==
  /\ task[c].pc = "insert"
  /\ engines' = engines \cup {task[c].schema}
  /\ IF task[c].op = "create_schema"
     THEN /\ task' = [task EXCEPT ![c].pc = "catalog", ![c].holds = FALSE]
          /\ queue' = Asking(queue, c, SqlLock, "W")
     ELSE Found(c)
  /\ UNCHANGED <<tables, dirs, registered, history, restarts, plain>>

\* CREATE SCHEMA IF NOT EXISTS in the SQL engine, whose failure is ignored.
DeclareSchema(c) ==
  /\ task[c].pc = "catalog" /\ task[c].op = "create_schema"
  /\ Granted(c, SqlLock)
  /\ Ended(c)
  /\ UNCHANGED <<catalog, history, restarts, plain>>

\* drop_schema removes the engine from the map, and nothing else: directory,
\* tables and SQL registrations stay.
DropSchema(c) ==
  /\ task[c].pc = "lookup" /\ task[c].op = "drop_schema"
  /\ engines' = engines \ {task[c].schema}
  /\ Ended(c)
  /\ UNCHANGED <<tables, dirs, registered, history, restarts, plain>>

-----------------------------------------------------------------------------
(* Tables.                                                                   *)

\* history: what was answered about a table so far is of an earlier one.
Anew(st) ==
  /\ acked' = acked \ {st}
  /\ gone' = gone \ {st}
  /\ overtaken' = overtaken \ {st}

\* A CREATE of the table has done its engine's part and is still to register it.
Halfway(st) ==
  \E c \in Callers :
    /\ task[c].op = "create_table" /\ task[c].pc \in {"asleep", "verify", "catalog"}
    /\ <<task[c].schema, task[c].table>> = st

\* Variant: the write guard lives to the end of the function.
CreateKeepingGuard(c) ==
  LET s == task[c].schema
      t == task[c].table
  IN  /\ task[c].pc = "engine" /\ task[c].op = "create_table"
      /\ Granted(c, s)
      /\ IF t \in tables[s]
         THEN Ended(c) /\ UNCHANGED <<tables, history>>
         ELSE /\ tables' = [tables EXCEPT ![s] = @ \cup {t}]
              /\ Anew(<<s, t>>)
              /\ To(c, "asleep")
              /\ UNCHANGED queue
      /\ UNCHANGED <<dirs, engines, registered, restarts, plain>>

\* Variant: an existing table is answered Ok at once, as IF NOT EXISTS would be.
CreateIfMissing(c) ==
  LET s == task[c].schema
      t == task[c].table
  IN  /\ task[c].pc = "engine" /\ task[c].op = "create_table"
      /\ Granted(c, s)
      /\ IF t \in tables[s]
         THEN Ended(c) /\ acked' = acked \cup {<<s, t>>} /\ UNCHANGED <<tables, gone, overtaken>>
         ELSE /\ tables' = [tables EXCEPT ![s] = @ \cup {t}]
              /\ Anew(<<s, t>>)
              /\ To(c, "asleep")
              /\ queue' = Releasing(queue, c, s)
      /\ UNCHANGED <<dirs, engines, registered, restarts, plain>>

\* create_table, the engine's part.  The write lock is released at the end of
\* the block; an existing table is an error.
CreateInEngine(c) ==
  LET s == task[c].schema
      t == task[c].table
  IN  /\ task[c].pc = "engine" /\ task[c].op = "create_table"
      /\ Granted(c, s)
      /\ IF t \in tables[s]
         THEN Ended(c) /\ UNCHANGED <<tables, history>>
         ELSE /\ tables' = [tables EXCEPT ![s] = @ \cup {t}]
              /\ Anew(<<s, t>>)
              /\ To(c, "asleep")
              /\ queue' = Releasing(queue, c, s)
      /\ UNCHANGED <<dirs, engines, registered, restarts, plain>>

\* After 100 ms it asks for the read lock.
Wake(c) ==
  /\ task[c].pc = "asleep"
  /\ To(c, "verify")
  /\ queue' = Asking(queue, c, task[c].schema, "R")
  /\ UNCHANGED <<catalog, history, restarts, plain>>

\* It looks the columns up, whose absence it only logs, and asks for the SQL
\* lock, keeping the read lock.
Verify(c) ==
  /\ task[c].pc = "verify"
  /\ Granted(c, task[c].schema)
  /\ To(c, "catalog")
  /\ queue' = Asking(queue, c, SqlLock, "W")
  /\ UNCHANGED <<catalog, history, restarts, plain>>

\* register_table_with_schema: what the SQL catalog may be afterwards.  A schema
\* that it lacks is declared first, by an SQL text with the bare name; unless the
\* name is plain this declares another schema, and the table is registered only
\* if some client's SQL text has declared the right one.  The failure is logged
\* and Ok is returned.
Registrations(st) ==
  {registered \cup {st}} \cup (IF st[1] \in plain THEN {} ELSE {registered})

\* The table is registered for SQL, or not, and create_table answers Ok.
Register(c) ==
  LET st == <<task[c].schema, task[c].table>>
  IN  /\ task[c].pc = "catalog" /\ task[c].op = "create_table"
      /\ Granted(c, SqlLock)
      /\ registered' \in Registrations(st)
      /\ acked' = acked \cup {st}
      /\ Ended(c)
      /\ UNCHANGED <<tables, dirs, engines, gone, overtaken, restarts, plain>>

\* drop_table, the engine's part; a missing table is no error.  The write lock
\* is kept while the SQL lock is awaited.
DropInEngine(c) ==
  LET s == task[c].schema
      t == task[c].table
  IN  /\ task[c].pc = "engine" /\ task[c].op = "drop_table"
      /\ Granted(c, s)
      /\ tables' = [tables EXCEPT ![s] = @ \ {t}]
      /\ acked' = acked \ {<<s, t>>}
      /\ overtaken' = IF Halfway(<<s, t>>) THEN overtaken \cup {<<s, t>>} ELSE overtaken
      /\ To(c, "catalog")
      /\ queue' = Asking(queue, c, SqlLock, "W")
      /\ UNCHANGED <<dirs, engines, registered, gone, restarts, plain>>

\* history: a DROP is answered Ok, which makes up for having overtaken a CREATE
\* unless that CREATE is under way still or has been answered meanwhile.
Answered(st) ==
  /\ gone' = gone \cup ({st} \cap (AllSchemas \X Tables))
  /\ overtaken' = IF Halfway(st) \/ st \in acked
                  THEN overtaken ELSE overtaken \ {st}
  /\ UNCHANGED acked

\* Variant: skipped for a schema that is no longer loaded.
DeregisterIfLoaded(c) ==
  LET st == <<task[c].schema, task[c].table>>
  IN  /\ task[c].pc = "catalog" /\ task[c].op = "drop_table"
      /\ Granted(c, SqlLock)
      /\ registered' = IF st[1] \in engines THEN registered \ {st} ELSE registered
      /\ Answered(st)
      /\ Ended(c)
      /\ UNCHANGED <<tables, dirs, engines, restarts, plain>>

\* drop_table, the catalog's part.
Deregister(c) ==
  LET st == <<task[c].schema, task[c].table>>
  IN  /\ task[c].pc = "catalog" /\ task[c].op = "drop_table"
      /\ Granted(c, SqlLock)
      /\ registered' = registered \ {st}
      /\ Answered(st)
      /\ Ended(c)
      /\ UNCHANGED <<tables, dirs, engines, restarts, plain>>

\* The handlers that take one lock of one engine, for reading or for writing,
\* and leave the tables as they are (rows and comments are not modelled).
UseEngine(c) ==
  /\ task[c].pc = "engine" /\ task[c].op \in {"read", "write"}
  /\ Granted(c, task[c].schema)
  /\ Ended(c)
  /\ UNCHANGED <<catalog, history, restarts, plain>>

-----------------------------------------------------------------------------
(* SQL.                                                                      *)

\* sql_query has the SQL lock and turns to its schemas.
SqlBegin(c) ==
  /\ task[c].pc = "catalog" /\ task[c].op = "sql_query"
  /\ Granted(c, SqlLock)
  /\ To(c, "next")
  /\ UNCHANGED <<catalog, queue, history, restarts, plain>>

\* The next schema, in the order of a HashSet.
SqlNextSchema(c) ==
  \E s \in task[c].todo :
    /\ task[c].pc = "next"
    /\ task' = [task EXCEPT ![c].pc = "lookup", ![c].schema = s]
    /\ UNCHANGED <<catalog, queue, history, restarts, plain>>

\* With the engine's read lock sql_query lists the tables and builds the
\* futures that would register them; it drops them without awaiting them.
SqlListTables(c) ==
  /\ task[c].pc = "engine" /\ task[c].op = "sql_query"
  /\ Granted(c, task[c].schema)
  /\ task' = [task EXCEPT ![c].pc = "next", ![c].holds = FALSE,
                          ![c].todo = @ \ {task[c].schema}]
  /\ queue' = Releasing(queue, c, task[c].schema)
  /\ UNCHANGED <<catalog, history, restarts, plain>>

\* The text runs under the SQL lock, and DataFusion executes what it is: a query,
\* or a change of the catalog, which the engines do not see.  DROP TABLE takes
\* one name out of it, DROP SCHEMA ... CASCADE all names of a schema ...
SqlDrops(names) ==
  /\ registered' = registered \ names
  /\ acked' = acked \ names
  /\ UNCHANGED <<gone, overtaken>>

\* ... and CREATE OR REPLACE TABLE or VIEW puts something else under a name.
SqlReplaces(st) ==
  /\ registered' = registered \ {st}
  /\ acked' = acked \ {st}
  /\ gone' = gone \ {st}
  /\ UNCHANGED overtaken

SqlExecute(c) ==
  /\ task[c].pc = "next" /\ task[c].todo = {}
  /\ \/ UNCHANGED <<registered, history>>
     \/ \E s \in AllSchemas :
          \/ SqlDrops({s} \X AllTables)
          \/ \E t \in AllTables : SqlDrops({<<s, t>>}) \/ SqlReplaces(<<s, t>>)
  /\ Ended(c)
  /\ UNCHANGED <<tables, dirs, engines, restarts, plain>>

\* refresh_tables registers the tables of sys one by one, in the order of a
\* HashSet, without deregistering them first: DataFusion refuses the first one
\* whose name is taken already, be it by something SQL text has put there, or
\* all of them when SQL text has dropped the schema, and the request fails.  It
\* reads the engine of sys
\* through a lock of its own (new_with_engine puts a clone of the engine into
\* the map), so that it waits for no other handler.
Refresh(c) ==
  LET known   == {t \in tables[Sys] : <<Sys, t>> \in registered}
      unknown == tables[Sys] \ known
  IN  /\ task[c].pc = "catalog" /\ task[c].op = "refresh"
      /\ Granted(c, SqlLock)
      /\ \/ /\ known = {}
            /\ registered' = registered \cup ({Sys} \X unknown)
            /\ Found(c)
         \/ /\ \E ts \in SUBSET unknown :
                 registered' = registered \cup ({Sys} \X ts)
            /\ Ended(c)
      /\ UNCHANGED <<tables, dirs, engines, history, restarts, plain>>

\* Then it lists the tables of sys, the SQL lock still held.  (It gets here only
\* when no table of sys is registered, so after the user table was dropped.)
RefreshList(c) ==
  /\ task[c].pc = "engine" /\ task[c].op = "refresh"
  /\ Granted(c, Sys)
  /\ Ended(c)
  /\ UNCHANGED <<catalog, history, restarts, plain>>

-----------------------------------------------------------------------------
(* The environment.                                                          *)

\* The client goes away: the handler's future is dropped where it waits.
Cancel(c) ==
  /\ MayCancel /\ task[c].pc # "idle"
  /\ Ended(c)
  /\ UNCHANGED <<catalog, history, restarts, plain>>

\* Variant: the start registers the tables of sys only.
RestartSysOnly ==
  /\ restarts < MaxRestarts
  /\ restarts' = restarts + 1
  /\ task' = [c \in Callers |-> Idle]
  /\ queue' = [l \in Locks |-> {}]
  /\ engines' = dirs
  /\ tables' = [s \in AllSchemas |->
                  IF s \in dirs THEN tables[s] \cup {User} ELSE tables[s]]
  /\ registered' = {Sys} \X (tables[Sys] \cup {User})
  /\ UNCHANGED <<dirs, history, plain>>

\* The process is killed and started again: DatabaseServiceImpl::new opens
\* every directory, which makes a missing user table, and registers every
\* table it finds, as far as the new SQL catalog has the schema.
Restart ==
  /\ restarts < MaxRestarts
  /\ restarts' = restarts + 1
  /\ task' = [c \in Callers |-> Idle]
  /\ queue' = [l \in Locks |-> {}]
  /\ engines' = dirs
  /\ tables' = [s \in AllSchemas |->
                  IF s \in dirs THEN tables[s] \cup {User} ELSE tables[s]]
  /\ registered' = {st \in (dirs \cap plain) \X AllTables :
                      st[2] \in tables[st[1]] \cup {User}}
  /\ UNCHANGED <<dirs, history, plain>>

\* The first start on an empty base path, and what the schemas are called.
Init ==
  /\ tables = [s \in AllSchemas |-> IF s = Sys THEN {User} ELSE {}]
  /\ dirs = {Sys} /\ engines = {Sys}
  /\ registered = {<<Sys, User>>}
  /\ plain \in {p \in SUBSET AllSchemas : Sys \in p}
  /\ queue = [l \in Locks |-> {}]
  /\ task = [c \in Callers |-> Idle]
  /\ acked = {} /\ gone = {} /\ overtaken = {} /\ restarts = 0

\* A step of a request that has begun.
Step(c) ==
  \/ Lookup(c) \/ CheckSchema(c) \/ OpenEngine(c) \/ InsertEngine(c)
  \/ DeclareSchema(c) \/ DropSchema(c)
  \/ CreateInEngine(c) \/ Wake(c) \/ Verify(c) \/ Register(c)
  \/ DropInEngine(c) \/ Deregister(c) \/ UseEngine(c)
  \/ SqlBegin(c) \/ SqlNextSchema(c) \/ SqlListTables(c) \/ SqlExecute(c)
  \/ Refresh(c) \/ RefreshList(c)

Next == Restart \/ \E c \in Callers : Start(c) \/ Step(c) \/ Cancel(c)

Spec == Init /\ [][Next]_vars

\* The runtime polls every task that can go on.
FairSpec == Spec /\ \A c \in Callers : WF_vars(Step(c))

-----------------------------------------------------------------------------
(* Properties.                                                               *)

\* A table whose creation was answered Ok stays in its engine until a DROP
\* reaches the engine, and visible to SQL until SQL text takes its name away,
\* whatever CREATEs and DROPs of it run side by side, are cancelled or fail, and
\* across DROPs of its schema and restarts.  Excepted are a table that was
\* dropped between the two halves of a CREATE (see CreationVerified) and, for SQL,
\* schemas whose names are not plain (see CreatedForSql).
AckedVisible ==
  \A st \in acked \ overtaken :
    /\ st[2] \in tables[st[1]]
    /\ st[1] \in plain => st \in registered

\* After a DROP answered Ok, and until a later CREATE reaches the engine or SQL
\* text puts something under the name, a table (other than user, which an engine
\* makes anew when it opens) is neither in its engine nor visible to SQL: no
\* request that was under way brings it back, except a CREATE that had done the
\* first of its halves (see DroppedStaysGone).
DroppedGone ==
  \A st \in gone \ overtaken : st[2] \notin tables[st[1]] /\ st \notin registered

\* Two callers never both create one schema, nor does a lookup open it between
\* the check of create_schema and its insertion into the map: the insertion
\* never replaces an engine that another caller may be using.
NoEngineReplaced ==
  \A c \in Callers : task[c].pc = "insert" =>
    /\ task[c].schema \notin engines
    /\ \A d \in Callers \ {c} :
         ~(task[d].pc = "insert" /\ task[d].schema = task[c].schema)

\* A SQL query or a refresh is served beside a CREATE or DROP of a table.
Crossed ==
  \E c, d \in Callers : task[c].op \in {"sql_query", "refresh"} /\ Ddl(task[d].op)

\* Unless SQL and DDL requests ever cross, every request ends, whatever else
\* runs beside it or is cancelled: no handler waits for a lock it holds, no
\* two for each other, and none waits for ever behind new requests.
EndsUncrossed ==
  \/ \A c \in Callers : (task[c].pc # "idle") ~> (task[c].pc = "idle")
  \/ <>Crossed

-----------------------------------------------------------------------------
(* Claims of the docs and comments that TLC refutes.                         *)

\* SQL requests are served concurrently with all others, and every request
\* ends.  Refuted by SchemaService_deadlock.cfg: drop_table and sql_query take
\* the engine's lock and the SQL lock in opposite orders.
EveryRequestEnds ==
  \A c \in Callers : (task[c].pc # "idle") ~> (task[c].pc = "idle")

\* create_table verifies that the table was created before it answers Ok
\* (mod.rs:435).  Refuted: the table is dropped during the 100 ms that it sleeps,
\* and it is registered and acknowledged all the same.
CreationVerified ==
  \A st \in acked : st[2] \in tables[st[1]]

\* A dropped table is no longer visible to SQL ("deregistered", mod.rs:463).
\* Refuted by the same CREATE, which wakes after the DROP was answered Ok.
DroppedStaysGone == \A st \in gone : st \notin registered

\* A created table can be queried ("registered in DataFusion", mod.rs:450).
\* Refuted by a schema whose name is not plain.
CreatedForSql == \A st \in acked \ overtaken : st \in registered

\* A dropped schema can be created again: with nobody else at work on it
\* create_schema opens the engine of a schema that is not loaded.  Refuted with
\* one caller: the registered tables keep the directory locked.
RecreateWorks ==
  [][\A c \in Callers :
       (task[c].pc = "open" /\ task[c].op = "create_schema")
         => task'[c].pc = "insert"]_task

\* Once sql_query has visited a schema, all its tables are registered.
\* Refuted with one caller: nobody awaits the registrations.
SqlRegistersMissing ==
  [][\A c \in Callers :
       (task[c].op = "sql_query" /\ task[c].pc = "engine" /\ task'[c].pc = "next")
         => \A t \in tables[task[c].schema] :
              <<task[c].schema, t>> \in registered']_vars

\* refresh_tables registers what is missing and goes on to list the tables.
\* Refuted with one caller: a table is registered already.
RefreshSucceeds ==
  [][\A c \in Callers :
       (task[c].op = "refresh" /\ task[c].pc = "catalog")
         => task'[c].pc = "engine"]_vars
=============================================================================
