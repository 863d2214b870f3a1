----------------------------- MODULE TableCatalog -----------------------------
(* The table catalog of one schema: MultiTableRocksDBEngine
   (multi_table_rocksdb/src/multi_table_rocksdb.rs).

   A table is a column family named after it, an entry META-TABLE:name:id and
   one entry META-COL:id:column per column; the entries and the counter the
   ids come from lie in the default column family.  Creating and dropping a
   table write these one after the other, each write on its own.  The service
   runs one such call at a time, under the engine's write lock, but the process
   may die between any two writes, and a power loss takes back the newest
   writes that have not reached the disk; creating and dropping a column family
   is durable at once.

   Rows are left out except for the default user that the first start writes
   into the table user.  The callers of the model leave the table user alone,
   and use names without a colon: the entries of a table are found by the
   prefix META-TABLE:name:, which is also that of a table "name:other".      *)
EXTENDS Integers, FiniteSets

CONSTANTS
  Names,       \* tables the callers create and drop
  User,        \* the table "user", created by the first start
  Cols,        \* column names
  UserCols,    \* the columns of the table user
  MaxId,       \* bound: how many table ids are handed out
  MaxStops,    \* bound: how often the process dies
  PowerFails   \* TRUE: a stop may be a power loss

ASSUME CatalogAssumption ==
  /\ User \notin Names /\ UserCols \in (SUBSET Cols) \ {{}}
  /\ MaxId \in Nat \ {0} /\ MaxStops \in Nat /\ PowerFails \in BOOLEAN

AllNames == Names \cup {User}
Ids      == 0..MaxId

VARIABLES
  cfs,      \* the column families besides "default"
  store,    \* the entries: [next, tabs, cols, admin]
  synced,   \* the part of them a power loss leaves, an earlier state of store
  job,      \* the call or start under way and its next write
  asked,    \* history: the columns the last completed create of a table got
  torn,     \* history: tables with an interrupted call, or in the way of a power
            \* loss, and no complete DROP since
  stops     \* how often the process has died

vars == <<cfs, store, synced, job, asked, torn, stops>>

Store == [next: Ids, tabs: SUBSET (AllNames \X Ids), cols: SUBSET (Ids \X Cols),
          admin: BOOLEAN]

\* "down": no process, "failed": the start ended with an error, "idle": no
\* call; the others name the write that comes next.
Steps == {"down", "failed", "idle", "id", "family", "table", "columns", "unlist"}

TypeOK ==
  /\ cfs \subseteq AllNames
  /\ store \in Store /\ synced \in Store
  /\ job \in [step: Steps, name: AllNames, id: Ids, cols: SUBSET Cols,
              todo: SUBSET Cols]
  /\ asked \in [AllNames -> SUBSET Cols]
  /\ torn \subseteq AllNames
  /\ stops \in 0..MaxStops

NoJob(step) == [step |-> step, name |-> User, id |-> 0, cols |-> {}, todo |-> {}]

Active == job.step \notin {"down", "failed", "idle"}

-----------------------------------------------------------------------------
(* What the readers find.                                                    *)

\* list_tables
Listed(n) == \E i \in Ids : <<n, i>> \in store.tabs

\* get_table_meta and list_table_cols take the first entry of the name in key
\* order.  The ids in the keys are decimal numbers without leading zeros, whose
\* order is the numbers' below ten.
FirstId(n) == CHOOSE i \in Ids :
  <<n, i>> \in store.tabs /\ \A j \in Ids : <<n, j>> \in store.tabs => i <= j

Columns(n) == {c \in Cols : <<FirstId(n), c>> \in store.cols}

-----------------------------------------------------------------------------
(* Starting.                                                                 *)

\* MultiTableRocksDBEngine::new creates the table user when it is not listed.
Start ==
  /\ job.step = "down"
  /\ job' = IF Listed(User)
            THEN NoJob("idle")
            ELSE [step |-> "id", name |-> User, id |-> 0,
                  cols |-> UserCols, todo |-> UserCols]
  /\ UNCHANGED <<cfs, store, synced, asked, torn, stops>>

\* create_table: a column family of the name is an error.
Create(n, cs) ==
  /\ job.step = "idle" /\ n \notin cfs
  /\ job' = [step |-> "id", name |-> n, id |-> 0, cols |-> cs, todo |-> cs]
  /\ UNCHANGED <<cfs, store, synced, asked, torn, stops>>

\* get_next_table_id: read the counter and put it back, one higher.
\* Variant: the id is the number of tables.
TakeIdByCount ==
  /\ job.step = "id"
  /\ job' = [job EXCEPT !.step = "family", !.id = Cardinality(store.tabs)]
  /\ UNCHANGED <<cfs, store, synced, asked, torn, stops>>

TakeId ==
  /\ job.step = "id" /\ store.next < MaxId
  /\ job' = [job EXCEPT !.step = "family", !.id = store.next]
  /\ store' = [store EXCEPT !.next = @ + 1]
  /\ UNCHANGED <<cfs, synced, asked, torn, stops>>

\* create_cf fails when the column family exists, which ends the start.
CreateFamily ==
  /\ job.step = "family"
  /\ IF job.name \in cfs
     THEN job' = NoJob("failed") /\ UNCHANGED cfs
     ELSE /\ cfs' = cfs \cup {job.name}
          /\ job' = [job EXCEPT !.step = "table"]
  /\ UNCHANGED <<store, synced, asked, torn, stops>>

PutTable ==
  /\ job.step = "table"
  /\ store' = [store EXCEPT !.tabs = @ \cup {<<job.name, job.id>>}]
  /\ job' = [job EXCEPT !.step = "columns"]
  /\ UNCHANGED <<cfs, synced, asked, torn, stops>>

PutColumn ==
  \E c \in job.todo :
    /\ job.step = "columns"
    /\ store' = [store EXCEPT !.cols = @ \cup {<<job.id, c>>}]
    /\ job' = [job EXCEPT !.todo = @ \ {c}]
    /\ UNCHANGED <<cfs, synced, asked, torn, stops>>

\* The call answers Ok; the first start writes the default user before.
Created ==
  /\ job.step = "columns" /\ job.todo = {}
  /\ store' = [store EXCEPT !.admin = @ \/ job.name = User]
  /\ asked' = [asked EXCEPT ![job.name] = job.cols]
  /\ job' = NoJob("idle")
  /\ UNCHANGED <<cfs, synced, torn, stops>>

-----------------------------------------------------------------------------
(* drop_table: the column family, if there is one, then every table entry of
   the name.  Column entries stay.                                           *)

Drop(n) ==
  /\ job.step = "idle"
  /\ cfs' = cfs \ {n}
  /\ job' = [step |-> "unlist", name |-> n, id |-> 0, cols |-> {}, todo |-> {}]
  /\ UNCHANGED <<store, synced, asked, torn, stops>>

Entries(n) == {e \in store.tabs : e[1] = n}

DeleteEntry ==
  \E e \in Entries(job.name) :
    /\ job.step = "unlist"
    /\ store' = [store EXCEPT !.tabs = @ \ {e}]
    /\ UNCHANGED <<cfs, synced, job, asked, torn, stops>>

\* Variant: one entry is deleted at most.
AllDeletedButOne == Cardinality(Entries(job.name)) <= 1
AllDeleted       == Entries(job.name) = {}

Dropped ==
  /\ job.step = "unlist" /\ AllDeleted
  /\ job' = NoJob("idle")
  /\ torn' = torn \ {job.name}
  /\ UNCHANGED <<cfs, store, synced, asked, stops>>

-----------------------------------------------------------------------------
(* The environment.                                                          *)

Stop(left, hit) ==
  /\ job.step # "down" /\ stops < MaxStops
  /\ stops' = stops + 1
  /\ store' = left
  /\ job' = NoJob("down")
  /\ torn' = torn \cup hit
  /\ UNCHANGED <<cfs, synced, asked>>

\* The process dies: the operating system has its writes.
Crash == Stop(store, IF Active THEN {job.name} ELSE {})

\* The newest writes that were not synced are lost, of whichever tables.
PowerLoss == PowerFails /\ Stop(synced, AllNames)

Flush ==
  /\ PowerFails /\ job.step # "down"
  /\ synced' = store
  /\ UNCHANGED <<cfs, store, job, asked, torn, stops>>

Empty == [next |-> 0, tabs |-> {}, cols |-> {}, admin |-> FALSE]

Init ==
  /\ cfs = {} /\ store = Empty /\ synced = Empty
  /\ job = NoJob("down")
  /\ asked = [n \in AllNames |-> {}]
  /\ torn = {} /\ stops = 0

Next ==
  \/ Start
  \/ \E n \in Names, cs \in (SUBSET Cols) \ {{}} : Create(n, cs)
  \/ TakeId \/ CreateFamily \/ PutTable \/ PutColumn \/ Created
  \/ \E n \in Names : Drop(n)
  \/ DeleteEntry \/ Dropped
  \/ Crash \/ PowerLoss \/ Flush

Spec == Init /\ [][Next]_vars

-----------------------------------------------------------------------------
(* Properties.                                                               *)

\* A table id is used once: no two tables share one, and a table being created
\* finds no columns under its id, whatever crashes and power losses and however
\* many dropped tables left their column entries behind.
IdsUnique ==
  /\ \A e, f \in store.tabs : e[2] = f[2] => e = f
  /\ job.step \in {"family", "table"} =>
       \A c \in Cols : <<job.id, c>> \notin store.cols

\* A table that no call was interrupted on since the last complete DROP, and no
\* power loss has hit, is whole whenever no call is at work on it: it is listed
\* if and only if its column family exists, and then has the columns its CREATE
\* was given.  A complete DROP repairs what any stop left behind.
TablesWhole ==
  \A n \in AllNames \ torn :
    ~(Active /\ job.name = n) =>
      /\ n \in cfs <=> Listed(n)
      /\ n \in cfs => Columns(n) = asked[n]

-----------------------------------------------------------------------------
(* Claims of the docs that TLC refutes with the constants of
   Stores.cfg.                                                         *)

\* Initialising is idempotent: the engine opens after any stop.  Refuted: the
\* first start dies between the column family user and its entry.
StartWorks == job.step # "failed"

\* Once the engine is open, the default user exists.  Refuted: the first start
\* dies between the entry of the table user and the row.
AdminExists == job.step = "idle" => store.admin
=============================================================================
