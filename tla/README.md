# laoflchDB-rs in TLA+

laoflchDB-rs is a database server written in Rust: schemas of tables in RocksDB
with SQL on top, a Raft-replicated key-value store, and services for graphs,
embeddings, full text, objects, images and faces built on the same engines.
This directory models the parts of it whose correctness depends on the order in
which things happen. Paths are relative to the repository (`src/`); in the text
`raft`, `sql`, `kv`, `objects`, `embedding`, `graph`, `image`, `face` and
`tantivy` abbreviate the `lib.rs` of `laoflchdb_raft_service`,
`laoflchdb_sql_df_engine`, `laoflchdb_kv_rocksdb_engine`,
`laoflchdb_object_store_service`, `laoflchdb_embedding_service`,
`laoflchdb_graph_service`, `laoflchdb_image_service`, `laoflchdb_face_service`
and `laoflchdb_index_tantivy_engine`.

- [The system](#the-system): components, their state, operations and hazards
- [The modules](#the-modules): what each one models and how it matches the code
- [The runs](#the-runs): what TLC checks, with which bounds and fairness
- [Claims the models refute](#claims-the-models-refute)
- [The proofs](#the-proofs)
- [What is not covered](#what-is-not-covered) and [the plan](#the-plan)

## The system

One process (`src/server/mod.rs`) serves gRPC, REST and S3 from the services
below. Handlers are tokio tasks: another runs at every `await`, and a handler
whose client has gone is dropped at the await it has reached. Every component
keeps its data in one of two RocksDB engines or in tantivy; nearly all RocksDB
writes go out without `sync`, so they survive the process but not always the
machine.

| component | state | operations | hard behaviour | what makes it correct | module |
|---|---|---|---|---|---|
| Raft state machine (`state_machine.rs`, `storage.rs`) | primary engine, optional copy, `last_applied`, membership (in memory), snapshots | `apply`, `build_snapshot`, `get_current_snapshot`, `install_snapshot`, restart | replay over newer data; a snapshot is installed key by key; spawned writes to the copy; an engine write that fails half-way | a caught-up table is exactly what the log produces; replicas agree; snapshots match the entry they name; the copy follows | RaftKvStateMachine, ReplicatedKv, RaftKvLog |
| Raft membership (`raft` 497-634) | openraft's effective and committed membership | AddPeer, RemovePeer, `auto_join_peers` | metrics read before an await and used after it; refused, undone and half-done changes | an answered AddPeer or RemovePeer stays true; joining never costs a vote | RaftMembership |
| Raft log store (`log_store.rs`) | log, vote, `last_purged` in two column families | `append`, `truncate`, `purge`, `save_vote`, reload | order of encoded keys, inclusive bounds, crash and power loss | readers return what openraft believes is stored | RaftLogStore |
| Schema manager, database service, SQL catalog (`src/service/mod.rs`, `sql`) | a map of engines behind a mutex, one RwLock per engine, one for the SQL engine, the SQL catalog | schemas, tables, rows, `sql_query`, `refresh_tables` | locks taken in two orders, a lock given back for 100 ms, dropped handlers, restarts | what DDL answered holds in the engine and for SQL; every request ends | SchemaService |
| Multi-table engine (`multi_table_rocksdb.rs`) | column families, META-TABLE and META-COL entries, counters, rows | open, create/drop table, rows, queries | a crash between any two of the writes of one call | tables are whole; ids are used once; a pushed-down query answers what evaluating it in memory would | TableCatalog (the catalog), TableRows (rows and queries, with `rocksdb_table.rs` of the SQL engine) |
| Embedding service (`embedding`) | vectors in RocksDB, an HNSW graph in memory, three snapshot files | insert, delete, save, load, rebuild, start, shutdown; search, filter, list, look up, compare | two sides changed in separate steps and opposite orders, a graph swapped under handlers | both sides agree; every read tells what was answered last | EmbeddingIndex, EmbeddingReads |
| Graph service (`graph`) | node, edge and two adjacency keys in one table | insert/update/delete of nodes and edges; neighbours, shortest path, statistics | chains of single reads and writes, no lock | an edge's three keys go together, its ends exist, and the queries tell one graph | GraphStore |
| Object store (`objects`) over the key-value engine (`kv`), and its gRPC, REST and S3 fronts (`s3.rs`) | a column family and an entry per bucket, two keys per object | buckets, put, copy, get, head, delete, list; ranges, signatures, names | the mutex is given back between looking and acting; two writes per object and per bucket; markers of deleted objects; a download in ranges while others put | bytes match headers; buckets listed are buckets that exist; a walk sees everything once; a download has the bytes of one put | ObjectStore, ObjectListing, ObjectFronts |
| Group set-up, network, forwarding, REST (`raft`, `network.rs`, `rest.rs`) | group handles, a client cache | `kv_put`, `kv_delete`, `kv_get`, `start_group` | a write forwarded once to the leader | nothing of its own | through RaftKvStateMachine |
| Text index engine and index service (`tantivy`, `src/service/index.rs`) | per index a folder of tantivy's and `_laoflch_meta.json`; the indexes open in memory | create, drop, ensure; add, update, delete a document; start | the meta file rewritten in place after the commit; update is delete then add; files that fail | an acknowledged document is found after every start | TextIndex |
| Image service (`image`) | originals, thumbnails, metadata as objects, a vector per image, tags in three text indexes | upload, stream, index, update, delete; tags | six calls per image with nothing held between them; paging while rewriting, counters beside documents | undisturbed images are whole; a picture is indexed once; counters match documents | ImageStore, Tags |
| Face service (`face`) | vectors and pictures of faces; a medoid and a document per class; tags of classes | extract, create, save, remove, recompute, delete; tags | two indexes changed by delete and insert in turn | class document, medoid and faces fit together; a face is indexed once | FaceClasses, Tags |
| Terminal client (`ltool`) | tabs with lists, pages, open popups, selections | keys, and the requests they make | the order in which popups are asked is not the order in which they are drawn; requests fail between two that belong together | what a popup names is what is deleted; a face's picture and vector go together | Tool (ToolStore, ImageTab, FaceTab, StorageTab, VectorTab) |
| Access layer (`src/access`) | tokens with expiry, permission rules | log in and out, check a session, decide, convert rows and values for gRPC and REST | precedence and limits of rules; expiry beside logout and restart; REST reads the columns in one call and adds the row in the next | nobody is served without a live session, where one is asked for, or against a denial; what was sent is what is read back | Access |
| Engine traits, inference (vectors, reranker, summariser), configuration, protocol crates | loaded models; none | | | | not modelled |

How they interact. The server builds a `DatabaseServiceImpl`; its handlers look
an engine up in the `SchemaManager`, take that engine's RwLock, and, for DDL and
SQL, the lock of the SQL engine, whose catalog holds providers that own engines.
The object store and the graph service own an engine each and call it directly.
The image service stores pictures through the object store, vectors through the
embedding service and tags through the index service; the face service uses the
same three; the terminal client calls all of them over gRPC and S3. The Raft
service gives openraft a log store and a state machine; openraft calls both from
tasks of its own and the handlers call `client_write`.

## The modules

Each module starts with a comment that says what it abstracts. Definitions have
the code's names where the code has a name; `PROJECT.json` maps every one to its
lines. A definition commented "Variant:" or "As if" is not part of the model: it
is what a plausible bug would make of a definition, and is used to see that a
property notices it. Variables commented "history" are read by properties only
and never by guards of the modelled code.

**RaftKvLog, ReplicatedKv, RaftKvStateMachine.** `RaftKvLog` defines entries and
what a prefix of them makes of one key. `RaftKvStateMachine` has, per node, the
worker task that runs openraft's commands one after the other: an entry goes
through `ApplyEntry` (primary), `ApplyDual` (copy, according to the dual-write
mode) and `MarkApplied`; an install goes through `BeginInstall` (clear and read),
`ClearDual`, `LoadPair`/`LoadDual` per key and `FinishInstall`. `RunTask` is a
spawned asynchronous write, `EngineFails` an engine error at any of these
places, after which openraft stops the node ("fatal"). `BuildSnapshot` runs
beside the worker; only its position is kept, for `Purge`. `CurrentSnapshot`,
whose snapshot is sent, is one step though it reads with three awaits
(`state_machine.rs` 228): it is a command of the worker like an apply, so none
comes in between. `last_applied` is 0 after a restart, and `kv_get` does not wait
for the replay: what AppliedVisible says of acknowledged entries is about those
of one process, and AckedStaysVisible, of all, is refuted. What openraft does
below the commit point (elections, replication) is external and enters as
`Elect`, `Replicate` and `BeginApply`. openraft's default of keeping 1000
entries and building a snapshot every 5000 is scaled down to `KeepLogs` and a
`BuildSnapshot` at any time. `ReplicatedKv` is what clients are promised: one
growing log, and per node a table that walks through the states that log
produces. The refinement maps a node under installation to the snapshot it is
installing, `reached` (how much the table has ever reflected) to `index`.

**RaftMembership.** Each caller is a sequence of openraft calls with metrics
reads between them (`StartAdd`, `AddLearner`, `ReadVoters`, `ChangeMembership`,
`Flatten`; `AutoRound` for the task). `config` is the effective membership,
`prev` the last committed one. External: a change is one log entry, refused
while the one before is uncommitted; `next_coherent` goes through a joint
configuration that an empty change flattens; a lost leadership may undo the
uncommitted entry (`Overwrite`). Left out: removing the bootstrap node itself,
calls served by another leader. `met` remembers that a call began while another
was under way.

**RaftLogStore.** (`LogInit`, `LogNext`, `LogSpec`.) Every call is one write batch. `disk` is RocksDB, `synced` the
part of it a power loss leaves (any earlier state may be the last one synced),
`mem` what openraft believes. Indexes start at 1 so that 0 is `None`; the
big-endian key of an index is two digits in base `Radix` instead of eight in
base 256, which is enough for a carry to happen. I/O errors are left out:
openraft stops the node on them.

**SchemaService.** A request is a task that moves from lock to lock. tokio's
RwLock is, per lock, the set of those who hold or await it, each with the ones it
came behind (`Asking`, `Granted`, `Releasing`): fair, so a
request waits behind every earlier one it conflicts with. `Cancel` drops the
handler where it waits. `CREATE TABLE` sleeps without its lock (`Wake`, `Verify`),
and a DROP may run meanwhile; such tables are `overtaken` (history). `Register`
registers what it can and answers Ok, for `register_table_with_schema` only logs
that CREATE SCHEMA or the registration failed (`Registrations`), as it does for a
schema whose name unquoted SQL reads as another (`plain` are the others). Of SQL
text that is itself DDL, `SqlExecute` keeps what it takes from the registered
tables (`SqlDrops`, `SqlReplaces`). An engine is open as long as the map, a handler or a
registered table owns it, and RocksDB refuses a second open of its directory
(`CanOpen`). Rows, columns and comments are abstracted, so all handlers that
read or write rows are `UseEngine`. `refresh_tables` reads sys through a lock of
its own, because `new_with_engine` clones the engine into the map. Left out:
`init_database`, `shutdown`, rewriting of SQL text.

**TableCatalog.** One call at a time (the service's write lock), one action per
write: `TakeId`, `CreateFamily`, `PutTable`, `PutColumn` and `Created`; for a
drop `Drop` (the family), `DeleteEntry` and `Dropped`; `Start` takes the first
ones for the table `user`, and its row. A
process crash keeps every write; a power loss takes back the newest unsynced
entries, but not column families, whose manifest RocksDB syncs. Table ids are
below ten, where decimal order is numeric order (`FirstId`). Names have no colon
(a table `a:b` would lose its entry when `a` is dropped, `multi_table_rocksdb.rs`
407), and nobody drops the table `user`.

**TableRows.** The rows of one table, written and taken away, and two ways of
asking for them: `AskTyped` is `query` of the multi-table engine with its
filters per column, its drain of the rows before the offset and its limit;
`AskSql` is a scan of DataFusion, to which `rocksdb_table.rs` says filter by
filter whether it takes it over (`Pushed`) and how it evaluates it, and where the
limit is applied. `InMemory` and `InMemoryTyped` are the reference: every row
looked at, no push-down. A value is a kind and its place in the order of its
kind.

**EmbeddingIndex.** One index; a vector is its id. Handlers (`Work`) change
RocksDB and the graph in two steps, in the orders of the code; `SaveMeta`,
`SaveIds`, `CreateNodesFile` and `SaveNode` write the snapshot; `Scan`,
`SwapRebuilt` are a rebuild, `ReadNodes`, `LoadIds`, `SwapLoaded` a load. The
HNSW library is external: it rejects a node that is not there, keeps the nodes
changed since the last save, and may take or refuse an id it has and a vector with
NaN or an infinity in it. Such vectors, and those of another dimension or format
than the configuration now says, are `unfit`: `PutStored` stores them, `RefuseNode`
answers an error and leaves them stored, a rebuild skips them (`Scan`).
`StorageFails` is a failing call of RocksDB, which a delete answers as a success;
`RebuildFails` a rebuild that ends early, after which the start goes on with an
empty graph. One save at a time. A start without a usable snapshot rebuilds.
`EmbeddingReads` adds the requests that change nothing, as operators on one
state: a query is the ids within its greatest distance, nearest first, and
`FilteredSearch` looks at twice as many candidates in every round.

**GraphStore.** An edge is its own key and two adjacency keys. Each read or
write of the table is a step of its own, and requests interleave between them:
they run on different threads with no lock held. The storage calls never yield,
so a request is not dropped in the middle; `Fail` is a call that fails, whose
request ends there, and `Crash` may stop all of them.
Types are folded into names. `Neighbors`, `ShortestPath` (a shortest of the walks of
adjacency keys no longer than `MaxDepth`, which is what breadth-first search finds;
no path when a node on it is gone) and `Stats` are operators on one state. Its
Init, Next and Spec are `GraphInit`, `GraphNext` and `GraphSpec`.

**ObjectStore, ObjectListing.** The engine is behind one tokio mutex. Each
action is what happens between two acquisitions, or one of the two writes made
while it is held; a handler can be dropped only where it waits for the mutex,
and the second of the two writes may fail (`WriteFails`).
Bytes and headers are the number of the put that wrote them. `ObjectListing`
takes a page (`list_objects` over `list_keys`) as one step, because the mutex is
held throughout, and lets others store and delete between pages; keys are
numbers in RocksDB's order, and an S3 client sends back a marker that stays
percent-encoded (`NextMarker`).

**ObjectFronts.** What gRPC, REST and S3 make of a request: the name (`Key`),
the range (`ParseRangeHeader`), the body up to its limit (`Received`) and the
signature (`Verified`, computed by the client from what it sends and by the
server from what it gets; hashes are the values themselves). The object store
below is one step per call. A client collects an object from whole and partial
answers and begins anew when the ETag changes (`download`).

**Access.** `Login`, `Logout`, `Tick` and `Restart` are the token manager;
`Arrive` looks at the session, if the handler asks for one (`AsksSession`), and
at the permission (`Asks`, `CheckPermission`), before the call to the service.
To add a row, REST reads the columns (`ReadColumns`), converts the texts
(`RestField`) and adds the row in a second call; `Shown` is how a SQL answer
shows a field. The database service is one table of one column, and everything
that changes nothing here is `Forward`.

**TextIndex.** A folder is what tantivy has committed (durable at once) and the
meta file, which `EmptyMeta` and `FillMeta` write in place. A call holds the
write lock from its start to its end, so one `write` runs at a time, commit by
commit; `StopIndexService` ends it anywhere, `FileFails` is a failing file
operation, `StartIndexService` opens what can be read. `promised` (history) is
what answers said.

**Tags.** The indexes `tags`, `image_tag` and `face_class_tag` (counts) and the
two `_map` indexes (the tags of an item) with the ten requests of both services;
`maps` is a sequence, because deleting a tag walks it in pages by offset while
it rewrites documents, and a rewritten document moves to its end. A request is
a record with its next step (`At`, `Follows`). Updating a tag changes its text
only and is kept for its delete and add.

**ImageStore.** One job per client: `CheckDuplicates`, `PutOriginal`,
`PutThumbnail`, `PutMetadata`, `InsertVector`, `MarkIndexed` for an upload, the
`Drop...` steps for a deletion and for the duplicates an overwrite replaces.
A vector is in two places: `stored` is RocksDB, `vectors` the graph that searches
walk. A key the graph has is refused when RocksDB has taken the new vector
(`RefuseVector`), after which an upload ends and `index_image` deletes and inserts
again; `Rebuilt` (one step here) makes the graph from RocksDB. `index_image` may
name another index (`InsertElsewhere`), of which no deletion knows. `BreakOff` ends
a job between two calls, `PassOver` is a failed call whose error the code ignores,
`InsertFails` an insert whose error an upload only warns of, `KeptStored` a delete
that RocksDB failed. `unsure` (history) are the keys of which ImageWhole says
nothing, `excused` those of which NoDuplicates does not.

**FaceClasses.** A class is `documents[k]` (its faces) and `medoids[k]`; a change
reads the document (`ReadClass`) and the vectors (`ListVectors`), chooses the
medoid (`MedoidKey`), and makes `DropMedoid`, `InsertMedoid`, `DropDocument`,
`AddClassDocument`. The medoid is the first vector whose distances to the others,
counted as a set of pairs (`Distances`), are fewest. The keys of a new class are
taken as they come, equal ones too. `SearchFace`, `SaveAligned`, `IndexFace` are the extraction
of a face. `GiveUp` and `GoOn` are a failing call, answered or ignored.

**Subsequences.** What `Vec::retain` and iterator filters leave of a sequence:
its members at some of its places (`AtPlaces`), in their order and without
recursion, so that FaceClasses and Tags can be proved about.

**ToolStore, ImageTab, FaceTab, StorageTab, VectorTab, Tool.** The client handles
one event to its end, requests included, so an action is an event; any request
may fail. Each tab has the popups that are open, the rows of its list, the page
it is on, and one action per key, whose guards repeat the order in which
`handler.rs` asks the popups (`ImageTop` takes a key, `ImagePopup` is drawn on
top). `removed` (history) relates what the popup was opened on to what the
request named. The vector tab's action popup keeps no row of its own: whatever
changes the selection under it (`Under`) changes what Enter deletes (`Meant`).

**MCMedia, MCStores, MCParts, MCFronts.** A run for several components that share no state:
`part` says which of them a behaviour is of, so the states of a run are the sum
and not the product of theirs. The other MC modules give constants their values.

## The runs

Twelve runs; `tlc -config <cfg> <module>`. States are distinct states found.

| run | module, cfg | states | properties | question |
|---|---|---|---|---|
| restarts | MCRaftKvStateMachine, RaftKv_restarts | 1 437 499 | PrimaryExact, AppliedVisible, SyncCopyEqual, PurgedReflected | does replaying the log over newer data end in the exact table? |
| snapshots | MCRaftKvStateMachine, RaftKv_snapshots | 420 790 | ReplicasAgree, SnapshotsExact, CopyFromLog, WalksTheLog, AllApplied | do late, duplicated and interrupted snapshots keep the nodes on the log? |
| async | MCRaftKvStateMachine, RaftKv_async | violation | AsyncCopyConverges | is the asynchronous copy eventually right? (No.) |
| membership | RaftMembership | 922 736 | AckedAdds, AckedRemoves, VotersGrow, AllJoin | do answered membership calls stay true? |
| stores | MCStores, Stores | 3 830 478 | StoreMatches, AckedDurable, TablesWhole, IdsUnique, DocumentsKept | do the Raft log, the table catalog and the text indexes answer what was acknowledged, after a stop between any two writes? |
| schema | MCSchemaService, SchemaService | 411 660 | AckedVisible, DroppedGone, NoEngineReplaced, EndsUncrossed | does DDL mean what it answered, and do requests end? |
| schema_deadlock | MCSchemaService, SchemaService_deadlock | violation | EveryRequestEnds | may SQL and DDL run together? (They deadlock.) |
| embedding | MCEmbeddingIndex, EmbeddingIndex | 6 500 674 | AgreeUnlessTorn, ReadsAsAnswered | do graph and RocksDB agree on what nothing disturbed, and do all reads tell so? |
| parts | MCParts, Parts | 3 294 336 | EdgesWhole, AnswersExact, DeletesShown, FacesPaired | do the keys and ends of an edge stay together, and do the queries tell so? do pushed-down queries answer exactly? does the client delete what its popup was opened on? |
| media | MCMedia, Media | 2 283 964 | TagsWhole, ImageWhole, NoDuplicates, ClassWhole, FacesOnce | do tags, images and face classes survive interleaved, broken and failing requests? |
| objects | ObjectStore | 2 395 351 | HeadersDescribe, BucketsSound | can two puts, or a put and a drop, mix? |
| fronts | MCFronts, Fronts | 565 939 | WalkExact, DownloadsWhole, CallsDecided, RowsReadBack, WalkEnds | does a walk in pages see everything once, and a download in ranges one put, while the bucket changes? is nobody served without a session or against a rule? do rows come back as sent? |

Every safety property has a proviso only where the code needs one, and each
proviso is a history variable or a constant that a reader can lift to see the
counterexample (see the next section).

**Bounds.** *restarts*: a log of 5 entries with two keys and two values lets an
entry be overwritten, reflected, forgotten by a restart and replayed, twice;
one engine failure stops the node between the two writes of an entry.
*snapshots*: with `KeepLogs = 1` and 4 entries the leader purges what the other
node still needs, so that it must install; snapshots stay in `snaps` for ever,
so they arrive late and twice. *membership*: two peers, two administrators and
the join task are enough for every pair of calls to meet; one loss of leadership
undoes any one entry. *stores*: five indexes in base 3 cross a carry; batches
of two overwrite a truncated tail; two stops. Two names, two columns and three
table ids beyond zero let a name be created, dropped and created again; two
stops let a repair be interrupted too. One text index with two documents (a third
key is not a number), five writes, two stops and one failing file. *schema*: two callers, which is
what a deadlock and each race needs; one schema beside sys; the targets of DDL
are one made-up table and `user` of sys (without which `refresh_tables` never
gets past its first registration). *embedding*: two ids, two callers, three requests
beside the boot rebuild, one stop. *parts*: an edge between two nodes and a loop
at one of them, two callers, one crash or failing call, paths of depth one (all there are between
two nodes); up to three rows of two columns with two
values each, and every filter of one comparison or two under AND, OR and NOT,
with and without a limit, every offset up to one past the rows; for the client,
two keys, pages of one row, two pages, three buckets and two indexes. *media*:
two tags, two images, two classes and pages of one document (a thousand in the
code), two requests of two clients; three image keys of two pictures in two
buckets, two indexes, two jobs, one failure; three faces, one class, three calls, one
failure. One thumbnail size of the code's three: each is written and deleted by
the same loop. *objects*: one ordinary bucket and
"default", two objects (for `delete_objects`), two puts so that they can mix,
one kill or failing write. *fronts*: a walk has six keys, pages of two (a folder of three keys does not
fit a page) and three changes; one whose marker changed its meaning is cut
short when it has listed more than there are keys. One object and the folder
of its name, bodies of none to two units with a limit of one, two puts (for a
download to mix), every range of such bodies, signatures in header and query.
Two callers, two logins, sessions of one unit within three, so that one token
runs out while another is good; two tables (one dropped and created again), two
rows, five requests; three requests where sessions begin and end; one where
every rule of a family (default, two actions allowed, two denied, limits on one
schema and one table) meets every request of another: a decision looks at one
request only. *embedding* asks for both orders of the two ids. SYMMETRY is used only in runs without liveness
(restarts: keys and values; parts: callers; media: everything that only has a
name).

**Deadlock** is checked where a component never stops: objects, parts and
schema (where a cancelled request always frees its locks; whether requests end
without that is EndsUncrossed). The other configurations turn it off because their bounds end the behaviour, or,
in stores, because a start that failed really stops.

**Fairness.** *snapshots* (AllApplied): weak fairness of election, replication
and each worker's next step, which is what the tokio runtime and openraft's
loops give; clients, purging, snapshots, failures and spawned writes owe
nothing. *membership* (AllJoin): started calls proceed, peers come up, an entry
with a majority commits and the node leads again; losing leadership and new
calls owe nothing. *schema* (EndsUncrossed, EveryRequestEnds): the runtime polls
every task whose lock was granted; nobody has to cancel or start. *fronts*
(WalkEnds): the client asks for the next page as long as it is told that there
is one. The other modules check safety only.

What the runs show. The replay, install and purge logic of the Raft state
machine ends in the right table; while it replays, older values are read.
Membership calls, embeddings and edges are right as long as requests on one thing
do not overlap and no storage call fails in the middle, and the counterexamples
below show that this proviso is needed. DDL keeps what it answered in every overlap
but one: a DROP that runs while the CREATE of its table sleeps. The object
store needs no such proviso: its mutex orders every pair of writes, and only a
kill or a failing write can separate them. The text index needs none either.
Images and classes are whole unless two requests on one of them overlap or a call
fails, or an image was indexed under another index name; a broken request leaves
halves that no later one makes up for, and a vector the graph refused waits in
RocksDB for the next rebuild. The SQL push-down answers
exactly for comparisons of a column with a literal and their combinations. The
fronts lose nothing of an object they let in, except bodies past the S3 limit
and names with a slash at either end; sessions and rules decide as they say.

## Claims the models refute

Each line is a statement of a document or comment that the code does not keep,
as a definition at the end of the module. Two of them are runs; the others are
reproduced by the change given, with only that property in the configuration.
Claims of RaftLogStore, TableCatalog and TextIndex are checked with MCStores and
`Stores.cfg`, those of GraphStore, TableRows and Tool with MCParts and
`Parts.cfg`, those of Tags, ImageStore and FaceClasses with MCMedia and `Media.cfg`,
those of ObjectListing, ObjectFronts and Access with MCFronts and `Fronts.cfg`, those of
EmbeddingIndex with MCEmbeddingIndex and `EmbeddingIndex.cfg`, those of
SchemaService with MCSchemaService and `SchemaService.cfg`.

| definition | what is said, and where | how it fails | reproduce with |
|---|---|---|---|
| AsyncCopyConverges | the copy is eventually consistent ("副本最终一致", `raft` 62) | two spawned writes of one key run in the other order (`state_machine.rs` 131) | run async |
| ReplayPossible | the memory engine's data comes back by replaying the log ("重启后从 Raft 日志重放", `storage.rs` 47) | the log is purged behind a snapshot nobody keeps, then a restart (`raft` 294) | RaftKv_restarts, `PrimaryDurable <- AllInMemory`, no SYMMETRY |
| AckedStaysVisible | `kv_get` reads the state machine ("直查状态机（即主存储引擎）", `raft` 409), which has acknowledged the entry | put v1, put v2, restart: the replay applies v1 first, and is not waited for | RaftKv_restarts |
| AddsHold | AddPeer makes the node a voter (`raft` 507); the join task promotes all members at once (`raft` 619) | two AddPeer calls, or one beside the join task, each replace the whole voter set by what they read (`raft` 512, 620) | RaftMembership |
| AllJoin | configured peers are brought in and become voters (`raft` 344) | the task sees its own uncommitted change and ends (`raft` 597); a second loss of leadership undoes it | RaftMembership, `MaxLosses = 2` |
| AckedOnDisk | openraft is told that the log is persisted ("通知 openraft 日志已持久化", `log_store.rs` 206) | the batch is not synced (`log_store.rs` 202): a power loss takes it back | RaftLogStore |
| PurgedGone | purge deletes everything up to the position it records (`log_store.rs` 227) | with everything purged, a restart reports no position (`log_store.rs` 138) and the log begins again below it | RaftLogStore |
| EveryRequestEnds | SQL queries are concurrent ("支持并发查询", `laoflchdb_sql_df_engine/README.md` 298) | `drop_table` holds the engine and waits for SQL (`mod.rs` 461), `sql_query` the other way round | run schema_deadlock |
| RecreateWorks | an existing example schema is dropped and created again (`LAOFLCHDB_USAGE.md` 111) | `drop_schema` leaves the tables registered, which keep the directory locked (`mod.rs` 154) | SchemaService |
| SqlRegistersMissing | `sql_query` registers missing schemas and tables ("注册缺失的 schema 和表", `mod.rs` 591) | the futures are never awaited (`mod.rs` 622) | SchemaService |
| RefreshSucceeds | `refresh_tables` answers the refreshed tables (`gRPC_API.md` 676) | a registered table is registered again, which fails (`sql` 272) | SchemaService |
| CreationVerified | `create_table` verifies that the table was created (`mod.rs` 435) | the table is dropped during the 100 ms, and registered and acknowledged all the same | SchemaService |
| DroppedStaysGone | a dropped table is deregistered (`mod.rs` 463) | the CREATE that was asleep registers it after the DROP answered | SchemaService |
| CreatedForSql | a created table is registered in DataFusion (`mod.rs` 450) | in a schema whose name is not plain (a capital, a hyphen) the registration fails and is only logged (`sql` 245) | SchemaService |
| StartWorks | `init` is idempotent ("幂等", `README.md` 1325) | a crash between the family `user` and its entry makes every later start fail (`multi_table_rocksdb.rs` 100) | TableCatalog |
| AdminExists | `init` creates the user admin (`README.md` 1067) | a crash before the row, which no later start writes (line 168) | TableCatalog |
| Searchable | vectors are persistent with managed snapshots (`README.md` 1488); snapshots are for recovery (`embedding` 171); `building` is set during manual rebuilds (line 181) | a start from an older snapshot; a second save that keeps only the nodes changed since the first (line 387); an insert during a rebuild request (line 1323); a vector that the graph refuses (line 701); a delete that RocksDB fails and that answers success (line 937) | EmbeddingIndex, `Early = FALSE`, `Cancels = FALSE`, `Ops` = insert (refused) or insert, delete; the others likewise, without RefuseNode and StorageFails in Work: insert, save / insert, save, quit with `Crashes = FALSE` / insert, rebuild with `Crashes = FALSE` |
| NoGhosts | deleting keeps both sides the same ("保证两者一致", `embedding` 930) | an insert and a delete of one id interleave | EmbeddingIndex, `Early = FALSE`, `Ops` = insert, delete |
| KeysMaintained | mutations maintain the edge key and both adjacency keys (`graph` 20) | an insert and a delete of one edge at once | GraphStore |
| EndsExist | both ends must exist (`graph` 727); deleting a node deletes its edges (line 703) | a node deleted between the look-up and the writes; an insert a crash cut off | GraphStore |
| UpdatesKept | `update_node` merges properties (`graph` 679) | two updates read the same old value | GraphStore, `Fields = {f1, f2}` |
| CreateIdempotent | creating a bucket is idempotent (`README.md` 392, `design.md` 1316) | two creations at once: the second finds the family there and fails (`objects` 125) | ObjectStore |
| HeadersReturned | GetObject returns the bytes with their headers (`design.md` 1320) | a kill between the two writes (`objects` 254) | ObjectStore |
| ListingWorks | ListBuckets returns all buckets (`design.md` 1315) | a kill inside `drop_table` (`kv` 495) leaves a name on which the listing fails | ObjectStore |
| AllBucketsListed | the same | a bucket named "default" exists in RocksDB without an entry (`objects` 124) | ObjectStore |
| EverythingListed | `next_marker` is where the next page starts, `is_truncated` whether `max_keys` was reached (`gRPC_API.md` 1286) | backwards, the marker was deleted (`kv` 271); keys folded into prefixes are not counted (`objects` 466) | ObjectListing |
| FoldersHide | keys of a folder are filed under its prefix (`design.md` 1331) | only the first key of each folder on a page is (`objects` 411) | ObjectListing |
| MarkersContinue | a listing goes on from NextMarker (`S3_API.md` 120) | S3 encodes the marker in its answer and does not decode it in the next request: keys with a slash are listed again and again | ObjectListing |
| UploadsWhole | large objects can be uploaded (`S3_API.md` 169) | of a body past the limit nothing is read, and an empty object is stored and acknowledged | ObjectFronts |
| UnderItsName | the same objects through gRPC, REST and S3 (`README.md` 388, `S3_API.md` 5) | S3 drops the slash at the end of a name, REST the one in front | ObjectFronts, `Names` with a slash in front for REST |
| SignedAccepted | AWS Signature V4 (`S3_API.md` 7) | two values of one parameter out of order, a run of spaces in a header, a request dated by `date` | ObjectFronts, `Signatures <- OddSignatures` |
| RowsAlwaysFit | a row is converted by its columns' types (`rest.rs` 884) | the table is dropped and created again between the two calls of the insert | Access |
| UpdatesFit | as for an insert; the comment at `rest.rs` 436 says that byte arrays are hexadecimal | an update takes every text for bytes, whatever the column (`rest.rs` 491) | Access |
| KeysDistinct | a key is what the client wrote (`rest.rs` 475) | a text of hexadecimal digits is taken for the bytes it stands for, which another text also is | Access |
| ImagesUntagged | deleting a tag removes it from all images (`gRPC_API.md` 1705) | rewritten documents move out of the page being read, so the next page skips others (`image` 2402) | Tags |
| IndexedFound | `is_indexed` says that a vector is there (`gRPC_API.md` 1432) | `index_image` with another `index_name` sets it too (`image` 1692); an overwriting upload deletes the vector of a duplicate in another bucket, whose metadata stays (`image` 1136) | ImageStore |
| KeysOnce | a class has a face once: `save_face_to_class` refuses one that it has (`face` 2073) | `create_face_class` takes its keys as they come (`face` 1698) | FaceClasses |
| IndexesRestored | a start restores the indexes from disk (`tantivy` 103) | a stop while the meta file is rewritten (`tantivy` 232): the index is passed over | TextIndex |
| ExactAsDocumented | a filter reported Exact gives the rows that filtering in memory gives (`rocksdb_table.rs` 544) | a column compared with a column or through a cast, and an OR of which one side is dropped | TableRows, `Queries <- OddQueries` |
| CountsRows | `COUNT(*)` counts the rows (`README.md` 1551) | a scan of no columns yields no rows | TableRows, `Queries <- OddQueries` |
| OffsetSkips | `offset` is the number of results to skip (`gRPC_API.md` 564) | an offset without a limit, or one past the last row, panics (`multi_table_rocksdb.rs` 664) | TableRows |
| ValuesShown | an answer shows what the rows hold | one row with an empty field makes the whole column its default | TableRows, `RowData <- OddRows` |
| TopTakesKeys | each popup is drawn as the topmost, with the keys it takes ("浮在最顶层", `ui.rs` 110-120) | keys go to another popup first | Tool |
| DeletesAsked | the action popup is opened on the selected vector and deletes it (`handler.rs` 1203) | a click, F3, F4 or the drop-down changes the selection or the list under it | Tool |
| FacesNeverTorn | deleting a face deletes picture and vector (`tab_face.rs` 531) | the failure of the second is only logged | Tool |

## The proofs

Eight modules `*_proofs` hold what `tlapm` proves, for every value of the
constants: any number of nodes, keys, callers, crashes and so on. The assumptions
are the named ASSUMEs of each module, which TLC evaluates in the runs: bounds are
natural numbers (`MaxDepth` is what `clamp(1, 16)` leaves), flags are Boolean, and
a value that stands for "none" is none of the values it stands beside
(`AbsentAssumption`, `GoneAssumption`, `NoneAssumption` and the like). Of the sets only
the ids of the embedding index (`ReadsAssumption`), and the images and classes that
carry tags (`TagsAssumption`), are assumed finite: their numbers are compared. `Stores_proofs` covers RaftLogStore, TableCatalog
and TextIndex, `Fronts_proofs` ObjectStore, ObjectListing, ObjectFronts and Access,
`Parts_proofs` GraphStore and the client (Tool and its tabs), `Media_proofs` FaceClasses and
ImageStore, `Index_proofs` the embedding index and Tags; the others are named after
their module. (The lemmas on filtered sequences, `PlacesInOrder` and `Filtered`, stand
in both `Media_proofs` and `Index_proofs`, whose modules cannot be extended together.)

| theorems | argument |
|---|---|
| RaftKvStateMachine: TypeCorrect, Exactness, Visibility, Agreement, SnapshotsCorrect, SyncCopy, CopyOrigin, PurgeSafe (all from Invariant), Refinement | PrimaryExact is not inductive: it says nothing of a node that is replaying. The invariant says, key by key, that the table lies *between* the entries given to this process and all it ever reflected (`TableInv`), that a table under installation holds the pairs loaded so far, and that a key on which the synchronous copy differs is written again by an entry still to come (`SyncInv`). When the two ends of "between" meet, the table is exact. Visibility is about one process: its lower end is what this process has applied, 0 after a restart. The first part of the module has the lemmas about prefixes of the log. *Refinement* is WalksTheLog under `MaxRestarts = 0`: then nothing is given to a node twice, so the position it has reached, and that of every snapshot, names the prefix its table is of (`WalkInv`, `Shown`); each action maps to a step of ReplicatedKv or a stutter (the `...Implements` lemmas). A restart is excluded because a replay takes a durable table back through states it has left. |
| RaftMembership: MembershipInvariant, AddsKept, RemovesKept, MembershipType, VotersOnlyJoin | While no two calls have met, at most one is active and what it is about to ask for agrees with everything answered before (`GoalOK`, `ChangeInv`); the committed membership is the effective one or one joint step behind. VotersOnlyJoin is about steps: what a call without removals holds includes every voter there is (`GrowInv`), so the whole set it asks for does. |
| RaftLogStore: StoreAsBelieved, AckedEntriesDurable | StoreMatches says nothing of the state a power loss goes back to; `LogInv` says of it, too, that it has no gap (`Gapless`). The order of the keys is that of the indexes in every radix (`KeyOrder`), without which a range read or deleted would be another. |
| SchemaService: CreatedTablesVisible, DroppedTablesGone, EnginesNotReplaced | A task that has opened an engine is its only owner (`Exclusive`), because RocksDB's lock on the directory decides the race. What a statement has done to its engine is still there when it reaches the SQL catalog, unless a DROP has overtaken a CREATE (`DdlOK`). That needs the queues: a DROP holds its engine's write lock from the engine to its answer (`WaitOK`), asks are ordered (`QueueInv`), and so nobody is granted the lock beside it (`NoneBeside`). A CREATE that waits or sleeps meanwhile either has done nothing, or is what `overtaken` names. |
| TableCatalog: TableIdsUnique, TablesStayWhole | The counter is beyond every id, in the entries and in what a power loss leaves, and the id of a running call is nobody else's. For TablesStayWhole the invariant says what each write of a call has made of its table so far (`InTheMaking`), and that every other table is complete or gone (`AtRest`). |
| TextIndex: DocumentsStayKept | A folder that nothing is at work on and nothing interrupted is what was promised (`Settled`, `Stored`); while a call runs, `Creating` and `Changing` say, write by write, what is there already. |
| GraphStore (Parts_proofs): GraphWhole | The first part of EdgesWhole is not inductive: `GraphInv` says, for each request that met no other, which of the keys of its edge it has written, and that of two requests at work on one edge both know they met (`Apart`). The path part is about walks: one that is not the shortest can be cut (`WalkCut`), so a closed set that misses the goal bounds all of them (`WalkJoins`), and two nodes that stored edges join have a walk through no node twice, no longer than there are nodes (`JoinedWalk`, from the least counterexample, `Least`). |
| The client (Parts_proofs): PopupsDeleteShown, FacesStayPaired | Each tab's invariant says what an open delete popup still promises: the key and bucket, or the row and index, that Enter would delete now (`PromiseOK`, `FaceInv`, `StorageInv`, `VectorInv`); the vector tab's, only as long as what Enter means is still the same, which `Under` notes (`moved`). It is kept because a key that reaches the list under a popup changes the list only (`PageReloaded`, `PageTurned`). FacesPaired relates the tabs through the server: a picture nothing made doubtful is in one bucket (`StoreInv`), and a key the image tab listed from one bucket stays out of all others (`Homed`), so that deleting it there cannot part a face. |
| Access (Fronts_proofs): CallsWellDecided, RowsReadBackAsSent | A token is there exactly as long as its login was not taken back, and runs out when its time is over (`SessionInv`); a narrower rule refuses what the other refuses because each step of `CheckPermission` does (`NarrowerRefuses`). For the rows: one of the table's kind has the value that was sent, and one that REST added has that kind (`RowOK`), because the fields a request has converted are of the kind of the table it looked at, should that one still be there (`FieldOK`). |
| EmbeddingIndex, EmbeddingReads (Index_proofs): SidesAgree, ReadsTellAnswers | Two tasks that change one id know that they met (`Meets`); what an undisturbed task has done so far still holds (`Halfway`): an insert has stored its vector and noted whether it is unfit, a rebuild has seen exactly the fit ones. A request that the graph refuses leaves what `Matched` allows, an unfit vector or a node that was there already; one whose storage call fails marks its id. For the reads, what was said of an id (history) is true of RocksDB (`LookedUp`); that is kept because nothing is said of an id while a request is at work on it (`Unsaid`), because a request that met no other on its id still finds there what it wrote when it answers (`Written`), and because two that meet both know (`Aware`); `SaidInv` is the four together. The rest is about one state: the first `n` places of a query are all of them once `n` reaches the number of ids (`FirstOfAll`), and doubling rounds get there (`PowerGrows`), so searches, filtered searches and lists all see exactly what is stored. |
| FaceClasses (Media_proofs): ClassesStayWhole, FacesIndexedOnce | ClassWhole says nothing of a class while a request is at it. `ClassInv` says what an undisturbed request has made of its class step by step (`AtClass`): the document it is going to write is whole (`GoodDocument`), the medoid in the index is still the old one, none, or the new one, and the old document is there until it is dropped; and that two requests at one class both know (`clash`). That the medoid is the nearest rests on two facts: filtering leaves the keys at the places it keeps, and all of them when it keeps all places (`Filtered`, from the places being numbered in order, `PlacesInOrder`), whether the keys are distinct or not, and a vector once given to a face never changes, it can only be forgotten, so a document whose faces all have vectors was chosen among the same vectors. An extraction that has chosen its face, and met no other of its vector, knows that nobody has a face of that vector; two that meet both know (`FaceInv`). A face that is being indexed is nobody else's, since its id was drawn unused. |
| ImageStore (Media_proofs): ImagesWhole, PicturesIndexedOnce | A request that nobody disturbed knows what is stored of the image it is at, step by step (`AtWork`); two requests that share a key both know it (`clash`), and an image that no request is at and nothing made doubtful is `Sound`: graph and RocksDB have its vector or neither has, and without an image neither has one (`Unindexed`). An insert into another index says nothing of "image", so it makes its image doubtful, as does taking away a vector that another bucket's image shares (`Shared`). A deletion takes the doubt away only when no other bucket holds anything of the key. PicturesIndexedOnce adds that nobody has the vector that an upload is about to insert, but the duplicates it is still to delete (`Unmatched`), unless two uploads of the picture met, which both know (`twin`): a lookup that found nothing stays true until the insert. For a rebuild, RocksDB has the vectors of the graph but for excused keys (`StoredInv`). |
| Tags (Index_proofs): TagsAreWhole | TagsWhole says nothing of a tag while a request is at it. Requests that may meet are marked (`Pairs`), so an undisturbed one still finds no document where it has deleted one and will add it (`Gap`). The items that *have* a tag are those whose document says so and those whose document is just being rewritten with it (`Have`); this set changes in one step only, the delete before the rewrite (`Turning`, `HasStep`). Of every tag nobody asked to delete and no disturbed request was at (`Calm`), each request knows what is true (`Fine`): what it has read is still what the items have (`ReadOK`), whoever has changed the items owes the counter exactly one (`Owes`, `Paid`), and the tag's document is there, or is being created or renewed (`Told`); when nobody owes, the counter is the number of items (`FineAll`). For deletions, `Sweep` says where the documents with the tag still are, beyond the offset of the scan or among those in hand, unless a rewrite moved them; and what an undisturbed deletion has left, no request can bring back (`Staying`, `Harmless`), because all that are given the tag look for its document first. |
| ObjectStore (Fronts_proofs): ObjectsWhole, BucketsWhole, TypeCorrect | Who is between the two writes of an object or of a bucket holds the mutex (`LockHeld`), and everything that nobody is in the middle of is in order (`HeadersBut`, `NamesBut`). |
| ObjectListing (Fronts_proofs): WalksAreExact | A walk has come as far as its marker: it has listed nothing beyond it, and each object before it once, and without a delimiter all that stayed there (`Walked`). A page is the first keys of what is ahead, in order: the place of a key among finitely many is a bijection (`OrderIsExact`, `PageIsFirst`), so what a page leaves out comes after all it lists (`PageStep`). Backwards the marker must still be there, which is what `lost` records. |
| ObjectFronts (Fronts_proofs): DownloadsStayWhole (under `SignedAlike`) | No two objects are of one put (`ObjectsOK`), so what a client has collected under one ETag is of one put, whose size it knows (`DownloadOK`). `SignedAlike` says that a request is signed with `x-amz-date`, spaces after commas, no runs of spaces, and no query parameter twice, as the run's signatures are: then the server computes the signature the client did, since sorting by name and sorting by name and value agree (`SortedAlike`). Without it SignedAccepted is refuted, see above. |

Only model-checked: all liveness (AllApplied, AllJoin, EndsUncrossed, WalkEnds),
since TLAPS does not reason about fairness and ENABLED here; and AnswersExact,
whose module evaluates filters by RECURSIVE operators, of which the provers know
nothing.

## What is not covered

- The full-text copy of image metadata (`image_meta`), and the REST routers of the
  graph, Raft, image, face and index services, which make the same calls as gRPC.
- Of a search in the embedding service, how the library finds the nearest nodes;
  of the graph service, GraphQL, paging and edge types.
- Passwords and their hashes: a login is right or wrong.
- A power loss under the text index, whose commits tantivy syncs; detection,
  alignment and features of faces, distances of vectors.
- openraft, RocksDB, tokio's locks, DataFusion, tantivy and the HNSW library are
  external and modelled only by what the code relies on.
- In `drop_class`, counters of tags that cannot be adjusted, which are noted and
  passed over (`face` 1864), and the limit of 100 documents of the search it makes.
- Concurrent saves of one embedding index.
- Contents: encodings, filters, SQL planning, vectors and pictures.
- Vector, reranker and summariser services: model inference without kept state.
- Configuration, command line and protocol crates: parsing and generated code.
  Of the client, the SQL, class and index tabs and the drawing.

## The plan

1. Queries of the graph service step by step, beside mutations.
2. Abstract specifications: an atomic object store that ObjectStore implements
   while no kill happens; a catalog of tables that TableCatalog implements.

New components join an existing run where they share a module, so that each run
keeps answering one question.
