---------------------------- MODULE EmbeddingIndex ----------------------------
(* One index of the embedding service (laoflchdb_embedding_service/src/lib.rs):
   the vectors in RocksDB, the HNSW graph in memory, and the snapshot files.

   Handlers run concurrently and change the two sides in separate steps.  The
   graph is locked for reading while a vector is inserted and during a whole
   save, for writing while one is removed and while it is replaced; RocksDB is
   locked for single calls only.  A rebuild reads RocksDB, builds a new graph
   aside, puts it in place and saves it.  The flag `building` turns requests
   away, all but rebuild requests.

   Vectors are abstracted to their ids, and to whether a graph need take them.
   Storage calls may fail.  One save runs at a time.                         *)
EXTENDS FiniteSets, Integers

CONSTANTS
  Vecs,       \* vector ids
  Callers,    \* handlers that may run at the same time
  Boot,       \* the rebuild task of the start
  Ops,        \* the requests the callers make
  Mode,       \* startup_mode: "snapshot" or "rebuild"
  Early,      \* TRUE: requests may come before the rebuild of the start has begun
  Crashes,    \* TRUE: the process may be killed
  Cancels,    \* TRUE: callers may go away
  MaxCalls,   \* bound: how many requests are made
  MaxStops    \* bound: how often the process stops

Single  == {"insert", "delete", "entry_stored", "entry_node", "entry_both"}
Whole   == {"save", "load", "rebuild", "quit"}
AllOps  == Single \cup Whole \cup {"none", "boot"}
Tasks   == Callers \cup {Boot}

ASSUME EmbeddingAssumption ==
  /\ Vecs # {} /\ Boot \notin Callers /\ Ops \subseteq Single \cup Whole
  /\ Mode \in {"snapshot", "rebuild"} /\ Early \in BOOLEAN
  /\ Crashes \in BOOLEAN /\ Cancels \in BOOLEAN
  /\ MaxCalls \in Nat /\ MaxStops \in Nat

VARIABLES
  up,        \* the process runs
  stored,    \* ids in RocksDB
  unfit,     \* ids whose stored vector has NaN or infinities in it, or another
             \* dimension or format than the configuration now says
  graph,     \* ids in the graph
  dirty,     \* nodes changed since they were last saved
  files,     \* the snapshot: [meta, ids, nodes], meta "none", "empty" or "whole"
  building,  \* the flag
  task,      \* what each handler does: [op, id, step, seen, met, mixed]
  said,      \* history: what the last undisturbed request on an id answered
  torn,      \* history: ids whose two sides need not agree
  calls, stops

disk == <<stored, unfit>>
vars == <<up, disk, graph, dirty, files, building, task, said, torn, calls, stops>>

Steps == {"none", "stored", "node", "unfit", "flag", "scan", "swap", "meta",
          "ids", "create", "nodes", "read", "load"}

\* seen: ids read or left to save; met: ids of which another request was under
\* way meanwhile, mixed: of the same id.
TypeOK ==
  /\ up \in BOOLEAN /\ stored \subseteq Vecs /\ unfit \subseteq stored
  /\ graph \subseteq Vecs
  /\ dirty \subseteq Vecs /\ building \in BOOLEAN /\ torn \subseteq Vecs
  /\ files \in [meta: {"none", "empty", "whole"}, ids: SUBSET Vecs,
                nodes: SUBSET Vecs]
  /\ task \in [Tasks -> [op: AllOps, id: Vecs, step: Steps, seen: SUBSET Vecs,
                         met: SUBSET Vecs, mixed: BOOLEAN]]
  /\ said \in [Vecs -> {"nothing", "inserted", "deleted"}]
  /\ calls \in 0..MaxCalls /\ stops \in 0..MaxStops

Free == [op |-> "none", id |-> CHOOSE i \in Vecs : TRUE, step |-> "none",
         seen |-> {}, met |-> {}, mixed |-> FALSE]

\* The ids a task changes: its own, or all of them until the graph is swapped.
Scope(k) ==
  IF k.op \in Single THEN {k.id}
  ELSE IF k.step \in {"flag", "scan", "swap", "read", "load"} THEN Vecs ELSE {}

-----------------------------------------------------------------------------
(* Beginning and ending.                                                     *)

FirstStep(op) ==
  CASE op \in {"insert", "entry_stored", "entry_both"} -> "stored"
    [] op \in {"delete", "entry_node"} -> "node"
    [] op \in {"save", "quit"} -> "meta"
    [] op = "load" -> "read"
    [] op = "rebuild" -> "scan"
    [] op = "boot" -> "flag"

New(op, i) == [Free EXCEPT !.op = op, !.id = i, !.step = FirstStep(op)]

\* The tasks with t begun, each noting whom it meets.
Joined(t, k) ==
  [u \in Tasks |->
     IF u = t
     THEN [k EXCEPT !.met = UNION {Scope(task[v]) \cap Scope(k) : v \in Tasks},
                    !.mixed = \E v \in Tasks : task[v].op \in Single /\ k.op \in Single
                                               /\ task[v].id = k.id]
     ELSE [task[u] EXCEPT !.met = @ \cup (Scope(task[u]) \cap Scope(k)),
                          !.mixed = @ \/ (/\ task[u].op \in Single /\ k.op \in Single
                                          /\ task[u].id = k.id)]]

\* check_building, which a rebuild request and the save at shutdown pass by.
MayEnter(op) ==
  /\ op \in {"rebuild", "quit"} \/ ~building
  /\ Early \/ task[Boot].step # "flag"

Requests == {r \in Ops \X Vecs : r[1] \in Single \/ r[2] = Free.id}

Call(t, op, i) ==
  /\ up /\ task[t].op = "none" /\ calls < MaxCalls /\ MayEnter(op)
  /\ op = "quit" => stops < MaxStops /\ \A u \in Tasks : task[u].op # "quit"
  /\ task' = Joined(t, New(op, i))
  /\ said' = IF op \in Single THEN [said EXCEPT ![i] = "nothing"] ELSE said
  /\ calls' = calls + 1
  /\ UNCHANGED <<up, disk, graph, dirty, files, building, torn, stops>>

\* An answer: whatever the request did not share is clean, the rest is torn.
\* Deleting one side alone is meant to leave the sides different.
Answered(t) ==
  LET k == task[t] IN
  /\ task' = [task EXCEPT ![t] = Free]
  /\ torn' = IF k.op \in {"entry_stored", "entry_node"} THEN torn \cup {k.id}
             ELSE (torn \ {k.id}) \cup k.met
  /\ said' = [said EXCEPT ![k.id] =
                IF k.mixed \/ k.op = "entry_node" THEN @
                ELSE IF k.op = "insert" THEN "inserted" ELSE "deleted"]

StepTo(t, s) == task' = [task EXCEPT ![t].step = s]

-----------------------------------------------------------------------------
(* insert_embedding, delete_embedding, delete_embedding_entry.               *)

\* The vector is stored whatever numbers are in it.
PutStored(t) ==
  /\ task[t].op = "insert" /\ task[t].step = "stored"
  /\ stored' = stored \cup {task[t].id}
  /\ \/ unfit' = unfit \ {task[t].id} /\ StepTo(t, "node")
     \/ unfit' = unfit \cup {task[t].id} /\ StepTo(t, "unfit")
  /\ UNCHANGED <<up, graph, dirty, files, building, said, torn, calls, stops>>

\* Inserting changes the node and some neighbours.
InsertNode(t) ==
  /\ task[t].op = "insert" /\ task[t].step \in {"node", "unfit"}
  /\ graph' = graph \cup {task[t].id}
  /\ \E ns \in SUBSET graph : dirty' = dirty \cup ns \cup {task[t].id}
  /\ Answered(t)
  /\ UNCHANGED <<up, disk, files, building, calls, stops>>

\* The library refuses the vector, or an id that it has already.  The request
\* ends with an error, and what it has stored stays.
RefuseNode(t) ==
  LET k == task[t] IN
  /\ k.op = "insert"
  /\ k.step = "unfit" \/ (k.step = "node" /\ k.id \in graph)
  /\ task' = [task EXCEPT ![t] = Free]
  /\ torn' = (torn \ {k.id}) \cup k.met
  /\ UNCHANGED <<up, disk, graph, dirty, files, building, said, calls, stops>>

\* A storage call fails.  An insert and the deletion of an entry then answer the
\* error; a delete, which has taken the node out of the graph, answers success
\* and leaves the vector stored.
StorageFails(t) ==
  /\ task[t].op \in Single /\ task[t].step = "stored"
  /\ task' = [task EXCEPT ![t] = Free]
  /\ torn' = torn \cup {task[t].id}
  /\ UNCHANGED <<up, disk, graph, dirty, files, building, said, calls, stops>>

\* A save under way holds the lock for reading.
Writable == \A u \in Tasks : task[u].step \notin {"ids", "create", "nodes"}

\* Variant: delete_embedding answers at once when the graph has no such node.
RemoveNodeOrEnd(t) ==
  /\ task[t].op \in {"delete", "entry_node", "entry_both"} /\ task[t].step = "node"
  /\ Writable
  /\ graph' = graph \ {task[t].id} /\ dirty' = dirty \ {task[t].id}
  /\ IF task[t].op = "delete" /\ task[t].id \in graph
     THEN StepTo(t, "stored") /\ UNCHANGED <<said, torn>>
     ELSE Answered(t)
  /\ UNCHANGED <<up, disk, files, building, calls, stops>>

RemoveNode(t) ==
  /\ task[t].op \in {"delete", "entry_node", "entry_both"} /\ task[t].step = "node"
  /\ Writable
  /\ graph' = graph \ {task[t].id}
  /\ \E ns \in SUBSET (graph \ {task[t].id}) :
       dirty' = (dirty \ {task[t].id}) \cup ns
  /\ IF task[t].op = "delete"
     THEN StepTo(t, "stored") /\ UNCHANGED <<said, torn>>
     ELSE Answered(t)
  /\ UNCHANGED <<up, disk, files, building, calls, stops>>

DeleteStored(t) ==
  /\ task[t].op \in {"delete", "entry_stored", "entry_both"}
  /\ task[t].step = "stored"
  /\ stored' = stored \ {task[t].id} /\ unfit' = unfit \ {task[t].id}
  /\ IF task[t].op = "entry_both"
     THEN StepTo(t, "node") /\ UNCHANGED <<said, torn>>
     ELSE Answered(t)
  /\ UNCHANGED <<up, graph, dirty, files, building, calls, stops>>

-----------------------------------------------------------------------------
(* save_snapshot_internal.  The library hands over the dirty nodes only, and
   may write no metadata when nothing changed; every file is begun anew.     *)

SaveMeta(t) ==
  /\ task[t].step = "meta"
  /\ Writable
  /\ \E m \in {"whole"} \cup (IF dirty = {} THEN {"empty"} ELSE {}) :
       files' = [files EXCEPT !.meta = m]
  /\ StepTo(t, "ids")
  /\ UNCHANGED <<up, disk, graph, dirty, building, said, torn, calls, stops>>

SaveIds(t) ==
  /\ task[t].step = "ids"
  /\ files' = [files EXCEPT !.ids = graph]
  /\ StepTo(t, "create")
  /\ UNCHANGED <<up, disk, graph, dirty, building, said, torn, calls, stops>>

CreateNodesFile(t) ==
  /\ task[t].step = "create"
  /\ files' = [files EXCEPT !.nodes = {}]
  /\ task' = [task EXCEPT ![t].step = "nodes", ![t].seen = dirty]
  /\ dirty' = {}
  /\ UNCHANGED <<up, disk, graph, building, said, torn, calls, stops>>

SaveNode(t) ==
  \E i \in task[t].seen :
    /\ task[t].step = "nodes"
    /\ files' = [files EXCEPT !.nodes = @ \cup {i}]
    /\ task' = [task EXCEPT ![t].seen = @ \ {i}]
    /\ UNCHANGED <<up, disk, graph, dirty, building, said, torn, calls, stops>>

\* The rebuild of the start clears the flag and saves once more; the save at
\* shutdown is the last thing the process does.
Saved(t) ==
  /\ task[t].step = "nodes" /\ task[t].seen = {}
  /\ CASE task[t].op = "boot" ->
            /\ building' = FALSE
            /\ task' = [task EXCEPT ![t] = New("save", Free.id)]
            /\ UNCHANGED <<up, torn, stops>>
       [] task[t].op = "quit" ->
            /\ up' = FALSE /\ stops' = stops + 1
            /\ torn' = torn \cup UNION {Scope(task[u]) : u \in Tasks}
            /\ task' = [u \in Tasks |-> Free]
            /\ UNCHANGED building
       [] OTHER ->
            /\ task' = [task EXCEPT ![t] = Free]
            /\ UNCHANGED <<up, building, torn, stops>>
  /\ UNCHANGED <<disk, graph, dirty, files, said, calls>>

-----------------------------------------------------------------------------
(* load_snapshot_internal.                                                   *)

\* What a load makes of the files: the nodes whose ids are listed.
Loadable == files.meta = "whole"
Loaded   == files.ids \cap files.nodes

ReadNodes(t) ==
  /\ task[t].step = "read"
  /\ task' = IF files.meta = "none" THEN [task EXCEPT ![t] = Free]
             ELSE [task EXCEPT ![t].step = "load", ![t].seen = files.nodes]
  /\ UNCHANGED <<up, disk, graph, dirty, files, building, said, torn, calls, stops>>

LoadIds(t) ==
  /\ task[t].step = "load"
  /\ task' = IF Loadable
             THEN [task EXCEPT ![t].step = "swap", ![t].seen = @ \cap files.ids]
             ELSE [task EXCEPT ![t] = Free]
  /\ UNCHANGED <<up, disk, graph, dirty, files, building, said, torn, calls, stops>>

SwapLoaded(t) ==
  /\ task[t].op = "load" /\ task[t].step = "swap" /\ Writable
  /\ graph' = task[t].seen /\ dirty' = {}
  /\ task' = [task EXCEPT ![t] = Free]
  /\ torn' = Vecs
  /\ UNCHANGED <<up, disk, files, building, said, calls, stops>>

-----------------------------------------------------------------------------
(* rebuild_index_from_rocks_db, by request or at the start.                  *)

SetBuilding(t) ==
  /\ task[t].step = "flag"
  /\ building' = TRUE
  /\ StepTo(t, "scan")
  /\ UNCHANGED <<up, disk, graph, dirty, files, said, torn, calls, stops>>

\* A vector that cannot be read, has another dimension or holds NaN or an
\* infinity is skipped.
Scan(t) ==
  /\ task[t].step = "scan"
  /\ task' = [task EXCEPT ![t].step = "swap", ![t].seen = stored \ unfit]
  /\ UNCHANGED <<up, disk, graph, dirty, files, building, said, torn, calls, stops>>

\* Variant: the scanned vectors are added to the graph in use.
MergeRebuilt(t) ==
  /\ task[t].op \in {"rebuild", "boot"} /\ task[t].step = "swap" /\ Writable
  /\ graph' = graph \cup task[t].seen
  /\ dirty' = graph'
  /\ task' = [task EXCEPT ![t].step = "meta", ![t].seen = {}]
  /\ torn' = task[t].met
  /\ UNCHANGED <<up, disk, files, building, said, calls, stops>>

SwapRebuilt(t) ==
  /\ task[t].op \in {"rebuild", "boot"} /\ task[t].step = "swap" /\ Writable
  /\ graph' = task[t].seen /\ dirty' = task[t].seen
  /\ task' = [task EXCEPT ![t].step = "meta", ![t].seen = {}]
  /\ torn' = task[t].met
  /\ UNCHANGED <<up, disk, files, building, said, calls, stops>>

\* The scan or an insertion into the new graph fails.  The start goes on with
\* the empty graph it has, clearing the flag and saving.
RebuildFails(t) ==
  /\ task[t].op \in {"rebuild", "boot"} /\ task[t].step \in {"scan", "swap"}
  /\ IF task[t].op = "boot"
     THEN /\ building' = FALSE
          /\ task' = [task EXCEPT ![t] = New("save", Free.id)]
          /\ torn' = Vecs
     ELSE /\ task' = [task EXCEPT ![t] = Free]
          /\ UNCHANGED <<building, torn>>
  /\ UNCHANGED <<up, disk, graph, dirty, files, said, calls, stops>>

-----------------------------------------------------------------------------
(* The process and its callers.                                              *)

\* The start loads the snapshot, or rebuilds in the background when that gives
\* nothing or the mode says so.  The configuration may have another dimension or
\* format since the last stop.
Start ==
  /\ ~up /\ up' = TRUE /\ building' = FALSE
  /\ stored' = stored /\ \E ids \in SUBSET stored : unfit' = unfit \cup ids
  /\ dirty' = {}
  /\ IF Mode = "snapshot" /\ Loadable /\ Loaded # {}
     THEN graph' = Loaded /\ torn' = Vecs /\ UNCHANGED task
     ELSE /\ graph' = {}
          /\ task' = Joined(Boot, New("boot", Free.id))
          /\ UNCHANGED torn
  /\ UNCHANGED <<files, said, calls, stops>>

Crash ==
  /\ up /\ Crashes /\ stops < MaxStops
  /\ up' = FALSE /\ stops' = stops + 1
  /\ torn' = torn \cup UNION {Scope(task[t]) : t \in Tasks}
  /\ task' = [t \in Tasks |-> Free]
  /\ UNCHANGED <<disk, graph, dirty, files, building, said, calls>>

\* A handler is dropped wherever it waits.
Cancel(t) ==
  /\ Cancels /\ task[t].op \notin {"none", "quit"}
  /\ torn' = IF task[t].op \in Single THEN torn \cup {task[t].id} ELSE torn
  /\ task' = [task EXCEPT ![t] = Free]
  /\ UNCHANGED <<up, disk, graph, dirty, files, building, said, calls, stops>>

Init ==
  /\ up = FALSE /\ building = FALSE
  /\ stored = {} /\ unfit = {} /\ graph = {} /\ dirty = {}
  /\ files = [meta |-> "none", ids |-> {}, nodes |-> {}]
  /\ task = [t \in Tasks |-> Free]
  /\ said = [i \in Vecs |-> "nothing"] /\ torn = {}
  /\ calls = 0 /\ stops = 0

Work(t) ==
  \/ PutStored(t) \/ InsertNode(t) \/ RefuseNode(t) \/ RemoveNode(t)
  \/ DeleteStored(t) \/ StorageFails(t)
  \/ SaveMeta(t) \/ SaveIds(t) \/ CreateNodesFile(t) \/ SaveNode(t) \/ Saved(t)
  \/ ReadNodes(t) \/ LoadIds(t) \/ SwapLoaded(t)
  \/ SetBuilding(t) \/ Scan(t) \/ SwapRebuilt(t) \/ RebuildFails(t)

Next ==
  \/ Start \/ Crash
  \/ \E t \in Callers :
       \/ \E r \in Requests : Call(t, r[1], r[2])
       \/ Cancel(t)
  \/ \E t \in Tasks : Work(t)

Spec == Init /\ [][Next]_vars

-----------------------------------------------------------------------------
(* Properties.                                                               *)

\* Both sides have an id or neither has; only an unfit vector may be stored and
\* lack a node.
Matched(i) ==
  /\ i \in graph => i \in stored
  /\ i \in stored \ unfit => i \in graph

\* The graph and RocksDB match on every id that no request is changing, unless
\* requests on it overlapped, one was cut off, had its storage call fail or
\* deleted one side only, a rebuild overlapped with it or failed at the start, or
\* a snapshot was loaded.  A request on the id, or a rebuild, that nothing
\* disturbs makes the two match again, also when the graph refuses the vector.
AgreeUnlessTorn ==
  up => \A i \in Vecs \ torn :
          (\A t \in Tasks : i \notin Scope(task[t])) => Matched(i)

-----------------------------------------------------------------------------
(* Claims of the docs and comments that TLC refutes with Early = FALSE.      *)

Quiet == up /\ \A t \in Tasks : task[t].op = "none"

\* With no request under way every stored vector can be found.  Refuted by a
\* start from a snapshot older than the last insert, by a second save, which
\* writes the nodes changed since the first one only, by a rebuild request
\* during which a vector is inserted, by a vector that the graph refuses, and by
\* a delete that answers success when RocksDB has failed.
Searchable == Quiet => stored \subseteq graph

\* With no request under way every vector found is stored.  Refuted by an
\* insert and a delete of one id at the same time.
NoGhosts == Quiet => graph \subseteq stored
=============================================================================
