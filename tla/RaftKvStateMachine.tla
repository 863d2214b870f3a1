------------------------- MODULE RaftKvStateMachine -------------------------
(***************************************************************************)
(* RaftKvStateMachine (laoflchdb_raft_service/src/state_machine.rs) on the *)
(* nodes of one Raft group: the task that applies committed entries to the *)
(* primary engine kvdb and to the optional copy dual_write, the snapshots  *)
(* it hands out and installs, and what a restart forgets.                  *)
(*                                                                         *)
(* openraft 0.9 is outside src/ and enters only through the calls it makes:*)
(* one worker per node runs apply, install_snapshot and                    *)
(* get_current_snapshot one after the other; build_snapshot runs beside it *)
(* and only the meta it returns is kept, to purge the log behind it; a     *)
(* follower too far behind the purge point is sent the leader's current    *)
(* snapshot.  Only committed entries appear in log, and a leader has them  *)
(* all.                                                                    *)
(***************************************************************************)
EXTENDS RaftKvLog, FiniteSets

CONSTANTS
  Nodes,           \* the nodes of the group
  Bootstrap,       \* the one whose configuration says bootstrap = true
  NoNode,
  DualMode,        \* by node, "off", "sync" or "async": dual_write and DualWriteMode
  PrimaryDurable,  \* by node, kvdb is the rocksdb engine (TRUE) or the memory one
  DualDurable,     \* the same for the copy
  KeepLogs,        \* entries kept behind a snapshot when purging
  MaxLog,          \* bound on the log length at which clients stop writing
  MaxRestarts,     \* bound on process restarts
  MaxFailures      \* bound on engine writes that fail

ASSUME NodeAssumption == Bootstrap \in Nodes /\ NoNode \notin Nodes
ASSUME ModeAssumption ==
  /\ DualMode \in [Nodes -> {"off", "sync", "async"}]
  /\ PrimaryDurable \in [Nodes -> BOOLEAN] /\ DualDurable \in [Nodes -> BOOLEAN]
ASSUME BoundAssumption ==
  KeepLogs \in Nat /\ MaxLog \in Nat /\ MaxRestarts \in Nat /\ MaxFailures \in Nat

VARIABLES
  log,           \* the group's committed entries
  leader,        \* the current leader, or NoNode
  last_log,      \* last_log[n]: how far n's Raft log reaches
  purged,        \* purged[n]: entries up to here are gone from n's log
  last_applied,  \* last_applied[n], 0 for None; lives in memory only
  membership,    \* membership[n]: index of the configuration in force, memory only
  kvdb,          \* kvdb[n]: the table group_<id> in the primary engine
  dual_write,    \* dual_write[n]: the same table in the copy
  tasks,         \* tasks[n]: spawned writes to the copy that have not run
  pc,            \* pc[n]: where n's worker is
  upto,          \* upto[n]: the last entry of the batch being applied
  inst,          \* inst[n]: the snapshot being installed
  left,          \* left[n]: keys of that snapshot still to be written
  cur,           \* cur[n]: key written to the primary, not yet to the copy
  snap_index,    \* snap_index[n]: openraft's last built snapshot, memory only
  snaps,         \* snapshots sent; they may arrive late, twice or never
  reached,       \* history: the highest entry kvdb[n] ever reflected
  restarts, failures

logVars   == <<log, leader, last_log>>
stateVars == <<last_applied, membership, kvdb, reached>>
workVars  == <<upto, inst, left, cur>>
envVars   == <<snaps, restarts, failures>>
vars == <<log, leader, last_log, purged, last_applied, membership, kvdb,
          dual_write, tasks, pc, upto, inst, left, cur, snap_index, snaps,
          reached, restarts, failures>>

NoSnapshot == [index |-> 0, seen |-> 0, data |-> Empty, config |-> 0]

Init ==
  /\ log = <<ConfigEntry>>
  /\ leader = NoNode
  /\ last_log = [n \in Nodes |-> IF n = Bootstrap THEN 1 ELSE 0]
  /\ purged = [n \in Nodes |-> 0]
  /\ last_applied = [n \in Nodes |-> 0]
  /\ membership = [n \in Nodes |-> 0]
  /\ kvdb = [n \in Nodes |-> Empty]
  /\ dual_write = [n \in Nodes |-> Empty]
  /\ tasks = [n \in Nodes |-> {}]
  /\ pc = [n \in Nodes |-> "idle"]
  /\ upto = [n \in Nodes |-> 0]
  /\ inst = [n \in Nodes |-> NoSnapshot]
  /\ left = [n \in Nodes |-> {}]
  /\ cur = [n \in Nodes |-> NoKey]
  /\ snap_index = [n \in Nodes |-> 0]
  /\ snaps = {}
  /\ reached = [n \in Nodes |-> 0]
  /\ restarts = 0 /\ failures = 0

MaxOf(a, b) == IF a > b THEN a ELSE b

-----------------------------------------------------------------------------
(* openraft's side: the log *)

\* A node whose log is complete wins the election and commits a blank entry.
Elect(n) ==
  /\ leader = NoNode /\ pc[n] # "fatal"
  /\ last_log[n] = Len(log)
  /\ leader' = n
  /\ log' = Append(log, BlankEntry)
  /\ last_log' = [last_log EXCEPT ![n] = Len(log) + 1]
  /\ UNCHANGED <<purged, stateVars, dual_write, tasks, pc, workVars,
                 snap_index, envVars>>

\* kv_put, kv_delete and the membership calls: Raft::client_write on the leader.
ClientWrite(e) ==
  /\ leader # NoNode /\ Len(log) < MaxLog
  /\ log' = Append(log, e)
  /\ last_log' = [last_log EXCEPT ![leader] = Len(log) + 1]
  /\ UNCHANGED <<leader, purged, stateVars, dual_write, tasks, pc, workVars,
                 snap_index, envVars>>

\* The leader's log reader still has the follower's next entry.
Replicate(n) ==
  /\ leader \notin {NoNode, n} /\ pc[n] # "fatal"
  /\ last_log[n] < Len(log) /\ purged[leader] <= last_log[n]
  /\ last_log' = [last_log EXCEPT ![n] = @ + 1]
  /\ UNCHANGED <<log, leader, purged, stateVars, dual_write, tasks, pc,
                 workVars, snap_index, envVars>>

-----------------------------------------------------------------------------
(* apply *)

\* openraft hands the worker the entries after last_applied, up to the commit
\* index it knows of; it refuses to read a range that was purged.
BeginApply(n) ==
  /\ pc[n] = "idle"
  /\ purged[n] <= last_applied[n] /\ last_applied[n] < last_log[n]
  /\ \E u \in (last_applied[n] + 1)..last_log[n] : upto' = [upto EXCEPT ![n] = u]
  /\ pc' = [pc EXCEPT ![n] = "entry"]
  /\ UNCHANGED <<logVars, purged, stateVars, dual_write, tasks, inst, left,
                 cur, snap_index, envVars>>

\* The primary half of put_kv / delete_kv, or the membership assignment.
ApplyEntry(n) ==
  LET i == last_applied[n] + 1  e == log[i] IN
  /\ pc[n] = "entry"
  /\ IF e.key \in Keys
       THEN /\ kvdb' = [kvdb EXCEPT ![n][e.key] = e.value]
            /\ pc' = [pc EXCEPT ![n] = IF DualMode[n] = "off" THEN "mark" ELSE "entry_dual"]
       ELSE /\ pc' = [pc EXCEPT ![n] = "mark"]
            /\ UNCHANGED kvdb
  /\ membership' = IF e.payload = "membership"
                     THEN [membership EXCEPT ![n] = i] ELSE membership
  /\ reached' = [reached EXCEPT ![n] = MaxOf(@, i)]
  /\ UNCHANGED <<logVars, purged, last_applied, dual_write, tasks, workVars,
                 snap_index, envVars>>

\* Variants: delete_kv forgets the copy; the task reads the key when it runs.
WriteDualPuts(n, i, k, v) ==
  \/ /\ DualMode[n] = "sync"
     /\ dual_write' = IF v = NoValue THEN dual_write
                                     ELSE [dual_write EXCEPT ![n][k] = v]
     /\ UNCHANGED tasks
  \/ /\ DualMode[n] = "async"
     /\ tasks' = [tasks EXCEPT ![n] = @ \cup {[seq |-> i, key |-> k, value |-> v]}]
     /\ UNCHANGED dual_write
WriteDualLate(n, i, k, v) ==
  /\ tasks' = [tasks EXCEPT ![n] = @ \cup
        {[seq |-> i, key |-> k, value |-> log[MaxOf(upto[n], 1)].value]}]
  /\ UNCHANGED dual_write

\* The copy's half: awaited in sync mode, spawned and forgotten in async mode.
WriteDual(n, i, k, v) ==
  \/ /\ DualMode[n] = "sync"
     /\ dual_write' = [dual_write EXCEPT ![n][k] = v]
     /\ UNCHANGED tasks
  \/ /\ DualMode[n] = "async"
     /\ tasks' = [tasks EXCEPT ![n] = @ \cup {[seq |-> i, key |-> k, value |-> v]}]
     /\ UNCHANGED dual_write

ApplyDual(n) ==
  LET i == last_applied[n] + 1 IN
  /\ pc[n] = "entry_dual"
  /\ WriteDual(n, i, log[i].key, log[i].value)
  /\ pc' = [pc EXCEPT ![n] = "mark"]
  /\ UNCHANGED <<logVars, purged, stateVars, workVars, snap_index, envVars>>

\* As if the whole batch were marked at once.
BatchApplied(n) == upto[n]
AppliedAfter(n) == last_applied[n] + 1

\* *last_applied.write() = Some(log_id), then the next entry of the batch.
MarkApplied(n) ==
  /\ pc[n] = "mark"
  /\ last_applied' = [last_applied EXCEPT ![n] = AppliedAfter(n)]
  /\ pc' = [pc EXCEPT ![n] = IF AppliedAfter(n) = upto[n] THEN "idle" ELSE "entry"]
  /\ UNCHANGED <<logVars, purged, membership, kvdb, reached, dual_write,
                 tasks, workVars, snap_index, envVars>>

\* A spawned task runs, in no particular order, or its write fails and the
\* failure is only logged.
RunTask(n, t) ==
  /\ tasks' = [tasks EXCEPT ![n] = @ \ {t}]
  /\ \/ /\ dual_write' = [dual_write EXCEPT ![n][t.key] = t.value]
        /\ UNCHANGED failures
     \/ /\ failures < MaxFailures
        /\ failures' = failures + 1
        /\ UNCHANGED dual_write
  /\ UNCHANGED <<logVars, purged, stateVars, pc, workVars, snap_index, snaps,
                 restarts>>

\* An engine call the worker awaits returns an error: apply or
\* install_snapshot returns StorageError and openraft stops this node.
EngineFails(n) ==
  /\ \/ pc[n] = "entry" /\ log[last_applied[n] + 1].key \in Keys
     \/ pc[n] = "load" /\ left[n] # {}
     \/ pc[n] = "clear_dual"
     \/ pc[n] \in {"entry_dual", "load_dual"} /\ DualMode[n] = "sync"
  /\ failures < MaxFailures
  /\ failures' = failures + 1
  /\ pc' = [pc EXCEPT ![n] = "fatal"]
  /\ leader' = IF leader = n THEN NoNode ELSE leader
  /\ UNCHANGED <<log, last_log, purged, stateVars, dual_write, tasks, workVars,
                 snap_index, snaps, restarts>>

-----------------------------------------------------------------------------
(* snapshots *)

\* The index in the meta of build_snapshot.  Variants: the index after it; the
\* end of the batch being applied.
NextIndex(n)  == last_applied[n] + 1
BatchIndex(n) == MaxOf(upto[n], last_applied[n])
MetaIndex(n)  == last_applied[n]

\* build_snapshot, spawned beside the worker: openraft keeps meta.last_log_id.
BuildSnapshot(n) ==
  /\ pc[n] # "fatal" /\ MetaIndex(n) > snap_index[n]
  /\ snap_index' = [snap_index EXCEPT ![n] = MetaIndex(n)]
  /\ UNCHANGED <<logVars, purged, stateVars, dual_write, tasks, pc, workVars,
                 envVars>>

\* RaftLogStore::purge behind the snapshot.
Purge(n) ==
  /\ pc[n] # "fatal"
  /\ \E p \in (purged[n] + 1)..(snap_index[n] - KeepLogs) : purged' = [purged EXCEPT ![n] = p]
  /\ UNCHANGED <<logVars, stateVars, dual_write, tasks, pc, workVars,
                 snap_index, envVars>>

\* The snapshot get_current_snapshot builds.  (seen is history: what the table
\* ever reflected, which after a restart can be more than index says.)
\* Variants: meta.last_log_id stays None; it is the last built snapshot's.
UnnamedSnapshot(n) ==
  [index |-> 0, seen |-> reached[n], data |-> kvdb[n], config |-> membership[n]]
OldMetaSnapshot(n) ==
  [index |-> snap_index[n], seen |-> reached[n], data |-> kvdb[n],
   config |-> membership[n]]
CurrentSnapshot(n) ==
  [index |-> last_applied[n], seen |-> reached[n], data |-> kvdb[n],
   config |-> membership[n]]

\* The worker builds it between two applies, for a follower whose next entry
\* the leader no longer has.
GetCurrentSnapshot(n) ==
  /\ pc[n] = "idle" /\ leader = n
  /\ \E m \in Nodes : last_log[m] < purged[n]
  /\ snaps' = snaps \cup {CurrentSnapshot(n)}
  /\ UNCHANGED <<logVars, purged, stateVars, dual_write, tasks, pc, workVars,
                 snap_index, restarts, failures>>

\* What clear_kv leaves of a table.  Variant: it is not called.
NotCleared(c) == c
Cleared(c)    == Empty

\* install_snapshot: deserialize_state clears the primary ...
BeginInstall(n, s) ==
  /\ pc[n] = "idle" /\ leader # n /\ s.index > last_applied[n]
  /\ kvdb' = [kvdb EXCEPT ![n] = Cleared(@)]
  /\ inst' = [inst EXCEPT ![n] = s]
  /\ left' = [left EXCEPT ![n] = {k \in Keys : s.data[k] # NoValue}]
  /\ reached' = [reached EXCEPT ![n] = MaxOf(@, s.seen)]
  /\ pc' = [pc EXCEPT ![n] = IF DualMode[n] = "off" THEN "load" ELSE "clear_dual"]
  /\ UNCHANGED <<logVars, purged, last_applied, membership, dual_write, tasks,
                 upto, cur, snap_index, envVars>>

\* ... then the copy ...
ClearDual(n) ==
  /\ pc[n] = "clear_dual"
  /\ dual_write' = [dual_write EXCEPT ![n] = Cleared(@)]
  /\ pc' = [pc EXCEPT ![n] = "load"]
  /\ UNCHANGED <<logVars, purged, stateVars, tasks, workVars, snap_index,
                 envVars>>

\* ... then writes the pairs back one by one through put_kv.
LoadPair(n, k) ==
  /\ pc[n] = "load" /\ k \in left[n]
  /\ kvdb' = [kvdb EXCEPT ![n][k] = inst[n].data[k]]
  /\ left' = [left EXCEPT ![n] = @ \ {k}]
  /\ cur' = [cur EXCEPT ![n] = k]
  /\ pc' = [pc EXCEPT ![n] = IF DualMode[n] = "off" THEN "load" ELSE "load_dual"]
  /\ UNCHANGED <<logVars, purged, last_applied, membership, reached,
                 dual_write, tasks, upto, inst, snap_index, envVars>>

LoadDual(n) ==
  /\ pc[n] = "load_dual"
  /\ WriteDual(n, inst[n].index, cur[n], inst[n].data[cur[n]])
  /\ pc' = [pc EXCEPT ![n] = "load"]
  /\ UNCHANGED <<logVars, purged, stateVars, workVars, snap_index, envVars>>

\* Variant: meta.last_membership is not adopted.
KeptConfig(n)    == membership[n]
AdoptedConfig(n) == inst[n].config

\* The meta is adopted last; openraft then drops the log the snapshot covers.
FinishInstall(n) ==
  /\ pc[n] = "load" /\ left[n] = {}
  /\ last_applied' = [last_applied EXCEPT ![n] = inst[n].index]
  /\ membership' = [membership EXCEPT ![n] = AdoptedConfig(n)]
  /\ last_log' = [last_log EXCEPT ![n] = MaxOf(@, inst[n].index)]
  /\ purged' = [purged EXCEPT ![n] = MaxOf(@, inst[n].index)]
  /\ snap_index' = [snap_index EXCEPT ![n] = MaxOf(@, inst[n].index)]
  /\ inst' = [inst EXCEPT ![n] = NoSnapshot]
  /\ cur' = [cur EXCEPT ![n] = NoKey]
  /\ pc' = [pc EXCEPT ![n] = "idle"]
  /\ UNCHANGED <<log, leader, kvdb, reached, dual_write, tasks, upto, left,
                 envVars>>

-----------------------------------------------------------------------------
\* The process dies and starts again: RaftKvStateMachine::new knows neither
\* what was applied nor the membership; open_storage reopens a rocksdb table
\* as it was and a memory one empty; spawned tasks are gone.  get_log_state
\* reports no last log when every entry was purged, so openraft takes such a
\* node for a new one and its log is filled again from the leader.
Restart(n) ==
  /\ restarts < MaxRestarts
  /\ restarts' = restarts + 1
  /\ leader' = IF leader = n THEN NoNode ELSE leader
  /\ last_applied' = [last_applied EXCEPT ![n] = 0]
  /\ membership' = [membership EXCEPT ![n] = 0]
  /\ kvdb' = IF PrimaryDurable[n] THEN kvdb ELSE [kvdb EXCEPT ![n] = Empty]
  /\ dual_write' = IF DualDurable[n] THEN dual_write
                                  ELSE [dual_write EXCEPT ![n] = Empty]
  /\ tasks' = [tasks EXCEPT ![n] = {}]
  /\ pc' = [pc EXCEPT ![n] = "idle"]
  /\ inst' = [inst EXCEPT ![n] = NoSnapshot]
  /\ left' = [left EXCEPT ![n] = {}]
  /\ cur' = [cur EXCEPT ![n] = NoKey]
  /\ upto' = [upto EXCEPT ![n] = 0]
  /\ snap_index' = [snap_index EXCEPT ![n] = 0]
  /\ IF last_log[n] = purged[n]
       THEN /\ last_log' = [last_log EXCEPT ![n] = 0]
            /\ purged' = [purged EXCEPT ![n] = 0]
       ELSE UNCHANGED <<last_log, purged>>
  /\ UNCHANGED <<log, snaps, reached, failures>>

Worker(n) ==
  \/ BeginApply(n) \/ ApplyEntry(n) \/ ApplyDual(n) \/ MarkApplied(n)
  \/ GetCurrentSnapshot(n)
  \/ \E s \in snaps : BeginInstall(n, s)
  \/ ClearDual(n) \/ (\E k \in Keys : LoadPair(n, k)) \/ LoadDual(n)
  \/ FinishInstall(n)

Next ==
  \/ \E e \in Requests : ClientWrite(e)
  \/ \E n \in Nodes :
       \/ Elect(n) \/ Replicate(n) \/ Worker(n)
       \/ \E t \in tasks[n] : RunTask(n, t)
       \/ EngineFails(n) \/ BuildSnapshot(n) \/ Purge(n) \/ Restart(n)

Spec == Init /\ [][Next]_vars

\* The worker, replication and elections keep running; snapshots are sent and
\* installed when they are needed.  Clients, purging, failures, restarts and
\* the copy's spawned tasks owe nothing.
Fairness ==
  \A n \in Nodes :
    WF_vars(Elect(n)) /\ WF_vars(Replicate(n)) /\ WF_vars(Worker(n))

FairSpec == Spec /\ Fairness
-----------------------------------------------------------------------------
(* Properties *)

Index    == 0..Len(log)
Snapshot == [index : Nat, seen : Nat, data : Contents, config : Nat]
Task     == [seq : Nat, key : Keys, value : Values \cup {NoValue}]
Places   == {"idle", "entry", "entry_dual", "mark", "clear_dual", "load",
             "load_dual", "fatal"}

\* Every variable has its type; the positions are positions of the log.
TypeOK ==
  /\ log \in Seq(Entries) /\ leader \in Nodes \cup {NoNode}
  /\ last_log \in [Nodes -> Index] /\ purged \in [Nodes -> Index]
  /\ last_applied \in [Nodes -> Index] /\ membership \in [Nodes -> Index]
  /\ reached \in [Nodes -> Index] /\ snap_index \in [Nodes -> Index]
  /\ upto \in [Nodes -> Index]
  /\ kvdb \in [Nodes -> Contents] /\ dual_write \in [Nodes -> Contents]
  /\ tasks \in [Nodes -> SUBSET Task]
  /\ pc \in [Nodes -> Places]
  /\ inst \in [Nodes -> Snapshot] /\ left \in [Nodes -> SUBSET Keys]
  /\ cur \in [Nodes -> Keys \cup {NoKey}]
  /\ snaps \subseteq Snapshot
  /\ restarts \in Nat /\ failures \in Nat

\* install_snapshot has started on n and its meta is not adopted yet.
Installing(n) == inst[n].index > 0

\* n's worker is between two calls and has caught up with everything its
\* table ever reflected, so a replay after a restart is over.
CaughtUp(n) == pc[n] = "idle" /\ last_applied[n] >= reached[n]

\* c holds, key by key, values the log produced at or after entry low and
\* not after entry high.
Between(low, high, c) ==
  \A k \in Keys : \E m \in low..high : ValueAfter(log, m, k, c[k])

\* However often a node restarts (replaying entries over a table that already
\* reflects later ones), installs snapshots and crashes inside an install:
\* once it has caught up, the primary engine holds exactly what the first
\* last_applied entries produce (apply, install_snapshot).
PrimaryExact ==
  \A n \in Nodes : CaughtUp(n) => ContentsAfter(log, last_applied[n], kvdb[n])

\* What kv_get reads outside an install is at least as new as the entries this
\* process has acknowledged, and nothing the log has not given yet: while a
\* process lives, an entry whose apply it acknowledged stays visible (apply,
\* install_snapshot).  A restart forgets last_applied and kv_get waits for
\* nothing, so of what an earlier process acknowledged this says only that a
\* replay brings back values of the log; see AckedStaysVisible.
AppliedVisible ==
  \A n \in Nodes :
    ~Installing(n) => Between(last_applied[n], reached[n], kvdb[n])

\* Two nodes that have caught up to the same entry hold the same table and
\* the same membership.
ReplicasAgree ==
  \A m, n \in Nodes :
    CaughtUp(m) /\ CaughtUp(n) /\ last_applied[m] = last_applied[n]
      => kvdb[m] = kvdb[n] /\ membership[m] = membership[n]

\* A snapshot that was sent and can be installed carries the table and the
\* configuration of the entry it names: get_current_snapshot reads the three
\* of them with three awaits, but the worker applies nothing in between.
SnapshotsExact ==
  \A s \in snaps :
    /\ Between(s.index, s.seen, s.data)
    /\ ConfigAfter(log, s.index, s.config)

\* DualWriteMode::Sync: a caught-up worker leaves the copy equal to the
\* primary, whatever failed, restarted or was installed before.
SyncCopyEqual ==
  \A n \in Nodes :
    DualMode[n] = "sync" /\ CaughtUp(n) => dual_write[n] = kvdb[n]

\* Whatever the order in which spawned writes run, and whichever of them fail,
\* the copy never holds a value the log did not give that key by then.
CopyFromLog == \A n \in Nodes : Between(0, reached[n], dual_write[n])

\* Only entries the node's table has reflected are ever purged from its log,
\* so that purging behind a snapshot never costs a committed command.
PurgedReflected == \A n \in Nodes : purged[n] <= reached[n]

\* Every node ends up having applied everything that was committed, by the log
\* or by a snapshot of what the leader has purged, unless an engine write that
\* failed has stopped a node.
AllApplied ==
  \/ <>[](\A n \in Nodes : last_applied[n] = Len(log))
  \/ <>(\E n \in Nodes : pc[n] = "fatal")

\* The detailed nodes implement ReplicatedKv as long as no process restarts: a
\* node's table steps through the log's states or jumps to a later one.  While
\* a snapshot is being installed the table it stands for is the snapshot's.
Abstract == INSTANCE ReplicatedKv WITH
  index <- reached,
  table <- [n \in Nodes |-> IF Installing(n) THEN inst[n].data ELSE kvdb[n]]

WalksTheLog == Abstract!Spec

-----------------------------------------------------------------------------
(* What comments of the code say and the code does not keep. *)

\* DualWriteMode::Async promises an eventually consistent copy (lib.rs:62):
\* with no write in flight and no install under way it equals the primary.
\* Refuted by two spawned writes of one key that run in the other order.
AsyncCopyConverges ==
  \A n \in Nodes :
    DualMode[n] = "async" /\ CaughtUp(n) /\ tasks[n] = {}
      => dual_write[n] = kvdb[n]

\* kv_get reads the state machine itself (lib.rs:409): between two batches it
\* shows what was last acknowledged, also by an earlier process.  Refuted by a
\* replay: put v1, put v2, restart, apply the first entry again.
AckedStaysVisible ==
  \A n \in Nodes :
    pc[n] = "idle" /\ ~Installing(n) => ContentsAfter(log, reached[n], kvdb[n])

\* The memory engine's data comes back by replaying the Raft log after a
\* restart (storage.rs:47): the entries still to be applied are still in the
\* log.  Refuted by a purge followed by a restart (PrimaryDurable AllInMemory).
ReplayPossible == \A n \in Nodes : purged[n] <= last_applied[n]
=============================================================================
