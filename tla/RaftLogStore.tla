---------------------------- MODULE RaftLogStore ----------------------------
(***************************************************************************)
(* RaftLogStore (laoflchdb_raft_service/src/log_store.rs): the log entries *)
(* and the vote of one node in RocksDB, next to what openraft believes is  *)
(* stored.  Every call is one WriteBatch over both column families, written*)
(* without sync: a process that dies loses nothing, a machine that loses   *)
(* power loses the batches written after some point.                       *)
(*                                                                         *)
(* Log indexes start at 1 here, so that 0 is None.  RocksDB orders the log *)
(* by key; the key of an index is its big-endian bytes, of which two       *)
(* digits in base Radix stand for the eight in base 256.                   *)
(***************************************************************************)
EXTENDS Integers, Sequences

CONSTANTS
  Radix,      \* 256 in the code
  MaxIndex,   \* bound on log indexes
  MaxTerm,    \* bound on terms
  MaxBatch,   \* bound on the entries of one append
  MaxLogStops \* bound on crashes and power losses together
CONSTANT
  LogPowerFails  \* whether the machine may lose power, not only the process die

ASSUME RadixAssumption == Radix \in Nat \ {0}
ASSUME BoundAssumption ==
  /\ MaxIndex \in Nat /\ MaxIndex < Radix * Radix
  /\ MaxTerm \in Nat /\ MaxBatch \in Nat /\ MaxLogStops \in Nat
ASSUME FlagAssumption == LogPowerFails \in BOOLEAN

Indexes == 1..MaxIndex
Terms   == 1..MaxTerm

VARIABLES
  logs,         \* column family raft_logs: index -> term of the entry
  last_purged,  \* raft_meta / last_purged, 0 when absent
  vote,         \* raft_meta / vote: the term voted in, 0 when absent
  onDisk,       \* the contents a power loss would bring back
  mem,          \* what openraft remembers: log (as logs), last, purged, vote
  acked,        \* history: entries openraft was told are flushed and has
                \* neither truncated nor purged
  power_lost,   \* history: the machine has lost power
  logStops

disk == [logs |-> logs, last_purged |-> last_purged, vote |-> vote]
logVars == <<logs, last_purged, vote, onDisk, mem, acked, power_lost, logStops>>

NoLog == [i \in {} |-> 0]

LogInit ==
  /\ logs = NoLog /\ last_purged = 0 /\ vote = 0
  /\ onDisk = disk
  /\ mem = [log |-> NoLog, last |-> 0, purged |-> 0, vote |-> 0]
  /\ acked = NoLog
  /\ power_lost = FALSE /\ logStops = 0

Keep(f, s) == [i \in DOMAIN f \cap s |-> f[i]]
Put(f, s, t) == [i \in DOMAIN f \cup s |-> IF i \in s THEN t ELSE f[i]]

-----------------------------------------------------------------------------
(* keys *)

\* Variant: to_le_bytes.
LittleEndian(i) == <<i % Radix, i \div Radix>>
log_key(i)      == <<i \div Radix, i % Radix>>

\* The order RocksDB keeps keys in: byte by byte.
Before(k, l) == k[1] < l[1] \/ (k[1] = l[1] /\ k[2] < l[2])

\* last_log_index: the key an iterator finds first from the end.
IsLastIndex(f, i) ==
  /\ i \in DOMAIN f
  /\ \A j \in DOMAIN f \ {i} : Before(log_key(j), log_key(i))

-----------------------------------------------------------------------------
(* the calls of RaftLogStorage *)

Written(ls, lp, v) ==
  /\ logs' = ls /\ last_purged' = lp /\ vote' = v
  /\ UNCHANGED onDisk

\* append, then log_io_completed(Ok): openraft appends behind its last entry.
append(n, t) ==
  LET new == (mem.last + 1)..(mem.last + n) IN
  /\ n > 0 /\ new \subseteq Indexes
  /\ \A i \in DOMAIN mem.log : mem.log[i] <= t
  /\ Written(Put(logs, new, t), last_purged, vote)
  /\ mem' = [mem EXCEPT !.log = Put(@, new, t), !.last = mem.last + n]
  /\ acked' = Put(acked, new, t)
  /\ UNCHANGED <<power_lost, logStops>>

\* Indexes truncate(log_id) leaves.  Variants: log_id stays; its predecessor
\* goes too.
UpTo(i)     == 1..i
WellBelow(i) == 1..(i - 2)
Below(i)    == 1..(i - 1)

\* A new leader's entries conflict with those from i on.
truncate(i) ==
  /\ i \in DOMAIN mem.log
  /\ Written(Keep(logs, Below(i)), last_purged, vote)
  /\ mem' = [mem EXCEPT !.log = Keep(@, 1..(i - 1)), !.last = i - 1]
  /\ acked' = Keep(acked, 1..(i - 1))
  /\ UNCHANGED <<power_lost, logStops>>

\* Indexes purge(log_id) leaves.  Variant: log_id itself stays.
From(i)   == i..MaxIndex
Beyond(i) == (i + 1)..MaxIndex

\* Behind a snapshot, which may reach past the end of the log.
purge(i) ==
  /\ i \in Indexes /\ i > mem.purged
  /\ Written(Keep(logs, Beyond(i)), i, vote)
  /\ mem' = [mem EXCEPT !.log = Keep(@, (i + 1)..MaxIndex), !.purged = i,
                        !.last = IF i > @ THEN i ELSE @]
  /\ acked' = Keep(acked, (i + 1)..MaxIndex)
  /\ UNCHANGED <<power_lost, logStops>>

save_vote(v) ==
  /\ v \in Terms /\ v > mem.vote
  /\ Written(logs, last_purged, v)
  /\ mem' = [mem EXCEPT !.vote = v]
  /\ UNCHANGED <<acked, power_lost, logStops>>

\* The WAL reaches the disk, up to the latest batch or, when this happens
\* early, to any batch before it.
SyncLog ==
  /\ LogPowerFails /\ onDisk # disk
  /\ onDisk' = disk
  /\ UNCHANGED <<logs, last_purged, vote, mem, acked, power_lost, logStops>>

-----------------------------------------------------------------------------
(* start *)

\* openraft reads vote and get_log_state; without a last log it takes the log
\* for empty, whatever was purged before.
Recovered(d, m) ==
  /\ m.vote = d.vote /\ m.log = d.logs
  /\ \/ /\ DOMAIN d.logs = {}
        /\ m.last = 0 /\ m.purged = 0
     \/ \E i \in DOMAIN d.logs :
          /\ IsLastIndex(d.logs, i)
          /\ m.last = i
          /\ m.purged = d.last_purged

Recover(d) ==
  /\ logStops < MaxLogStops
  /\ logStops' = logStops + 1
  /\ logs' = d.logs /\ last_purged' = d.last_purged /\ vote' = d.vote
  /\ \E l, p \in 0..MaxIndex :
       LET m == [log |-> d.logs, last |-> l, purged |-> p, vote |-> d.vote]
       IN  Recovered(d, m) /\ mem' = m
  /\ UNCHANGED acked

LogCrash == Recover(disk) /\ UNCHANGED <<onDisk, power_lost>>
LogPowerLoss ==
  /\ LogPowerFails /\ Recover(onDisk)
  /\ power_lost' = TRUE /\ UNCHANGED onDisk

LogNext ==
  \/ \E n \in 1..MaxBatch, t \in Terms : append(n, t)
  \/ \E i \in Indexes : truncate(i) \/ purge(i)
  \/ \E v \in Terms : save_vote(v)
  \/ SyncLog \/ LogCrash \/ LogPowerLoss

LogSpec == LogInit /\ [][LogNext]_logVars
-----------------------------------------------------------------------------
(* Properties *)

Log == UNION {[s -> Terms] : s \in SUBSET Indexes}
Disk == [logs : Log, last_purged : 0..MaxIndex, vote : 0..MaxTerm]
Mem == [log : Log, last : 0..MaxIndex, purged : 0..MaxIndex, vote : 0..MaxTerm]

\* Every variable has its type.
LogTypeOK ==
  /\ disk \in Disk /\ onDisk \in Disk
  /\ mem \in Mem /\ acked \in Log
  /\ power_lost \in BOOLEAN /\ logStops \in Nat

\* The stored indexes have no gap and end at the last one openraft knows of,
\* which it will append behind.
Contiguous ==
  \E lo \in 0..MaxIndex :
    /\ DOMAIN logs = (lo + 1)..mem.last \/ (DOMAIN logs = {} /\ lo = mem.last)

\* What the log readers return for any range is what openraft believes is
\* stored, and it ends where openraft believes it ends: through truncation, a
\* purge past the end, crashes and power losses in any order.
StoreMatches == logs = mem.log /\ Contiguous

\* As long as only processes die, an entry openraft was told is flushed is
\* there until it is truncated or purged.
AckedDurable ==
  ~power_lost => \A i \in DOMAIN acked : i \in DOMAIN logs /\ logs[i] = acked[i]

-----------------------------------------------------------------------------
(* Claims of the source that TLC refutes with the constants of               *)
(* Stores.cfg.                                                             *)

\* append tells openraft that the entries are persisted: also after a power
\* loss.  Refuted: the WAL is not synced.
AckedOnDisk == \A i \in DOMAIN acked : i \in DOMAIN logs /\ logs[i] = acked[i]

\* purge deletes everything up to the position it records: no entry at or
\* below last_purged is stored.  Refuted: a restart with everything purged
\* reports no position, and the log begins at its start again.
PurgedGone == DOMAIN logs \subseteq Beyond(last_purged)
=============================================================================
