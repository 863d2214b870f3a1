---------------------------- MODULE Stores_proofs ----------------------------
(***************************************************************************)
(* Proofs about what the process keeps on disk: the log store of a Raft    *)
(* node, the table catalog of a schema and the text indexes, each for any  *)
(* bounds and any crashes.                                                 *)
(***************************************************************************)
EXTENDS RaftLogStore, TableCatalog, TextIndex, TLAPS

--------------------------------------------------------------------------------
(* The log store of a Raft node.                                            *)

\* Without a gap, up to `last`.
Gapless(f, last) ==
  \E lo \in 0..MaxIndex :
    DOMAIN f = (lo + 1)..last \/ (DOMAIN f = {} /\ lo = last)

\* What a power loss would bring back is as gapless as what is stored.
LogInv ==
  /\ LogTypeOK
  /\ logs = mem.log
  /\ Gapless(logs, mem.last)
  /\ \E last \in 0..MaxIndex : Gapless(onDisk.logs, last)
  /\ AckedDurable

LEMMA LogFacts ==
  /\ \A f \in Log : /\ DOMAIN f \subseteq Indexes
                    /\ \A i \in DOMAIN f : f[i] \in Terms
                    /\ f = [i \in DOMAIN f |-> f[i]]
  /\ NoLog \in Log /\ DOMAIN NoLog = {}
  BY DEF Log, NoLog

\* Keeping and writing entries yields logs.
LEMMA KeepType ==
  ASSUME NEW f \in Log, NEW s
  PROVE  /\ Keep(f, s) \in Log
         /\ DOMAIN Keep(f, s) = DOMAIN f \cap s
         /\ \A i \in DOMAIN f \cap s : Keep(f, s)[i] = f[i]
  <1>1. DOMAIN f \cap s \in SUBSET Indexes
    BY LogFacts
  <1>2. Keep(f, s) \in [DOMAIN f \cap s -> Terms]
    BY LogFacts DEF Keep
  <1> QED
    BY <1>1, <1>2 DEF Log, Keep

LEMMA PutType ==
  ASSUME NEW f \in Log, NEW s \in SUBSET Indexes, NEW t \in Terms
  PROVE  /\ Put(f, s, t) \in Log
         /\ DOMAIN Put(f, s, t) = DOMAIN f \cup s
         /\ \A i \in DOMAIN f \cup s : Put(f, s, t)[i] = IF i \in s THEN t ELSE f[i]
  <1>1. DOMAIN f \cup s \in SUBSET Indexes
    BY LogFacts
  <1>2. Put(f, s, t) \in [DOMAIN f \cup s -> Terms]
    BY LogFacts DEF Put
  <1> QED
    BY <1>1, <1>2 DEF Log, Put

\* The order of the keys is the order of the indexes, so that the last key is
\* that of the last index.
LEMMA KeyOrder ==
  ASSUME NEW i \in Nat, NEW j \in Nat, Before(log_key(j), log_key(i))
  PROVE  j < i
  <1> DEFINE a == i \div Radix  b == i % Radix  c == j \div Radix  d == j % Radix
  <1>1. /\ Radix \in Nat /\ Radix > 0
        /\ a \in Nat /\ b \in 0..(Radix - 1) /\ i = Radix * a + b
        /\ c \in Nat /\ d \in 0..(Radix - 1) /\ j = Radix * c + d
    BY RadixAssumption
  <1>2. c < a \/ (c = a /\ d < b)
    BY DEF Before, log_key
  <1> HIDE DEF a, b, c, d
  <1>3. CASE c < a
    <2>1. a - c \in Nat /\ a - c >= 1
      BY <1>1, <1>3
    <2>2. Radix * (a - c) >= Radix
      BY <1>1, <2>1
    <2>3. Radix * a = Radix * c + Radix * (a - c)
      BY <1>1, <2>1
    <2> QED
      BY <1>1, <2>2, <2>3
  <1>4. CASE c = a /\ d < b
    BY <1>1, <1>4
  <1> QED
    BY <1>2, <1>3, <1>4

\* The last index the store finds in a gapless log is its end.
LEMMA LastFound ==
  ASSUME NEW f \in Log, NEW last \in 0..MaxIndex, Gapless(f, last),
         NEW i \in DOMAIN f, IsLastIndex(f, i)
  PROVE  i = last
  <1>1. PICK lo \in 0..MaxIndex : DOMAIN f = (lo + 1)..last
    BY DEF Gapless
  <1>2. MaxIndex \in Nat /\ i \in Nat /\ lo < i /\ i <= last /\ last \in DOMAIN f
    BY <1>1, BoundAssumption
  <1>3. CASE i # last
    <2>1. Before(log_key(last), log_key(i))
      BY <1>2, <1>3 DEF IsLastIndex
    <2>2. last < i
      BY <1>2, <2>1, KeyOrder
    <2> QED
      BY <1>2, <2>2
  <1> QED
    BY <1>3

\* Ranges of indexes: extended at the end, cut at the end and at the start.
LEMMA Ranges ==
  ASSUME NEW lo \in Int, NEW last \in Int, NEW i \in Int, NEW top \in Int, last <= top
  PROVE  /\ lo <= last /\ last <= i =>
              ((lo + 1)..last) \cup ((last + 1)..i) = (lo + 1)..i
         /\ i <= last /\ lo >= 0 => ((lo + 1)..last) \cap (1..i) = (lo + 1)..i
         /\ lo <= i => ((lo + 1)..last) \cap ((i + 1)..top) = (i + 1)..last
         /\ i <= lo => ((lo + 1)..last) \cap ((i + 1)..top) = (lo + 1)..last
  OBVIOUS

LEMMA LogInitInv == LogInit => LogInv
  <1> SUFFICES ASSUME LogInit PROVE LogInv
    OBVIOUS
  <1>1. NoLog \in Log /\ DOMAIN NoLog = {}
    BY LogFacts
  <1>2. MaxIndex \in Nat /\ MaxTerm \in Nat
    BY BoundAssumption
  <1>3. LogTypeOK
    <2>1. [logs |-> NoLog, last_purged |-> 0, vote |-> 0] \in Disk
      BY <1>1, <1>2 DEF Disk
    <2>2. [log |-> NoLog, last |-> 0, purged |-> 0, vote |-> 0] \in Mem
      BY <1>1, <1>2 DEF Mem
    <2> QED
      BY <1>1, <2>1, <2>2 DEF LogInit, LogTypeOK, disk
  <1>4. Gapless(NoLog, 0)
    BY <1>1, <1>2 DEF Gapless
  <1>5. logs = NoLog /\ mem.log = NoLog /\ mem.last = 0 /\ onDisk.logs = NoLog /\ acked = NoLog
    BY DEF LogInit, disk
  <1> QED
    BY <1>1, <1>2, <1>3, <1>4, <1>5 DEF LogInv, AckedDurable

\* What is kept of the log and of the entries acknowledged is as it was.
LEMMA KeptDurable ==
  ASSUME logs \in Log, acked \in Log, AckedDurable, NEW s, UNCHANGED power_lost,
         logs' = Keep(logs, s), acked' = Keep(acked, s)
  PROVE  AckedDurable'
  <1>1. /\ DOMAIN acked' = DOMAIN acked \cap s
        /\ \A j \in DOMAIN acked \cap s : acked'[j] = acked[j]
    BY KeepType
  <1>2. /\ DOMAIN logs' = DOMAIN logs \cap s
        /\ \A j \in DOMAIN logs \cap s : logs'[j] = logs[j]
    BY KeepType
  <1> QED
    BY <1>1, <1>2 DEF AckedDurable

LEMMA LogNextInv ==
  ASSUME LogInv, [LogNext]_logVars
  PROVE  LogInv'
  <1> USE DEF LogInv
  <1>0. /\ MaxIndex \in Nat /\ MaxTerm \in Nat
        /\ logs \in Log /\ last_purged \in 0..MaxIndex /\ vote \in 0..MaxTerm
        /\ onDisk \in Disk /\ onDisk.logs \in Log
        /\ mem \in Mem /\ mem.last \in 0..MaxIndex /\ mem.log = logs
        /\ acked \in Log /\ DOMAIN logs \subseteq 1..MaxIndex
    BY BoundAssumption, LogFacts DEF LogTypeOK, Disk, Mem, disk, Indexes
  \* append writes behind the last entry.
  <1>1. ASSUME NEW n \in 1..MaxBatch, NEW t \in Terms, append(n, t)
        PROVE  LogInv'
    <2> DEFINE new == (mem.last + 1)..(mem.last + n)
    <2>1. /\ n \in Nat /\ n > 0 /\ new \in SUBSET Indexes
          /\ logs' = Put(logs, new, t) /\ last_purged' = last_purged /\ vote' = vote
          /\ onDisk' = onDisk
          /\ mem' = [mem EXCEPT !.log = Put(@, new, t), !.last = mem.last + n]
          /\ acked' = Put(acked, new, t)
          /\ power_lost' = power_lost /\ logStops' = logStops
      BY <1>1, BoundAssumption DEF append, Written
    <2> HIDE DEF new
    <2>2. mem.last + n \in 0..MaxIndex
      BY <1>0, <2>1 DEF new, Indexes
    <2>3. logs' \in Log /\ acked' \in Log /\ mem'.log = logs' /\ mem' \in Mem
          /\ mem'.last = mem.last + n
      BY <1>0, <2>1, <2>2, PutType DEF Mem
    <2>4. LogTypeOK'
      BY <1>0, <2>1, <2>3 DEF LogTypeOK, Disk, disk
    <2>5. DOMAIN logs' = DOMAIN logs \cup new
      BY <1>0, <2>1, PutType
    <2>6. PICK lo \in 0..MaxIndex : DOMAIN logs = (lo + 1)..mem.last \/ (DOMAIN logs = {} /\ lo = mem.last)
      BY DEF Gapless
    <2>7. Gapless(logs, mem.last)'
      <3>1. CASE lo <= mem.last
        <4>1. DOMAIN logs' = (lo + 1)..(mem.last + n)
          <5>1. DOMAIN logs = (lo + 1)..mem.last
            <6>1. mem.last \in Int
              BY <1>0
            <6>2. lo = mem.last => (lo + 1)..mem.last = {}
              BY <6>1
            <6> QED
              BY <2>6, <6>2
          <5>2. mem.last \in Int /\ mem.last + n \in Int /\ mem.last <= mem.last + n /\ lo \in Int
            BY <1>0, <2>1
          <5> QED
            BY <2>5, <3>1, <5>1, <5>2, Ranges DEF new
        <4> QED
          BY <2>3, <4>1 DEF Gapless
      <3>2. CASE lo > mem.last
        <4>1. DOMAIN logs = {}
          BY <1>0, <2>6, <3>2
        <4>2. DOMAIN logs' = (mem.last + 1)..(mem.last + n)
          BY <2>5, <4>1 DEF new
        <4> QED
          BY <1>0, <2>3, <4>2 DEF Gapless
      <3> QED
        BY <1>0, <3>1, <3>2
    <2>8. AckedDurable'
      <3>1. /\ DOMAIN acked' = DOMAIN acked \cup new
            /\ \A j \in DOMAIN acked \cup new : acked'[j] = IF j \in new THEN t ELSE acked[j]
        BY <1>0, <2>1, PutType
      <3>2. \A j \in DOMAIN logs \cup new : logs'[j] = IF j \in new THEN t ELSE logs[j]
        BY <1>0, <2>1, PutType
      <3> QED
        BY <2>1, <2>5, <3>1, <3>2 DEF AckedDurable
    <2> QED
      BY <2>1, <2>3, <2>4, <2>7, <2>8
  <1>2. ASSUME NEW i \in Indexes, truncate(i)
        PROVE  LogInv'
    <2>1. /\ i \in DOMAIN logs /\ i \in 1..MaxIndex
          /\ logs' = Keep(logs, 1..(i - 1)) /\ last_purged' = last_purged /\ vote' = vote
          /\ onDisk' = onDisk
          /\ mem' = [mem EXCEPT !.log = Keep(@, 1..(i - 1)), !.last = i - 1]
          /\ acked' = Keep(acked, 1..(i - 1))
          /\ power_lost' = power_lost /\ logStops' = logStops
      BY <1>0, <1>2 DEF truncate, Written, Below, Indexes
    <2>2. i - 1 \in 0..MaxIndex
      BY <1>0, <2>1
    <2>3. logs' \in Log /\ acked' \in Log /\ mem'.log = logs' /\ mem' \in Mem /\ mem'.last = i - 1
      BY <1>0, <2>1, <2>2, KeepType DEF Mem
    <2>4. LogTypeOK'
      BY <1>0, <2>1, <2>3 DEF LogTypeOK, Disk, disk
    <2>5. DOMAIN logs' = DOMAIN logs \cap 1..(i - 1)
      BY <1>0, <2>1, KeepType
    <2>6. PICK lo \in 0..MaxIndex : DOMAIN logs = (lo + 1)..mem.last
      BY <2>1 DEF Gapless
    <2>7. DOMAIN logs' = (lo + 1)..(i - 1)
      <3>1. mem.last \in Int /\ i - 1 \in Int /\ i - 1 <= mem.last /\ lo \in Int /\ lo >= 0
        BY <1>0, <2>1, <2>6
      <3> QED
        BY <2>5, <2>6, <3>1, Ranges
    <2>8. Gapless(logs, mem.last)'
      BY <2>3, <2>7 DEF Gapless
    <2>9. AckedDurable'
      BY <1>0, <2>1, KeptDurable
    <2> QED
      BY <2>1, <2>3, <2>4, <2>8, <2>9
  \* purge may reach beyond the last entry.
  <1>3. ASSUME NEW i \in Indexes, purge(i)
        PROVE  LogInv'
    <2> DEFINE last == IF i > mem.last THEN i ELSE mem.last
    <2>1. /\ i \in 1..MaxIndex
          /\ logs' = Keep(logs, (i + 1)..MaxIndex) /\ last_purged' = i /\ vote' = vote
          /\ onDisk' = onDisk
          /\ mem' = [mem EXCEPT !.log = Keep(@, (i + 1)..MaxIndex), !.purged = i, !.last = last]
          /\ acked' = Keep(acked, (i + 1)..MaxIndex)
          /\ power_lost' = power_lost /\ logStops' = logStops
      BY <1>3 DEF purge, Written, Beyond, Indexes
    <2>2. last \in 0..MaxIndex /\ i \in 0..MaxIndex
      BY <1>0, <2>1
    <2>3. logs' \in Log /\ acked' \in Log /\ mem'.log = logs' /\ mem' \in Mem /\ mem'.last = last
      <3> HIDE DEF last
      <3> QED
        BY <1>0, <2>1, <2>2, KeepType DEF Mem
    <2>4. LogTypeOK'
      BY <1>0, <2>1, <2>2, <2>3 DEF LogTypeOK, Disk, disk
    <2>5. DOMAIN logs' = DOMAIN logs \cap ((i + 1)..MaxIndex)
      BY <1>0, <2>1, KeepType
    <2>6. PICK lo \in 0..MaxIndex : DOMAIN logs = (lo + 1)..mem.last \/ (DOMAIN logs = {} /\ lo = mem.last)
      BY DEF Gapless
    <2>7. Gapless(logs, mem.last)'
      <3>1. CASE i >= mem.last
        <4>1. DOMAIN logs' = {} /\ last = i
          <5>1. \A j \in DOMAIN logs : j \in Int /\ j <= mem.last
            BY <1>0, <2>6
          <5>2. mem.last \in Int /\ i \in Int /\ i >= mem.last
            BY <1>0, <2>1, <3>1
          <5>3. last = i
            BY <5>2
          <5>4. \A j \in (i + 1)..MaxIndex : j \notin DOMAIN logs
            BY <5>1, <5>2, <1>0
          <5> QED
            BY <2>5, <5>3, <5>4
        <4> QED
          BY <2>2, <2>3, <4>1 DEF Gapless
      <3>2. CASE i < mem.last /\ i <= lo
        <4>1. DOMAIN logs' = DOMAIN logs /\ last = mem.last
          <5>1. mem.last \in Int /\ i \in Int /\ lo \in Int /\ MaxIndex \in Int /\ mem.last <= MaxIndex
            BY <1>0, <2>1
          <5>2. last = mem.last
            BY <3>2, <5>1
          <5>3. ((lo + 1)..mem.last) \cap ((i + 1)..MaxIndex) = (lo + 1)..mem.last
            BY <3>2, <5>1, Ranges
          <5> QED
            BY <2>5, <2>6, <5>2, <5>3
        <4> QED
          BY <2>3, <2>6, <4>1 DEF Gapless
      <3>3. CASE i < mem.last /\ lo < i
        <4>1. DOMAIN logs' = (i + 1)..last
          <5>1. mem.last \in Int /\ i \in Int /\ lo \in Int /\ MaxIndex \in Int /\ mem.last <= MaxIndex
            BY <1>0, <2>1
          <5>2. last = mem.last
            BY <3>3, <5>1
          <5>3. ((lo + 1)..mem.last) \cap ((i + 1)..MaxIndex) = (i + 1)..mem.last
            BY <3>3, <5>1, Ranges
          <5>4. DOMAIN logs = (lo + 1)..mem.last
            BY <2>6, <3>3, <5>1
          <5> QED
            BY <2>5, <5>2, <5>3, <5>4
        <4> QED
          BY <2>2, <2>3, <4>1 DEF Gapless
      <3> QED
        BY <1>0, <2>1, <3>1, <3>2, <3>3
    <2>8. AckedDurable'
      BY <1>0, <2>1, KeptDurable
    <2> QED
      BY <2>1, <2>3, <2>4, <2>7, <2>8
  <1>4. ASSUME NEW v \in Terms, save_vote(v)
        PROVE  LogInv'
    <2>1. /\ v \in 0..MaxTerm
          /\ logs' = logs /\ last_purged' = last_purged /\ vote' = v /\ onDisk' = onDisk
          /\ mem' = [mem EXCEPT !.vote = v]
          /\ acked' = acked /\ power_lost' = power_lost /\ logStops' = logStops
      BY <1>0, <1>4 DEF save_vote, Written, Terms
    <2>2. mem' \in Mem /\ mem'.log = mem.log /\ mem'.last = mem.last
      BY <1>0, <2>1 DEF Mem
    <2>3. LogTypeOK'
      BY <1>0, <2>1, <2>2 DEF LogTypeOK, Disk, disk
    <2> QED
      BY <2>1, <2>2, <2>3 DEF Gapless, AckedDurable
  <1>5. CASE SyncLog
    <2>1. onDisk'.logs = logs /\ onDisk' \in Disk /\ UNCHANGED <<logs, last_purged, vote, mem, acked, power_lost, logStops>>
      BY <1>0, <1>5 DEF SyncLog, disk, Disk
    <2>2. LogTypeOK'
      BY <1>0, <2>1 DEF LogTypeOK, disk, Disk
    <2> QED
      BY <1>0, <2>1, <2>2 DEF Gapless, AckedDurable
  \* A start takes the gapless log it finds for the log, and its end for the end.
  <1>6. ASSUME NEW d \in Disk, NEW last \in 0..MaxIndex, Gapless(d.logs, last), Recover(d)
        PROVE  /\ logs' = d.logs /\ mem'.log = logs' /\ acked' = acked
               /\ last_purged' = d.last_purged /\ vote' = d.vote /\ logStops' \in Nat
               /\ mem' \in Mem /\ Gapless(logs, mem.last)'
    <2>1. PICK l \in 0..MaxIndex, p \in 0..MaxIndex :
            LET m == [log |-> d.logs, last |-> l, purged |-> p, vote |-> d.vote]
            IN  Recovered(d, m) /\ mem' = m
      BY <1>6 DEF Recover
    <2>2. /\ logs' = d.logs /\ last_purged' = d.last_purged /\ vote' = d.vote
          /\ acked' = acked /\ logStops' \in Nat
      BY <1>0, <1>6 DEF Recover, LogTypeOK
    <2>3. /\ d.logs \in Log /\ d.vote \in 0..MaxTerm
          /\ mem' = [log |-> d.logs, last |-> l, purged |-> p, vote |-> d.vote]
      BY <2>1 DEF Disk
    <2>4. mem' \in Mem /\ mem'.log = d.logs /\ mem'.last = l
      BY <2>3 DEF Mem
    <2>5. Gapless(d.logs, l)
      <3>1. CASE DOMAIN d.logs = {} /\ l = 0
        BY <1>0, <3>1 DEF Gapless
      <3>2. ASSUME NEW i \in DOMAIN d.logs, IsLastIndex(d.logs, i), l = i
            PROVE  l = last
        BY <1>6, <2>3, <3>2, LastFound
      <3> QED
        BY <1>6, <2>1, <3>1, <3>2 DEF Recovered
    <2> QED
      BY <2>2, <2>4, <2>5
  <1>7. CASE LogCrash
    <2>1. Recover(disk) /\ onDisk' = onDisk /\ power_lost' = power_lost
      BY <1>7 DEF LogCrash
    <2>2. disk \in Disk /\ disk.logs = logs
      BY <1>0 DEF disk, Disk
    <2>3. /\ logs' = logs /\ mem'.log = logs' /\ acked' = acked
          /\ last_purged' \in 0..MaxIndex /\ vote' \in 0..MaxTerm /\ logStops' \in Nat
          /\ mem' \in Mem /\ Gapless(logs, mem.last)'
      BY <1>0, <1>6, <2>1, <2>2 DEF disk
    <2>4. LogTypeOK'
      BY <1>0, <2>1, <2>3 DEF LogTypeOK, disk, Disk
    <2> QED
      BY <2>1, <2>3, <2>4 DEF AckedDurable
  <1>8. CASE LogPowerLoss
    <2>1. Recover(onDisk) /\ onDisk' = onDisk /\ power_lost'
      BY <1>8 DEF LogPowerLoss
    <2>2. /\ logs' = onDisk.logs /\ mem'.log = logs' /\ acked' = acked
          /\ last_purged' = onDisk.last_purged /\ vote' = onDisk.vote /\ logStops' \in Nat
          /\ mem' \in Mem /\ Gapless(logs, mem.last)'
      BY <1>0, <1>6, <2>1
    <2>3. power_lost' \in BOOLEAN
      BY <1>8 DEF LogPowerLoss
    <2>4. LogTypeOK'
      BY <1>0, <2>1, <2>2, <2>3 DEF LogTypeOK, disk, Disk
    <2> QED
      BY <2>1, <2>2, <2>4 DEF AckedDurable
  <1>9. CASE UNCHANGED logVars
    BY <1>9 DEF logVars, LogTypeOK, disk, Gapless, AckedDurable
  <1> QED
    BY <1>1, <1>2, <1>3, <1>4, <1>5, <1>7, <1>8, <1>9 DEF LogNext

LEMMA LogInvariant == LogSpec => []LogInv
  BY LogInitInv, LogNextInv, PTL DEF LogSpec

\* What the readers return for any range is what openraft believes is stored,
\* and it has no gap and ends where openraft will append, through truncation,
\* purges past the end, crashes and power losses in any order, for any radix of
\* the keys (append, truncate, purge, get_log_state in log_store.rs).
THEOREM StoreAsBelieved == LogSpec => []StoreMatches
  <1>1. LogInv => StoreMatches
    BY DEF LogInv, StoreMatches, Contiguous, Gapless
  <1> QED
    BY <1>1, LogInvariant, PTL

\* As long as only processes die, an entry openraft was told is flushed is
\* there until it is truncated or purged (append's log_io_completed).
THEOREM AckedEntriesDurable == LogSpec => []AckedDurable
  <1>1. LogInv => AckedDurable
    BY DEF LogInv
  <1> QED
    BY <1>1, LogInvariant, PTL

--------------------------------------------------------------------------------
(* The table catalog of a schema.                                           *)

\* The counter is beyond every id in the entries, on disk as in memory.
CounterAhead(st) ==
  /\ \A e \in st.tabs : e[2] < st.next
  /\ \A e \in st.cols : e[1] < st.next
  /\ \A e, f \in st.tabs : e[2] = f[2] => e = f

\* The job's id is taken, and nobody else's.
JobOK ==
  /\ job.step \in {"family", "table", "columns"} => job.id < store.next
  /\ job.step \in {"family", "table"} =>
       /\ \A e \in store.tabs : e[2] # job.id
       /\ \A e \in store.cols : e[1] # job.id

CatalogTyped ==
  /\ cfs \subseteq AllNames /\ store \in Store /\ synced \in Store
  /\ job \in [step: Steps, name: AllNames, id: Ids, cols: SUBSET Cols,
              todo: SUBSET Cols]

CatalogInv == CatalogTyped /\ CounterAhead(store) /\ CounterAhead(synced) /\ JobOK

LEMMA CatalogInitInv == Init => CatalogInv
  BY CatalogAssumption
     DEF Init, CatalogInv, CatalogTyped, CounterAhead, JobOK, Empty, Store, NoJob, Steps, AllNames, Ids

LEMMA CatalogNextInv ==
  ASSUME CatalogInv, [Next]_vars
  PROVE  CatalogInv'
  <1> USE CatalogAssumption
      DEF CatalogInv, CatalogTyped, CounterAhead, JobOK, Store, NoJob, Steps, AllNames, Ids
  <1>1. CASE Start
    BY <1>1 DEF Start
  <1>2. ASSUME NEW n \in Names, NEW cs \in (SUBSET Cols) \ {{}}, Create(n, cs)
        PROVE  CatalogInv'
    BY <1>2 DEF Create
  <1>3. CASE TakeId
    <2>1. /\ store.next < MaxId /\ job.step = "id"
          /\ job' = [job EXCEPT !.step = "family", !.id = store.next]
          /\ store' = [store EXCEPT !.next = @ + 1]
          /\ UNCHANGED <<cfs, synced>>
      BY <1>3 DEF TakeId
    <2>2. store.next \in 0..MaxId /\ store.next + 1 \in 0..MaxId
      BY <2>1
    <2>3. store' \in Store /\ CounterAhead(store)'
      BY <2>1, <2>2
    <2>4. CatalogTyped'
      BY <2>1, <2>2, <2>3
    <2>5. JobOK'
      BY <2>1, <2>2
    <2> QED
      BY <2>1, <2>3, <2>4, <2>5
  <1>4. CASE CreateFamily
    BY <1>4 DEF CreateFamily
  <1>5. CASE PutTable
    BY <1>5 DEF PutTable
  <1>6. CASE PutColumn
    BY <1>6 DEF PutColumn
  <1>7. CASE Created
    <2>1. /\ store' = [store EXCEPT !.admin = @ \/ job.name = User]
          /\ job' = NoJob("idle")
          /\ UNCHANGED <<cfs, synced>>
      BY <1>7 DEF Created
    <2>2. (store.admin \/ job.name = User) \in BOOLEAN
      BY Zenon
    <2>3. store' \in Store
      BY <2>1, <2>2
    <2>4. CounterAhead(store)'
      BY <2>1
    <2> QED
      BY <2>1, <2>3, <2>4
  <1>8. ASSUME NEW n \in Names, Drop(n)
        PROVE  CatalogInv'
    BY <1>8 DEF Drop
  <1>9. CASE DeleteEntry
    BY <1>9 DEF DeleteEntry, Entries
  <1>10. CASE Dropped
    BY <1>10 DEF Dropped
  <1>11. CASE Crash \/ PowerLoss
    BY <1>11 DEF Crash, PowerLoss, Stop
  <1>12. CASE Flush
    BY <1>12 DEF Flush
  <1>13. CASE UNCHANGED vars
    BY <1>13 DEF vars
  <1> QED
    BY <1>1, <1>2, <1>3, <1>4, <1>5, <1>6, <1>7, <1>8, <1>9, <1>10, <1>11,
       <1>12, <1>13 DEF Next

\* get_next_table_id writes the counter before the id is used, so that no two
\* tables ever share an id and none inherits another's columns, for any tables,
\* crashes and power losses (get_next_table_id, create_table and drop_table in
\* multi_table_rocksdb.rs).
THEOREM TableIdsUnique == Spec => []IdsUnique
  <1>1. CatalogInv => IdsUnique
    BY DEF CatalogInv, JobOK, CounterAhead, IdsUnique
  <1> QED
    BY <1>1, CatalogInitInv, CatalogNextInv, PTL DEF Spec

\* The entry of n, if there is one, and the columns under its id.
Unlisted(n)    == Entries(n) = {}
HasTable(n, cs) ==
  \E i \in Ids : Entries(n) = {<<n, i>>} /\ {c \in Cols : <<i, c>> \in store.cols} = cs

\* A table with no call at work on it, and one between the writes of a call.
AtRest(n) ==
  \/ n \notin cfs /\ Unlisted(n)
  \/ n \in cfs /\ HasTable(n, asked[n])

AtWork(n) == Active /\ job.name = n

InTheMaking(n) ==
  /\ job.step \in {"id", "family"} => n \notin cfs /\ Unlisted(n)
  /\ job.step = "table" => n \in cfs /\ Unlisted(n)
  /\ job.step = "columns" => n \in cfs /\ HasTable(n, job.cols \ job.todo)

\* Every table that no stop has hit is one or the other; a table being dropped
\* has lost its column family, whatever hit it before.
TablesInv ==
  /\ asked \in [AllNames -> SUBSET Cols]
  /\ job.todo \subseteq job.cols
  /\ job.step = "unlist" => job.name \notin cfs
  /\ job.step = "columns" => <<job.name, job.id>> \in store.tabs
  /\ job.step \in {"id", "family", "table"} => job.todo = job.cols
  /\ \A n \in AllNames \ torn : IF AtWork(n) THEN InTheMaking(n) ELSE AtRest(n)

\* What the readers find of a table that has one entry.
LEMMA TableRead ==
  ASSUME store \in Store, NEW n \in AllNames, NEW cs, HasTable(n, cs)
  PROVE  Listed(n) /\ Columns(n) = cs
  <1>1. PICK i \in Ids : Entries(n) = {<<n, i>>} /\ {c \in Cols : <<i, c>> \in store.cols} = cs
    BY DEF HasTable
  <1>2. \A j \in Ids : <<n, j>> \in store.tabs <=> j = i
    BY <1>1 DEF Entries
  <1>3. \A j \in Ids : (<<n, j>> \in store.tabs /\ \A k \in Ids : <<n, k>> \in store.tabs => j <= k) <=> j = i
    BY <1>2, CatalogAssumption DEF Ids
  <1>4. FirstId(n) = i
    BY <1>3 DEF FirstId
  <1> QED
    BY <1>1, <1>2, <1>4 DEF Listed, Columns

LEMMA NoTableRead ==
  ASSUME store \in Store, NEW n \in AllNames
  PROVE  Unlisted(n) <=> ~Listed(n)
  <1>1. \A e \in store.tabs : e = <<e[1], e[2]>> /\ e[2] \in Ids
    BY DEF Store
  <1> QED
    BY <1>1 DEF Unlisted, Listed, Entries

\* A table whose family, entry and columns stay is as it was.
LEMMA SameTable ==
  ASSUME CatalogTyped, NEW n, n \in cfs' <=> n \in cfs, Entries(n)' = Entries(n),
         \A i \in Ids : <<n, i>> \in store.tabs =>
            \A c \in Cols : <<i, c>> \in store'.cols <=> <<i, c>> \in store.cols
  PROVE  /\ Unlisted(n) => Unlisted(n)'
         /\ \A cs : HasTable(n, cs) => HasTable(n, cs)'
         /\ asked'[n] = asked[n] /\ AtRest(n) => AtRest(n)'
  <1>1. Unlisted(n) => Unlisted(n)'
    BY DEF Unlisted
  <1>2. ASSUME NEW cs, HasTable(n, cs) PROVE HasTable(n, cs)'
    <2>1. PICK i \in Ids : Entries(n) = {<<n, i>>} /\ {c \in Cols : <<i, c>> \in store.cols} = cs
      BY <1>2 DEF HasTable
    <2>2. <<n, i>> \in store.tabs
      BY <2>1 DEF Entries
    <2>3. {c \in Cols : <<i, c>> \in store'.cols} = cs
      BY <2>1, <2>2
    <2> QED
      BY <2>1, <2>3 DEF HasTable
  <1> QED
    BY <1>1, <1>2 DEF AtRest

LEMMA TablesInitInv == Init => TablesInv
  BY CatalogAssumption
     DEF Init, TablesInv, AtRest, AtWork, Unlisted, Entries, Empty, NoJob, Active, AllNames

\* A step that leaves the entries, the families and the history alone changes
\* no table.
LEMMA SameTables ==
  ASSUME CatalogTyped, UNCHANGED <<cfs, asked>>, store'.tabs = store.tabs, store'.cols = store.cols
  PROVE  \A n : /\ AtRest(n)' <=> AtRest(n)
                /\ Unlisted(n)' <=> Unlisted(n)
                /\ \A cs : HasTable(n, cs)' <=> HasTable(n, cs)
                /\ Entries(n)' = Entries(n)
  BY DEF AtRest, Unlisted, HasTable, Entries

LEMMA TablesNextInv ==
  ASSUME CatalogInv, TablesInv, [Next]_vars
  PROVE  TablesInv'
  <1> USE CatalogAssumption DEF TablesInv
  <1>0. /\ CatalogTyped /\ store \in Store /\ JobOK /\ job.name \in AllNames
        /\ job \in [step: Steps, name: AllNames, id: Ids, cols: SUBSET Cols, todo: SUBSET Cols]
        /\ \A e, f \in store.tabs : e[2] = f[2] => e = f
    BY DEF CatalogInv, CatalogTyped, CounterAhead
  <1>1. CASE Start
    <2>1. /\ UNCHANGED <<cfs, store, asked, torn>> /\ ~Active
          /\ \/ Listed(User) /\ job' = NoJob("idle")
             \/ ~Listed(User) /\ job' = [step |-> "id", name |-> User, id |-> 0,
                                         cols |-> UserCols, todo |-> UserCols]
      BY <1>1 DEF Start, Active
    <2>2. \A n \in AllNames \ torn : AtRest(n)
      BY <2>1 DEF AtWork
    <2>3. User \in AllNames
      BY DEF AllNames
    <2>4. ~Listed(User) => Unlisted(User)
      BY <1>0, <2>3, NoTableRead
    <2>5. ~Listed(User) /\ User \notin torn => User \notin cfs
      BY <1>0, <2>2, <2>3, TableRead DEF AtRest
    <2> QED
      BY <1>0, <2>1, <2>2, <2>4, <2>5, SameTables DEF NoJob, AtWork, Active, InTheMaking
  <1>2. ASSUME NEW n \in Names, NEW cs \in (SUBSET Cols) \ {{}}, Create(n, cs)
        PROVE  TablesInv'
    <2>1. /\ UNCHANGED <<cfs, store, asked, torn>> /\ ~Active /\ n \notin cfs
          /\ job' = [step |-> "id", name |-> n, id |-> 0, cols |-> cs, todo |-> cs]
      BY <1>2 DEF Create, Active
    <2>2. \A m \in AllNames \ torn : AtRest(m)
      BY <2>1 DEF AtWork
    <2> QED
      BY <1>0, <2>1, <2>2, SameTables DEF AtWork, Active, AtRest, InTheMaking
  <1>3. CASE TakeId
    <2>1. /\ UNCHANGED <<cfs, asked, torn>> /\ store' = [store EXCEPT !.next = @ + 1]
          /\ job.step = "id" /\ job' = [job EXCEPT !.step = "family", !.id = store.next]
      BY <1>3 DEF TakeId
    <2>2. store'.tabs = store.tabs /\ store'.cols = store.cols
      BY <1>0, <2>1 DEF Store
    <2>3. job'.step = "family" /\ job'.name = job.name /\ job'.cols = job.cols /\ job'.todo = job.todo
      BY <1>0, <2>1
    <2> QED
      BY <1>0, <2>1, <2>2, <2>3, SameTables DEF AtWork, Active, InTheMaking
  <1>4. CASE CreateFamily
    <2>1. CASE job.name \in cfs
      <3>1. /\ UNCHANGED <<cfs, store, asked, torn>> /\ job' = NoJob("failed") /\ job.step = "family"
        BY <1>4, <2>1 DEF CreateFamily
      <3>2. job.name \in torn
        BY <1>0, <2>1, <3>1 DEF AtWork, Active, InTheMaking
      <3> QED
        BY <1>0, <3>1, <3>2, SameTables DEF AtWork, Active, NoJob
    <2>2. CASE job.name \notin cfs
      <3>1. /\ UNCHANGED <<store, asked, torn>> /\ job.step = "family"
            /\ cfs' = cfs \cup {job.name} /\ job' = [job EXCEPT !.step = "table"]
        BY <1>4, <2>2 DEF CreateFamily
      <3>2. job'.step = "table" /\ job'.name = job.name /\ job'.cols = job.cols /\ job'.todo = job.todo
        BY <1>0, <3>1
      <3>3. \A n \in AllNames \ {job.name} : AtRest(n) => AtRest(n)'
        BY <3>1 DEF AtRest, Unlisted, HasTable, Entries
      <3>4. Unlisted(job.name) => Unlisted(job.name)'
        BY <3>1, <3>2 DEF Unlisted, Entries
      <3> QED
        BY <1>0, <3>1, <3>2, <3>3, <3>4 DEF AtWork, Active, InTheMaking
    <2> QED
      BY <2>1, <2>2
  <1>5. CASE PutTable
    <2>1. /\ UNCHANGED <<cfs, asked, torn>> /\ job.step = "table"
          /\ store' = [store EXCEPT !.tabs = @ \cup {<<job.name, job.id>>}]
          /\ job' = [job EXCEPT !.step = "columns"]
      BY <1>5 DEF PutTable
    <2>2. /\ store'.tabs = store.tabs \cup {<<job.name, job.id>>} /\ store'.cols = store.cols
          /\ job'.step = "columns" /\ job'.name = job.name /\ job'.cols = job.cols
          /\ job'.todo = job.todo /\ job'.id = job.id
      BY <1>0, <2>1 DEF Store
    <2>3. \A n : n # job.name => Entries(n)' = Entries(n)
      BY <2>2 DEF Entries
    <2>4. \A n : n # job.name /\ AtRest(n) => AtRest(n)'
      BY <1>0, <2>1, <2>2, <2>3, SameTable
    <2>5. Unlisted(job.name) => HasTable(job.name, {})'
      <3>1. Unlisted(job.name) => Entries(job.name)' = {<<job.name, job.id>>}
        BY <2>2 DEF Unlisted, Entries
      <3>2. {c \in Cols : <<job.id, c>> \in store'.cols} = {}
        BY <1>0, <2>1, <2>2 DEF JobOK
      <3>3. job.id \in Ids
        BY <1>0
      <3> QED
        BY <2>2, <3>1, <3>2, <3>3 DEF HasTable
    <2>6. job'.cols \ job'.todo = {}
      BY <2>1, <2>2
    <2> QED
      BY <1>0, <2>1, <2>2, <2>4, <2>5, <2>6 DEF AtWork, Active, InTheMaking
  <1>6. CASE PutColumn
    <2>1. PICK c \in job.todo :
            /\ UNCHANGED <<cfs, asked, torn>> /\ job.step = "columns"
            /\ store' = [store EXCEPT !.cols = @ \cup {<<job.id, c>>}]
            /\ job' = [job EXCEPT !.todo = @ \ {c}]
      BY <1>6 DEF PutColumn
    <2>2. /\ store'.cols = store.cols \cup {<<job.id, c>>} /\ store'.tabs = store.tabs
          /\ job'.step = "columns" /\ job'.name = job.name /\ job'.cols = job.cols
          /\ job'.todo = job.todo \ {c} /\ job'.id = job.id /\ c \in Cols
      BY <1>0, <2>1 DEF Store
    <2>3. \A n : Entries(n)' = Entries(n)
      BY <2>2 DEF Entries
    <2>4. \A n, i : n # job.name /\ <<n, i>> \in store.tabs => i # job.id
      BY <1>0, <2>1
    <2>5. \A n : n # job.name /\ AtRest(n) => AtRest(n)'
      BY <1>0, <2>1, <2>2, <2>3, <2>4, SameTable
    <2>6. ASSUME HasTable(job.name, job.cols \ job.todo)
          PROVE  HasTable(job.name, job.cols \ job.todo)'
      <3>1. PICK i \in Ids : /\ Entries(job.name) = {<<job.name, i>>}
                             /\ {d \in Cols : <<i, d>> \in store.cols} = job.cols \ job.todo
        BY <2>6 DEF HasTable
      <3>2. i = job.id
        BY <2>1, <3>1 DEF Entries
      <3>3. {d \in Cols : <<i, d>> \in store'.cols} = job'.cols \ job'.todo
        BY <2>1, <2>2, <3>1, <3>2
      <3> QED
        BY <2>2, <2>3, <3>1, <3>3 DEF HasTable
    <2> QED
      BY <1>0, <2>1, <2>2, <2>5, <2>6 DEF AtWork, Active, InTheMaking
  <1>7. CASE Created
    <2>1. /\ UNCHANGED <<cfs, torn>> /\ job.step = "columns" /\ job.todo = {}
          /\ store' = [store EXCEPT !.admin = @ \/ job.name = User]
          /\ asked' = [asked EXCEPT ![job.name] = job.cols]
          /\ job' = NoJob("idle")
      BY <1>7 DEF Created
    <2>2. store'.tabs = store.tabs /\ store'.cols = store.cols
      BY <1>0, <2>1 DEF Store
    <2>3. \A n : Entries(n)' = Entries(n)
      BY <2>2 DEF Entries
    <2>4. asked' \in [AllNames -> SUBSET Cols] /\ asked'[job.name] = job.cols
      BY <1>0, <2>1
    <2>5. \A n \in AllNames : n # job.name /\ AtRest(n) => AtRest(n)'
      <3>1. \A n \in AllNames : n # job.name => asked'[n] = asked[n]
        BY <1>0, <2>1
      <3> QED
        BY <1>0, <2>1, <2>2, <2>3, <3>1, SameTable
    <2>6. job.name \notin torn => job.name \in cfs /\ HasTable(job.name, job.cols)
      <3>1. job.cols \ job.todo = job.cols
        BY <2>1
      <3> QED
        BY <1>0, <2>1, <3>1 DEF AtWork, Active, InTheMaking
    <2>7. \A n, cs : HasTable(n, cs) => HasTable(n, cs)'
      BY <2>2, <2>3 DEF HasTable
    <2> QED
      BY <1>0, <2>1, <2>4, <2>5, <2>6, <2>7 DEF AtWork, Active, AtRest, NoJob
  <1>8. ASSUME NEW n \in Names, Drop(n)
        PROVE  TablesInv'
    <2>1. /\ UNCHANGED <<store, asked, torn>> /\ ~Active /\ cfs' = cfs \ {n}
          /\ job' = [step |-> "unlist", name |-> n, id |-> 0, cols |-> {}, todo |-> {}]
      BY <1>8 DEF Drop, Active
    <2>2. \A m : m # n /\ AtRest(m) => AtRest(m)'
      BY <2>1 DEF AtRest, Unlisted, HasTable, Entries
    <2> QED
      BY <1>0, <2>1, <2>2 DEF AtWork, Active, InTheMaking
  <1>9. CASE DeleteEntry
    <2>1. PICK e \in Entries(job.name) :
            /\ UNCHANGED <<cfs, job, asked, torn>> /\ job.step = "unlist"
            /\ store' = [store EXCEPT !.tabs = @ \ {e}]
      BY <1>9 DEF DeleteEntry
    <2>2. store'.tabs = store.tabs \ {e} /\ store'.cols = store.cols
      BY <1>0, <2>1 DEF Store
    <2>3. \A n : n # job.name => Entries(n)' = Entries(n)
      BY <2>1, <2>2 DEF Entries
    <2>4. \A n : n # job.name /\ AtRest(n) => AtRest(n)'
      BY <1>0, <2>1, <2>2, <2>3, SameTable
    <2> QED
      BY <1>0, <2>1, <2>4 DEF AtWork, Active, InTheMaking
  <1>10. CASE Dropped
    <2>1. /\ UNCHANGED <<cfs, store, asked>> /\ job.step = "unlist" /\ Unlisted(job.name)
          /\ job' = NoJob("idle") /\ torn' = torn \ {job.name}
      BY <1>10 DEF Dropped, AllDeleted, Unlisted
    <2> QED
      BY <1>0, <2>1, SameTables DEF AtWork, Active, AtRest, NoJob
  <1>11. CASE Crash
    <2>1. /\ UNCHANGED <<cfs, store, asked>> /\ job' = NoJob("down")
          /\ torn' = torn \cup (IF Active THEN {job.name} ELSE {})
      BY <1>11 DEF Crash, Stop
    <2> QED
      BY <1>0, <2>1, SameTables DEF AtWork, Active, NoJob
  <1>12. CASE PowerLoss
    <2>1. /\ UNCHANGED <<cfs, asked>> /\ job' = NoJob("down") /\ torn' = torn \cup AllNames
      BY <1>12 DEF PowerLoss, Stop
    <2> QED
      BY <1>0, <2>1 DEF NoJob
  <1>13. CASE Flush \/ UNCHANGED vars
    <2>1. UNCHANGED <<cfs, store, job, asked, torn>>
      BY <1>13 DEF Flush, vars
    <2> QED
      BY <1>0, <2>1, SameTables DEF AtWork, Active, InTheMaking
  <1> QED
    BY <1>1, <1>2, <1>3, <1>4, <1>5, <1>6, <1>7, <1>8, <1>9, <1>10, <1>11,
       <1>12, <1>13 DEF Next

\* A table that no call was interrupted on since the last complete DROP, and no
\* power loss has hit, is whole whenever no call is at work on it, and a
\* complete DROP repairs what any stop left behind: for any tables, columns and
\* stops (create_table and drop_table in multi_table_rocksdb.rs).
THEOREM TablesStayWhole == Spec => []TablesWhole
  <1>1. CatalogInv /\ TablesInv => TablesWhole
    BY TableRead, NoTableRead
       DEF CatalogInv, CatalogTyped, TablesInv, TablesWhole, AtWork, AtRest
  <1>2. Spec => [](CatalogInv /\ TablesInv)
    BY CatalogInitInv, CatalogNextInv, TablesInitInv, TablesNextInv, PTL DEF Spec
  <1> QED
    BY <1>1, <1>2, PTL

--------------------------------------------------------------------------------
(* The text indexes.                                                        *)

TextOps   == {"none", "down", "create", "drop", "ensure", "add", "update", "delete"}
TextSteps == {"none", "clear", "remove", "delete", "commit", "meta", "fill"}
Promises  == [DocIds -> Contents \cup {Gone}]

\* Which calls take which steps, on what.
WriteOK ==
  /\ write \in [op : TextOps, index : TextIndexes \cup {Gone}, doc : DocIds \cup {Odd, Gone},
                content : Contents \cup {Gone}, step : TextSteps]
  /\ write.step = "none" <=> write.op \in {"none", "down"}
  /\ write.step # "none" => write.index \in TextIndexes
  /\ write.op = "create" => write.step \in {"clear", "meta", "fill"}
  /\ write.op \in {"create", "drop", "ensure"} => write.doc = Gone
  /\ write.step = "clear" => write.op = "create"
  /\ write.step = "remove" <=> write.op \in {"drop", "ensure"}
  /\ write.op = "delete" => write.step = "delete" /\ write.content = Gone
  /\ write.op \in {"add", "update"} => write.content \in Contents
  /\ write.op \in {"update", "delete"} => write.doc \in DocIds \cup {Odd}
  /\ write.op = "add" => write.doc \in DocIds /\ write.step \in {"commit", "meta", "fill"}
  /\ write.op = "update" => write.step \in {"delete", "commit", "meta", "fill"}

\* The document answers as promised, unless it is vague.
Known(i, d) == <<i, d>> \in vague \/ GetDocument(i, d) = {promised[i][d]} \ {Gone}

FolderOK(i, meta) ==
  /\ promised[i] \in Promises
  /\ folders[i] \in FolderStates /\ folders[i].files = "whole" /\ folders[i].meta = meta

\* What a start makes of the folder is what was promised.
Stored(i) ==
  \/ promised[i] = Gone /\ folders[i] = Gone
  \/ FolderOK(i, "whole") /\ \A d \in DocIds : Known(i, d)

\* An index without a call under way.
Settled(i) == i \notin hurt => Stored(i) /\ (Up => (i \in open <=> promised[i] # Gone))

\* An index in the middle of a call.
Creating(i) ==
  /\ At("clear") /\ i \notin hurt => promised[i] = Gone /\ folders[i] = Gone
  /\ At("meta") => i \in open /\ folders[i] = NewFolder(i)
  /\ At("fill") => i \in open /\ folders[i] = [NewFolder(i) EXCEPT !.meta = "torn"]

Changing(i) ==
  LET n == Number(write.doc)
      others == \A d \in DocIds \ {n} : Known(i, d)
  IN  /\ i \in open
      /\ At("delete") => FolderOK(i, "whole") /\ others /\ Known(i, n)
      /\ At("commit") => /\ FolderOK(i, "whole") /\ others /\ GetDocument(i, n) = {}
                         /\ write.op = "add" => Known(i, n)
      /\ At("meta") => FolderOK(i, "whole") /\ others /\ GetDocument(i, n) = {write.content}
      /\ At("fill") => FolderOK(i, "torn") /\ others /\ GetDocument(i, n) = {write.content}

InHand(i) ==
  /\ write.op = "create" => Creating(i)
  /\ write.op \in {"drop", "ensure"} /\ i \notin hurt => Stored(i) /\ i \notin open /\ promised[i] # Gone
  /\ write.op \in {"add", "update", "delete"} /\ i \notin hurt => Changing(i)

TextInv ==
  /\ folders = [i \in TextIndexes |-> folders[i]]
  /\ promised = [i \in TextIndexes |-> promised[i]]
  /\ WriteOK
  /\ \A i \in TextIndexes : IF ~At("none") /\ write.index = i THEN InHand(i) ELSE Settled(i)

LEMMA DocumentRead ==
  ASSUME NEW i, NEW d, folders[i].docs \in SUBSET (DocIds \X Contents)
  PROVE  \A c : c \in GetDocument(i, d) <=> <<d, c>> \in folders[i].docs
  BY DEF GetDocument

\* What is true of an index stays true when nothing about it changes.
LEMMA IndexKept ==
  ASSUME NEW i, folders'[i] = folders[i], promised'[i] = promised[i],
         \A d \in DocIds : <<i, d>> \in vague => <<i, d>> \in vague'
  PROVE  /\ \A d : GetDocument(i, d)' = GetDocument(i, d)
         /\ \A d \in DocIds : Known(i, d) => Known(i, d)'
         /\ \A m : FolderOK(i, m) => FolderOK(i, m)'
         /\ Stored(i) => Stored(i)'
  <1>1. \A d : GetDocument(i, d)' = GetDocument(i, d)
    BY DEF GetDocument
  <1>2. \A d \in DocIds : Known(i, d) => Known(i, d)'
    BY <1>1 DEF Known
  <1>3. \A m : FolderOK(i, m) => FolderOK(i, m)'
    BY DEF FolderOK
  <1> QED
    BY <1>1, <1>2, <1>3 DEF Stored

LEMMA SettledKept ==
  ASSUME NEW i, folders'[i] = folders[i], promised'[i] = promised[i],
         \A d \in DocIds : <<i, d>> \in vague => <<i, d>> \in vague',
         i \in hurt => i \in hurt', i \in open' <=> i \in open, Up' => Up, Settled(i)
  PROVE  Settled(i)'
  BY IndexKept DEF Settled

\* Between calls, what was promised is what is there.
LEMMA KeptWhenFree ==
  ASSUME TextInv, Free
  PROVE  DocumentsKept
  <1> SUFFICES ASSUME NEW i \in TextIndexes \ hurt
               PROVE  /\ i \in open <=> promised[i] # Gone
                      /\ i \in open => \A d \in DocIds : Known(i, d)
    BY DEF DocumentsKept, Known
  <1>1. At("none")
    BY DEF TextInv, WriteOK, Free, At
  <1>2. Stored(i) /\ (i \in open <=> promised[i] # Gone)
    BY <1>1 DEF TextInv, Settled, Up, Free, At
  <1> QED
    BY <1>2 DEF Stored

LEMMA TextInitInv == TextInit => TextInv
  <1> SUFFICES ASSUME TextInit PROVE TextInv
    OBVIOUS
  <1>1. /\ promised \in [TextIndexes -> {Gone} \cup Promises]
        /\ write = NoWrite("down")
        /\ folders = [i \in TextIndexes |->
             IF promised[i] = Gone THEN Gone
             ELSE Folder({<<d, promised[i][d]>> : d \in {e \in DocIds : promised[i][e] # Gone}}, "whole")]
    BY DEF TextInit, Promises
  <1>2. WriteOK
    BY <1>1 DEF WriteOK, NoWrite, TextOps, TextSteps
  <1>3. ASSUME NEW i \in TextIndexes PROVE Stored(i)
    <2>1. CASE promised[i] = Gone
      BY <1>1, <2>1 DEF Stored
    <2>2. CASE promised[i] # Gone
      <3> DEFINE docs == {<<d, promised[i][d]>> : d \in {e \in DocIds : promised[i][e] # Gone}}
      <3>1. promised[i] \in Promises /\ folders[i] = Folder(docs, "whole")
        BY <1>1, <2>2
      <3>2. docs \in SUBSET (DocIds \X Contents)
        BY <3>1 DEF Promises
      <3>3. ASSUME NEW d \in DocIds PROVE GetDocument(i, d) = {promised[i][d]} \ {Gone}
        <4>1. folders[i].docs = docs
          BY <3>1 DEF Folder
        <4>2. \A c : c \in GetDocument(i, d) <=> <<d, c>> \in docs
          BY <3>2, <4>1, DocumentRead
        <4>3. \A c : <<d, c>> \in docs <=> c = promised[i][d] /\ c # Gone
          OBVIOUS
        <4> QED
          BY <4>2, <4>3
      <3> HIDE DEF docs
      <3>4. FolderOK(i, "whole")
        BY <3>1, <3>2 DEF FolderOK, Folder, FolderStates
      <3> QED
        BY <3>3, <3>4 DEF Stored, Known
    <2> QED
      BY <2>1, <2>2
  <1> QED
    BY <1>1, <1>2, <1>3 DEF TextInv, Settled, Up, At, NoWrite

\* What an answer leaves alone, and what it promises by the call.
LEMMA Answered ==
  ASSUME promised = [j \in TextIndexes |-> promised[j]], NEW i \in TextIndexes, i = write.index,
         NEW n, n = Number(write.doc), Answer, WriteOK
  PROVE  /\ write' = NoWrite("none")
         /\ promised' = [j \in TextIndexes |-> promised'[j]]
         /\ \A j \in TextIndexes \ {i} :
               /\ promised'[j] = promised[j] /\ (j \in hurt => j \in hurt')
               /\ \A d : <<j, d>> \in vague => <<j, d>> \in vague'
         /\ write.op = "create" => /\ promised'[i] = NoDocs
                                   /\ \A d : <<i, d>> \notin vague'
         /\ write.op = "drop" => promised'[i] = Gone
         /\ write.op # "create" /\ i \in hurt => i \in hurt'
         /\ write.op = "ensure" => i \in hurt'
         /\ write.op \in {"add", "update", "delete"} =>
               /\ hurt' = hurt
               /\ write.doc # Odd => /\ promised'[i] = [promised[i] EXCEPT ![write.doc] = write.content]
                                     /\ vague' = vague \ {<<i, n>>}
               /\ write.doc = Odd => promised' = promised /\ vague' = vague \cup {<<i, n>>}
  <1> USE DEF Answer
  <1>1. /\ write' = NoWrite("none") /\ promised' = Promise
        /\ hurt' = CASE write.op = "create" -> hurt \ {i}
                     [] write.op = "ensure" -> hurt \cup {i}
                     [] OTHER -> hurt
        /\ vague' = CASE write.op = "create" -> {p \in vague : p[1] # i}
                      [] write.doc = Odd -> vague \cup {<<i, n>>}
                      [] OTHER -> vague \ {<<i, n>>}
    OBVIOUS
  <1> HIDE DEF Answer
  <1>2. CASE write.op = "create"
    <2>1. promised' = [promised EXCEPT ![i] = NoDocs]
      BY <1>1, <1>2 DEF Promise
    <2>2. hurt' = hurt \ {i}
      BY <1>1, <1>2
    <2>3. vague' = {p \in vague : p[1] # i}
      <3>1. write.doc # Odd
        BY <1>2, GoneAssumption DEF WriteOK
      <3> DEFINE left == {p \in vague : p[1] # i}
      <3>2. vague' = CASE write.op = "create" -> left
                       [] write.doc = Odd -> vague \cup {<<i, n>>}
                       [] OTHER -> vague \ {<<i, n>>}
        BY <1>1
      <3> HIDE DEF left
      <3>3. vague' = left
        BY <1>2, <3>1, <3>2
      <3> QED
        BY <3>3 DEF left
    <2> QED
      BY <1>1, <1>2, <2>1, <2>2, <2>3
  <1>3. CASE write.op \in {"drop", "ensure"}
    <2>1. /\ promised' = IF write.op = "drop" THEN [promised EXCEPT ![i] = Gone] ELSE promised
          /\ hurt' = IF write.op = "ensure" THEN hurt \cup {i} ELSE hurt
          /\ vague' = IF write.doc = Odd THEN vague \cup {<<i, n>>} ELSE vague \ {<<i, n>>}
      BY <1>1, <1>3 DEF Promise
    <2>2. promised' = [j \in TextIndexes |-> promised'[j]]
      BY <2>1
    <2> QED
      BY <1>1, <1>3, <2>1, <2>2
  <1>4. CASE write.op \in {"add", "update", "delete"} /\ write.doc # Odd
    <2>1. /\ promised' = [promised EXCEPT ![i] = [promised[i] EXCEPT ![write.doc] = write.content]]
          /\ hurt' = hurt /\ vague' = vague \ {<<i, n>>}
      BY <1>1, <1>4 DEF Promise
    <2> QED
      BY <1>1, <1>4, <2>1
  <1>5. CASE write.op \in {"add", "update", "delete"} /\ write.doc = Odd
    <2>1. promised' = promised /\ hurt' = hurt /\ vague' = vague \cup {<<i, n>>}
      BY <1>1, <1>5 DEF Promise
    <2> QED
      BY <1>1, <1>5, <2>1
  <1>6. CASE write.op \in {"none", "down"}
    <2>1. /\ promised' = promised /\ hurt' = hurt
          /\ vague' = IF write.doc = Odd THEN vague \cup {<<i, n>>} ELSE vague \ {<<i, n>>}
      BY <1>1, <1>6 DEF Promise
    <2> QED
      BY <1>1, <1>6, <2>1
  <1> QED
    BY <1>2, <1>3, <1>4, <1>5, <1>6 DEF WriteOK, TextOps

\* The answer to a change of a document, when its folder is as it should be.
LEMMA DocumentAnswered ==
  ASSUME promised = [j \in TextIndexes |-> promised[j]], NEW i \in TextIndexes, i = write.index,
         NEW n, n = Number(write.doc), Answer, WriteOK,
         write.op \in {"add", "update", "delete"},
         i \notin hurt => /\ i \in open' /\ promised[i] \in Promises
                          /\ folders'[i] \in FolderStates
                          /\ folders'[i].files = "whole" /\ folders'[i].meta = "whole"
                          /\ \A d \in DocIds \ {n} : Known(i, d) /\ GetDocument(i, d)' = GetDocument(i, d)
                          /\ GetDocument(i, n)' = {write.content} \ {Gone}
  PROVE  Settled(i)'
  <1> USE TextAssumption, GoneAssumption
  <1> SUFFICES ASSUME i \notin hurt PROVE Stored(i)' /\ i \in open' /\ promised'[i] # Gone
    BY Answered DEF Settled
  <1>0. /\ write.doc # Odd => /\ promised'[i] = [promised[i] EXCEPT ![write.doc] = write.content]
                              /\ vague' = vague \ {<<i, n>>}
        /\ write.doc = Odd => promised' = promised /\ vague' = vague \cup {<<i, n>>}
    BY Answered
  <1>1. /\ write.doc \in DocIds \cup {Odd} /\ write.content \in Contents \cup {Gone} /\ n \in DocIds
        /\ write.doc # Odd => n = write.doc
    BY DEF WriteOK, Number
  <1>2. promised'[i] \in Promises
    <2>1. CASE write.doc # Odd
      BY <1>0, <1>1, <2>1 DEF Promises
    <2>2. CASE write.doc = Odd
      BY <1>0, <2>2
    <2> QED
      BY <2>1, <2>2
  <1>3. ASSUME NEW d \in DocIds PROVE Known(i, d)'
    <2>1. CASE d # n
      <3>1. promised'[i][d] = promised[i][d]
        BY <1>1, <1>0, <2>1 DEF Promises
      <3>2. <<i, d>> \in vague => <<i, d>> \in vague'
        BY <1>1, <1>0, <2>1
      <3> QED
        BY <2>1, <3>1, <3>2 DEF Known
    <2>2. CASE d = n /\ write.doc # Odd
      <3>1. promised'[i][d] = write.content
        BY <1>1, <1>0, <2>2 DEF Promises
      <3> QED
        BY <2>2, <3>1 DEF Known
    <2>3. CASE d = n /\ write.doc = Odd
      BY <1>0, <2>3 DEF Known
    <2> QED
      BY <2>1, <2>2, <2>3
  <1>4. FolderOK(i, "whole")'
    BY <1>2 DEF FolderOK
  <1> QED
    BY <1>2, <1>3, <1>4 DEF Stored, Promises

LEMMA PromiseOthers ==
  ASSUME promised = [j \in TextIndexes |-> promised[j]], NEW i \in TextIndexes, i = write.index,
         promised' = Promise \/ promised' = promised
  PROVE  /\ promised' = [j \in TextIndexes |-> promised'[j]]
         /\ \A j \in TextIndexes \ {i} : promised'[j] = promised[j]
  <1>1. PICK p : promised' = promised \/ promised' = [promised EXCEPT ![i] = p]
    BY DEF Promise
  <1> QED
    BY <1>1

LEMMA TextNextInv ==
  ASSUME TextInv, [TextNext]_textVars
  PROVE  TextInv'
  <1> USE TextAssumption, GoneAssumption
  <1> PICK i, n : i = write.index /\ n = Number(write.doc)
    OBVIOUS
  <1>0. /\ folders = [j \in TextIndexes |-> folders[j]]
        /\ promised = [j \in TextIndexes |-> promised[j]]
        /\ WriteOK
        /\ \A j \in TextIndexes : j # i \/ At("none") => Settled(j)
        /\ ~At("none") => i \in TextIndexes /\ InHand(i) /\ Up /\ ~Free
    BY DEF TextInv, WriteOK, At, Up, Free
  \* A call begins.
  <1>1. ASSUME NEW op, NEW k \in TextIndexes, NEW d, NEW c, NEW step, Begin(op, k, d, c, step),
               step # "none", WriteOK', InHand(k)', \A j \in TextIndexes \ {k} : j \in open' <=> j \in open
        PROVE  TextInv'
    <2>1. /\ write' = [op |-> op, index |-> k, doc |-> d, content |-> c, step |-> step]
          /\ UNCHANGED <<folders, promised, hurt, vague>> /\ Free
      BY <1>1 DEF Begin
    <2>2. At("none") /\ Up
      BY <1>0, <2>1 DEF WriteOK, Free, At, Up
    <2>3. \A j \in TextIndexes \ {k} : Settled(j)'
      BY <1>0, <1>1, <2>1, <2>2, SettledKept
    <2>4. folders' = [j \in TextIndexes |-> folders'[j]] /\ promised' = [j \in TextIndexes |-> promised'[j]]
      BY <1>0, <2>1
    <2> QED
      BY <1>1, <2>1, <2>3, <2>4 DEF TextInv, At
  \* A call goes on.
  <1>2. ASSUME ~At("none"), NEW f, Into(f), WriteOK', write'.index = i, write'.step # "none",
               promised' = promised, hurt' = hurt, vague' = vague,
               \A j \in TextIndexes \ {i} : j \in open' <=> j \in open, InHand(i)'
        PROVE  TextInv'
    <2>1. folders' = [folders EXCEPT ![i] = f]
      BY <1>2 DEF Into
    <2>2. \A j \in TextIndexes \ {i} : Settled(j)'
      BY <1>0, <1>2, <2>1, SettledKept
    <2>3. folders' = [j \in TextIndexes |-> folders'[j]]
      BY <1>0, <2>1
    <2>4. promised' = [j \in TextIndexes |-> promised'[j]]
      BY <1>0, <1>2
    <2> QED
      BY <1>2, <2>2, <2>3, <2>4 DEF TextInv, At
  \* A call ends, with an answer or without.
  <1>3. ASSUME ~At("none"), \A j \in TextIndexes \ {i} : folders'[j] = folders[j] /\ promised'[j] = promised[j],
               folders' = [j \in TextIndexes |-> folders'[j]], promised' = [j \in TextIndexes |-> promised'[j]],
               \/ write' = NoWrite("none") /\ (\A j \in TextIndexes \ {i} : j \in open' <=> j \in open)
               \/ write' = NoWrite("down"),
               \A j \in TextIndexes \ {i} :
                  /\ j \in hurt => j \in hurt'
                  /\ \A d : <<j, d>> \in vague => <<j, d>> \in vague',
               Settled(i)'
        PROVE  TextInv'
    <2>1. \A j \in TextIndexes \ {i} : Settled(j)'
      <3> SUFFICES ASSUME NEW j \in TextIndexes \ {i} PROVE Settled(j)'
        OBVIOUS
      <3>1. CASE write' = NoWrite("none") /\ (j \in open' <=> j \in open)
        BY <1>0, <1>3, <3>1, SettledKept DEF Up, NoWrite
      <3>2. CASE write' = NoWrite("down")
        <4>1. ~Up'
          BY <3>2 DEF Up, NoWrite
        <4>2. j \notin hurt' => Stored(j)'
          BY <1>0, <1>3, IndexKept DEF Settled
        <4> QED
          BY <4>1, <4>2 DEF Settled
      <3> QED
        BY <1>3, <3>1, <3>2
    <2>2. write'.step = "none" /\ WriteOK'
      BY <1>3 DEF WriteOK, NoWrite, TextOps, TextSteps
    <2> QED
      BY <1>3, <2>1, <2>2 DEF TextInv, At
  <1>a. ASSUME ~At("none"), NEW f, Into(f), Answer, Settled(i)',
               \A j \in TextIndexes \ {i} : j \in open' <=> j \in open
        PROVE  TextInv'
    <2>1. i \in TextIndexes /\ folders' = [folders EXCEPT ![i] = f]
      BY <1>0, <1>a DEF Into
    <2>2. folders' = [j \in TextIndexes |-> folders'[j]] /\ \A j \in TextIndexes \ {i} : folders'[j] = folders[j]
      BY <1>0, <2>1
    <2>3. /\ write' = NoWrite("none") /\ promised' = [j \in TextIndexes |-> promised'[j]]
          /\ \A j \in TextIndexes \ {i} :
                /\ promised'[j] = promised[j] /\ (j \in hurt => j \in hurt')
                /\ \A d : <<j, d>> \in vague => <<j, d>> \in vague'
      BY <1>0, <1>a, <2>1, Answered
    <2> QED
      BY <1>3, <1>a, <2>2, <2>3
  <1>4. ASSUME NEW k \in TextIndexes, k \in open, k \notin hurt, Free
        PROVE  FolderOK(k, "whole") /\ promised[k] # Gone /\ Stored(k) /\ \A d \in DocIds : Known(k, d)
    <2>1. Stored(k) /\ promised[k] # Gone
      BY <1>0, <1>4 DEF Settled, Up, Free, At, WriteOK
    <2> QED
      BY <2>1 DEF Stored
  <1>5. ASSUME NEW k \in TextIndexes, CreateIndex(k)
        PROVE  TextInv'
    <2>1. /\ k \notin open /\ open' = open /\ Free /\ Begin("create", k, Gone, Gone, "clear")
          /\ write' = [op |-> "create", index |-> k, doc |-> Gone, content |-> Gone, step |-> "clear"]
          /\ UNCHANGED <<folders, promised, hurt, vague>>
      BY <1>5 DEF CreateIndex, Begin
    <2>2. WriteOK'
      BY <2>1 DEF WriteOK, TextOps, TextSteps
    <2>3. k \notin hurt => promised[k] = Gone /\ folders[k] = Gone
      <3>1. k \notin hurt => Stored(k) /\ promised[k] = Gone
        BY <1>0, <2>1 DEF Settled, Up, Free, At, WriteOK
      <3> QED
        BY <3>1 DEF Stored, FolderOK, Promises
    <2>4. InHand(k)'
      BY <2>1, <2>3 DEF InHand, Creating, At
    <2> QED
      BY <1>1, <2>1, <2>2, <2>4
  <1>6. ASSUME NEW k \in TextIndexes, DropIndex(k) \/ EnsureFaceClassIndex(k)
        PROVE  TextInv'
    <2>1. PICK op \in {"drop", "ensure"} :
             /\ k \in open /\ open' = open \ {k} /\ Free /\ Begin(op, k, Gone, Gone, "remove")
             /\ write' = [op |-> op, index |-> k, doc |-> Gone, content |-> Gone, step |-> "remove"]
             /\ UNCHANGED <<folders, promised, hurt, vague>>
      BY <1>6 DEF DropIndex, EnsureFaceClassIndex, Begin
    <2>2. WriteOK'
      BY <2>1 DEF WriteOK, TextOps, TextSteps
    <2>3. k \notin hurt => Stored(k)' /\ promised[k] # Gone
      BY <1>4, <2>1, IndexKept
    <2>4. InHand(k)'
      BY <2>1, <2>3 DEF InHand
    <2> QED
      BY <1>1, <2>1, <2>2, <2>4
  <1>7. ASSUME NEW k \in TextIndexes, NEW d \in DocIds \cup {Odd}, NEW c \in Contents, AddDocument(k, d, c)
        PROVE  TextInv'
    <2>1. /\ k \in open /\ open' = open /\ Free /\ Begin("add", k, d, c, "commit")
          /\ d \in DocIds /\ GetDocument(k, d) = {}
          /\ write' = [op |-> "add", index |-> k, doc |-> d, content |-> c, step |-> "commit"]
          /\ UNCHANGED <<folders, promised, hurt, vague>>
      BY <1>7 DEF AddDocument, Begin, Readable
    <2>2. WriteOK'
      BY <2>1 DEF WriteOK, TextOps, TextSteps
    <2>3. k \notin hurt => FolderOK(k, "whole")' /\ \A e \in DocIds : Known(k, e)'
      BY <1>4, <2>1, IndexKept
    <2>4. GetDocument(k, d)' = {} /\ Number(write'.doc) = d
      BY <2>1, IndexKept DEF Number
    <2>5. InHand(k)'
      <3>1. k \notin hurt => Changing(k)'
        BY <2>1, <2>3, <2>4 DEF Changing, At
      <3> QED
        BY <2>1, <3>1 DEF InHand
    <2> QED
      BY <1>1, <2>1, <2>2, <2>5
  <1>8. ASSUME NEW k \in TextIndexes, NEW d \in DocIds \cup {Odd}, NEW c \in Contents \cup {Gone},
               \/ DeleteDocument(k, d) /\ c = Gone
               \/ UpdateDocument(k, d, c) /\ c \in Contents
        PROVE  TextInv'
    <2>1. PICK op \in {"update", "delete"} :
             /\ k \in open /\ open' = open /\ Free /\ Begin(op, k, d, c, "delete")
             /\ op = "update" => c \in Contents
             /\ op = "delete" => c = Gone
             /\ write' = [op |-> op, index |-> k, doc |-> d, content |-> c, step |-> "delete"]
             /\ UNCHANGED <<folders, promised, hurt, vague>>
      BY <1>8 DEF DeleteDocument, UpdateDocument, Begin, Readable
    <2>2. WriteOK'
      BY <2>1 DEF WriteOK, TextOps, TextSteps
    <2>3. k \notin hurt => FolderOK(k, "whole")' /\ \A e \in DocIds : Known(k, e)'
      BY <1>4, <2>1, IndexKept
    <2>4. Number(write'.doc) \in DocIds
      BY <2>1 DEF Number
    <2>5. InHand(k)'
      <3>1. k \notin hurt => Changing(k)'
        BY <2>1, <2>3, <2>4 DEF Changing, At
      <3> QED
        BY <2>1, <3>1 DEF InHand
    <2> QED
      BY <1>1, <2>1, <2>2, <2>5
  <1>9. CASE ClearStale
    <2>1. /\ At("clear") /\ Into(NewFolder(i)) /\ write' = [write EXCEPT !.step = "meta"]
          /\ UNCHANGED <<promised, hurt, vague>> /\ open' = open \cup {i}
      BY <1>9 DEF ClearStale, To
    <2>2. write.op = "create" /\ ~At("none")
      BY <1>0, <2>1 DEF WriteOK, At
    <2>3. /\ WriteOK' /\ write'.op = "create" /\ write'.index = i /\ write'.step = "meta"
      BY <1>0, <2>1, <2>2 DEF WriteOK, TextSteps
    <2>4. folders'[i] = NewFolder(i)
      BY <1>0, <2>1, <2>2 DEF Into
    <2>5. InHand(i)'
      BY <2>1, <2>3, <2>4 DEF InHand, Creating, At, NewFolder
    <2> QED
      BY <1>2, <2>1, <2>2, <2>3, <2>5
  <1>10. CASE RemoveFolder
    <2>1. /\ At("remove") /\ Into(Gone) /\ Answer /\ open' = open
      BY <1>10 DEF RemoveFolder
    <2>2. write.op \in {"drop", "ensure"} /\ ~At("none") /\ i \in TextIndexes /\ InHand(i)
      BY <1>0, <2>1 DEF WriteOK, At
    <2>3. folders' = [folders EXCEPT ![i] = Gone] /\ folders' = [j \in TextIndexes |-> folders'[j]]
      BY <1>0, <2>1 DEF Into
    <2>4. Settled(i)'
      <3>1. i \notin hurt' => /\ promised'[i] = Gone /\ folders'[i] = Gone /\ i \notin open'
        BY <1>0, <2>1, <2>2, <2>3, Answered DEF InHand
      <3> QED
        BY <3>1 DEF Settled, Stored
    <2> QED
      BY <1>a, <2>1, <2>2, <2>4
  <1>11. CASE CommitDelete
    <2> DEFINE f == [folders[i] EXCEPT !.docs = {p \in @ : p[1] # n}]
    <2>1. /\ At("delete") /\ Into(f) /\ open' = open
          /\ IF write.op = "update" THEN To("commit") ELSE Answer
      BY <1>0, <1>11 DEF CommitDelete
    <2>2. /\ write.op \in {"update", "delete"} /\ ~At("none") /\ i \in TextIndexes /\ InHand(i)
          /\ n \in DocIds
      BY <1>0, <2>1 DEF WriteOK, At, TextOps, Number
    <2>3. folders' = [folders EXCEPT ![i] = f] /\ folders' = [j \in TextIndexes |-> folders'[j]]
      BY <1>0, <2>1 DEF Into
    <2>4. i \notin hurt => /\ i \in open /\ FolderOK(i, "whole") /\ \A d \in DocIds : Known(i, d)
      BY <1>0, <2>1, <2>2 DEF InHand, Changing, At
    <2>5. i \notin hurt => /\ folders'[i] \in FolderStates
                           /\ folders'[i].files = "whole" /\ folders'[i].meta = "whole"
                           /\ folders'[i].docs = {p \in folders[i].docs : p[1] # n}
      BY <2>2, <2>3, <2>4 DEF FolderOK, FolderStates
    <2>6. i \notin hurt => /\ \A d \in DocIds \ {n} : GetDocument(i, d)' = GetDocument(i, d)
                           /\ GetDocument(i, n)' = {}
      BY <2>5 DEF GetDocument
    <2>7. CASE write.op = "update"
      <3>1. /\ write' = [write EXCEPT !.step = "commit"] /\ UNCHANGED <<promised, hurt, vague>>
        BY <2>1, <2>7 DEF To
      <3>2. /\ WriteOK' /\ write'.op = "update" /\ write'.index = i /\ write'.step = "commit"
            /\ write'.doc = write.doc
        BY <1>0, <2>7, <3>1 DEF WriteOK, TextSteps
      <3>3. i \notin hurt => FolderOK(i, "whole")' /\ \A d \in DocIds \ {n} : Known(i, d)'
        BY <2>4, <2>5, <2>6, <3>1 DEF FolderOK, Known
      <3>4. i \notin hurt => Changing(i)'
        BY <1>0, <2>1, <2>4, <2>6, <3>2, <3>3 DEF Changing, At
      <3>5. InHand(i)'
        BY <3>1, <3>2, <3>4 DEF InHand
      <3> QED
        BY <1>2, <2>1, <2>2, <3>1, <3>2, <3>5
    <2>8. CASE write.op = "delete"
      <3>1. Answer /\ write.content = Gone
        BY <1>0, <2>1, <2>8 DEF WriteOK
      <3>2. Settled(i)'
        BY <1>0, <2>1, <2>2, <2>4, <2>5, <2>6, <3>1, DocumentAnswered DEF FolderOK
      <3> QED
        BY <1>a, <2>1, <2>2, <3>1, <3>2
    <2> QED
      BY <2>2, <2>7, <2>8
  <1>12. CASE CommitAdd
    <2> DEFINE f == [folders[i] EXCEPT !.docs = @ \cup {<<n, write.content>>}]
    <2>1. /\ At("commit") /\ Into(f) /\ open' = open /\ (To("meta") \/ Answer)
      BY <1>0, <1>12 DEF CommitAdd
    <2>2. /\ write.op \in {"add", "update"} /\ ~At("none") /\ i \in TextIndexes /\ InHand(i)
          /\ n \in DocIds /\ write.content \in Contents
      BY <1>0, <2>1 DEF WriteOK, At, TextOps, Number
    <2>3. folders' = [folders EXCEPT ![i] = f] /\ folders' = [j \in TextIndexes |-> folders'[j]]
      BY <1>0, <2>1 DEF Into
    <2>4. i \notin hurt => /\ i \in open /\ FolderOK(i, "whole") /\ GetDocument(i, n) = {}
                           /\ \A d \in DocIds \ {n} : Known(i, d)
      BY <1>0, <2>1, <2>2 DEF InHand, Changing, At
    <2>5. i \notin hurt => /\ folders'[i] \in FolderStates
                           /\ folders'[i].files = "whole" /\ folders'[i].meta = "whole"
                           /\ folders'[i].docs = folders[i].docs \cup {<<n, write.content>>}
      <3>0. <<n, write.content>> \in DocIds \X Contents
        BY <2>2
      <3>1. {<<n, write.content>>} \in SUBSET (DocIds \X Contents) /\ folders'[i] = f
        <4>1. folders'[i] = f
          <5> HIDE DEF f
          <5> QED
            BY <1>0, <2>2, <2>3
        <4> QED
          BY <3>0, <4>1
      <3> DEFINE new == {<<n, write.content>>}
      <3> HIDE DEF new
      <3>2. f = [folders[i] EXCEPT !.docs = @ \cup new] /\ new \in SUBSET (DocIds \X Contents)
        BY <3>1 DEF new
      <3> HIDE DEF f
      <3>3. i \notin hurt => /\ f \in FolderStates /\ f.files = "whole" /\ f.meta = "whole"
                             /\ f.docs = folders[i].docs \cup new
        BY <2>4, <3>2 DEF FolderOK, FolderStates
      <3> QED
        BY <3>1, <3>3 DEF new
    <2>6. ASSUME i \notin hurt
          PROVE  /\ \A d \in DocIds \ {n} : GetDocument(i, d)' = GetDocument(i, d)
                 /\ GetDocument(i, n)' = {write.content}
      <3>1. folders[i].docs \in SUBSET (DocIds \X Contents) /\ folders'[i].docs \in SUBSET (DocIds \X Contents)
        BY <2>4, <2>5, <2>6 DEF FolderOK, FolderStates
      <3>2. \A d, c : c \in GetDocument(i, d) <=> <<d, c>> \in folders[i].docs
        BY <3>1, DocumentRead
      <3>3. \A d, c : c \in GetDocument(i, d)' <=> <<d, c>> \in folders'[i].docs
        BY <3>1 DEF GetDocument
      <3>4. \A d, c : c \in GetDocument(i, d)' <=> c \in GetDocument(i, d) \/ (d = n /\ c = write.content)
        BY <2>5, <2>6, <3>2, <3>3
      <3>5. \A d \in DocIds \ {n} : GetDocument(i, d)' = GetDocument(i, d)
        BY <3>4
      <3>6. \A c : c \in GetDocument(i, n)' <=> c = write.content
        BY <2>4, <2>6, <3>4
      <3> QED
        BY <3>5, <3>6
    <2>7. CASE To("meta")
      <3>1. /\ write' = [write EXCEPT !.step = "meta"] /\ UNCHANGED <<promised, hurt, vague>>
        BY <2>7 DEF To
      <3>2. /\ WriteOK' /\ write'.op = write.op /\ write'.index = i /\ write'.step = "meta"
            /\ write'.doc = write.doc /\ write'.content = write.content
        BY <1>0, <2>2, <3>1 DEF WriteOK, TextSteps
      <3>3. i \notin hurt => FolderOK(i, "whole")' /\ \A d \in DocIds \ {n} : Known(i, d)'
        BY <2>4, <2>5, <2>6, <3>1 DEF FolderOK, Known
      <3>4. i \notin hurt => Changing(i)'
        BY <1>0, <2>1, <2>4, <2>6, <3>2, <3>3 DEF Changing, At
      <3>5. InHand(i)'
        BY <2>2, <3>1, <3>2, <3>4 DEF InHand
      <3> QED
        BY <1>2, <2>1, <2>2, <3>1, <3>2, <3>5
    <2>8. CASE Answer
      <3>1. {write.content} \ {Gone} = {write.content}
        BY <2>2
      <3>2. Settled(i)'
        BY <1>0, <2>1, <2>2, <2>4, <2>5, <2>6, <2>8, <3>1, DocumentAnswered DEF FolderOK
      <3> QED
        BY <1>a, <2>1, <2>2, <2>8, <3>2
    <2> QED
      BY <2>1, <2>7, <2>8
  <1>13. CASE EmptyMeta
    <2> DEFINE f == [folders[i] EXCEPT !.meta = "torn"]
    <2>1. /\ At("meta") /\ Into(f) /\ open' = open
          /\ write' = [write EXCEPT !.step = "fill"] /\ UNCHANGED <<promised, hurt, vague>>
      BY <1>0, <1>13 DEF EmptyMeta, To
    <2>2. /\ write.op \in {"create", "add", "update"} /\ ~At("none") /\ i \in TextIndexes /\ InHand(i)
      BY <1>0, <2>1 DEF WriteOK, At, TextOps
    <2>3. /\ WriteOK' /\ write'.op = write.op /\ write'.index = i /\ write'.step = "fill"
          /\ write'.doc = write.doc /\ write'.content = write.content
      BY <1>0, <2>1, <2>2 DEF WriteOK, TextSteps
    <2>4. folders'[i] = f
      <3> HIDE DEF f
      <3> QED
        BY <1>0, <2>1, <2>2 DEF Into
    <2>5. CASE write.op = "create"
      <3>1. i \in open /\ folders[i] = NewFolder(i)
        BY <2>1, <2>2, <2>5 DEF InHand, Creating
      <3>2. InHand(i)'
        BY <2>1, <2>3, <2>4, <2>5, <3>1 DEF InHand, Creating, At, NewFolder
      <3> QED
        BY <1>2, <2>1, <2>2, <2>3, <3>2
    <2>6. CASE write.op \in {"add", "update"}
      <3>1. i \notin hurt => /\ i \in open /\ FolderOK(i, "whole") /\ GetDocument(i, n) = {write.content}
                             /\ \A d \in DocIds \ {n} : Known(i, d)
        BY <1>0, <2>1, <2>2, <2>6 DEF InHand, Changing, At
      <3>2. i \notin hurt => FolderOK(i, "torn")' /\ folders'[i].docs = folders[i].docs
        BY <2>1, <2>4, <3>1 DEF FolderOK, FolderStates
      <3>3. i \notin hurt => /\ \A d : GetDocument(i, d)' = GetDocument(i, d)
                             /\ \A d \in DocIds \ {n} : Known(i, d)'
        BY <2>1, <3>1, <3>2 DEF GetDocument, Known
      <3>4. i \notin hurt => Changing(i)'
        BY <1>0, <2>1, <2>3, <3>1, <3>2, <3>3 DEF Changing, At
      <3>5. InHand(i)'
        BY <2>1, <2>3, <2>6, <3>4 DEF InHand
      <3> QED
        BY <1>2, <2>1, <2>2, <2>3, <3>5
    <2> QED
      BY <2>2, <2>5, <2>6
  <1>14. CASE FillMeta
    <2> DEFINE next == IF write.op = "create" THEN 1 ELSE n + 1
               f == [folders[i] EXCEPT !.meta = "whole", !.next = next]
    <2>1. At("fill") /\ Into(f) /\ open' = open /\ Answer
      BY <1>0, <1>14 DEF FillMeta
    <2>2. /\ write.op \in {"create", "add", "update"} /\ ~At("none") /\ i \in TextIndexes /\ InHand(i)
      BY <1>0, <2>1 DEF WriteOK, At, TextOps
    <2>3. folders'[i] = f
      <3> HIDE DEF f
      <3> QED
        BY <1>0, <2>1, <2>2 DEF Into
    <2>4. CASE write.op = "create"
      <3>1. i \in open /\ folders[i] = [NewFolder(i) EXCEPT !.meta = "torn"]
        BY <2>1, <2>2, <2>4 DEF InHand, Creating, At
      <3>2. /\ folders'[i] \in FolderStates /\ folders'[i].docs = {}
            /\ folders'[i].files = "whole" /\ folders'[i].meta = "whole"
        <4>1. next \in Nat
          BY <2>4
        <4>2. folders[i] = [files |-> "whole", docs |-> {}, meta |-> "torn", next |-> 1]
          BY <3>1 DEF NewFolder, Folder
        <4>3. folders[i] \in FolderStates /\ folders[i].files = "whole" /\ folders[i].docs = {}
          BY <4>2 DEF FolderStates
        <4> HIDE DEF next
        <4> QED
          BY <2>3, <4>1, <4>3 DEF FolderStates
      <3>3. promised'[i] = NoDocs
        BY <1>0, <2>1, <2>2, <2>4, Answered
      <3>4. NoDocs \in Promises
        BY DEF NoDocs, Promises
      <3>5. \A d \in DocIds : Known(i, d)'
        BY <3>2, <3>3 DEF Known, GetDocument, NoDocs
      <3>6. Stored(i)' /\ promised'[i] # Gone
        BY <3>2, <3>3, <3>4, <3>5 DEF Stored, FolderOK, Promises
      <3>7. Settled(i)'
        BY <2>1, <3>1, <3>6 DEF Settled
      <3> QED
        BY <1>a, <2>1, <2>2, <3>7
    <2>5. CASE write.op \in {"add", "update"}
      <3>1. i \notin hurt => /\ i \in open /\ FolderOK(i, "torn") /\ GetDocument(i, n) = {write.content}
                             /\ \A d \in DocIds \ {n} : Known(i, d)
        BY <1>0, <2>1, <2>2, <2>5 DEF InHand, Changing, At
      <3>2. n \in Nat /\ write.content \in Contents
        BY <1>0, <2>5 DEF WriteOK, Number
      <3>3. next \in Nat
        BY <3>2
      <3> HIDE DEF next
      <3>4. i \notin hurt => /\ folders'[i] \in FolderStates /\ folders'[i].docs = folders[i].docs
                             /\ folders'[i].files = "whole" /\ folders'[i].meta = "whole"
        BY <2>3, <3>1, <3>3 DEF FolderOK, FolderStates
      <3>5. i \notin hurt => \A d : GetDocument(i, d)' = GetDocument(i, d)
        BY <3>4 DEF GetDocument
      <3>6. {write.content} \ {Gone} = {write.content}
        BY <3>2
      <3>7. Settled(i)'
        BY <1>0, <2>1, <2>2, <2>5, <3>1, <3>4, <3>5, <3>6, DocumentAnswered DEF FolderOK
      <3> QED
        BY <1>a, <2>1, <2>2, <3>7
    <2> QED
      BY <2>2, <2>4, <2>5
  <1>15. CASE FileFails
    <2>1. /\ write' = NoWrite("none") /\ hurt' = hurt \cup {i} /\ UNCHANGED <<open, vague>>
          /\ promised' = Promise \/ promised' = promised
          /\ At("meta") \/ At("fill") \/ At("remove") \/ At("clear")
      BY <1>0, <1>15 DEF FileFails
    <2>2. PICK f : Into(f)
      BY <1>0, <1>15 DEF FileFails
    <2>3. ~At("none") /\ i \in TextIndexes
      BY <1>0, <2>1 DEF At
    <2>4. folders' = [folders EXCEPT ![i] = f]
      BY <1>0, <2>2 DEF Into
    <2>5. /\ folders' = [j \in TextIndexes |-> folders'[j]]
          /\ \A j \in TextIndexes \ {i} : folders'[j] = folders[j]
      BY <1>0, <2>4
    <2>6. /\ promised' = [j \in TextIndexes |-> promised'[j]]
          /\ \A j \in TextIndexes \ {i} : promised'[j] = promised[j]
      BY <1>0, <2>1, <2>3, PromiseOthers
    <2>7. Settled(i)'
      BY <2>1 DEF Settled
    <2> QED
      BY <1>3, <2>1, <2>3, <2>5, <2>6, <2>7
  <1>16. CASE StopIndexService
    <2>1. /\ write' = NoWrite("down") /\ promised' = promised
          /\ hurt \subseteq hurt' /\ vague \subseteq vague'
          /\ (At("clear") \/ At("remove")) /\ folders[i] # Gone => i \in hurt'
          /\ At("fill") \/ (write.op = "create" /\ At("meta")) => i \in hurt'
          /\ \/ write.op = "update" /\ At("commit")
             \/ write.op \in {"add", "update"} /\ At("meta")
             => <<i, n>> \in vague'
      BY <1>0, <1>16 DEF StopIndexService
    <2>2. \/ UNCHANGED folders
          \/ (At("clear") \/ At("remove")) /\ folders[i] # Gone /\ \E f : Into(f)
      BY <1>0, <1>16 DEF StopIndexService
    <2>3. CASE At("none")
      <3>1. UNCHANGED folders
        BY <2>2, <2>3 DEF At
      <3>2. \A j \in TextIndexes : j \notin hurt' => Stored(j)'
        BY <1>0, <2>1, <2>3, <3>1, IndexKept DEF Settled
      <3>3. ~Up' /\ WriteOK' /\ write'.step = "none"
        BY <2>1 DEF Up, WriteOK, NoWrite, TextOps, TextSteps
      <3> QED
        BY <1>0, <2>1, <3>1, <3>2, <3>3 DEF TextInv, Settled, At
    <2>4. CASE ~At("none")
      <3>1. /\ folders' = [j \in TextIndexes |-> folders'[j]]
            /\ \A j \in TextIndexes \ {i} : folders'[j] = folders[j]
        <4>1. CASE UNCHANGED folders
          BY <1>0, <4>1
        <4>2. ASSUME NEW f, Into(f)
              PROVE  /\ folders' = [j \in TextIndexes |-> folders'[j]]
                     /\ \A j \in TextIndexes \ {i} : folders'[j] = folders[j]
          <5>1. folders' = [folders EXCEPT ![i] = f]
            BY <1>0, <4>2 DEF Into
          <5> QED
            BY <1>0, <5>1
        <4> QED
          BY <2>2, <4>1, <4>2
      <3>2. ASSUME i \notin hurt' PROVE Stored(i)'
        <4>1. /\ i \in TextIndexes /\ InHand(i) /\ i \notin hurt /\ UNCHANGED folders
          BY <1>0, <2>1, <2>2, <2>4, <3>2
        <4>2. Stored(i) => Stored(i)'
          BY <2>1, <4>1, IndexKept
        <4>3. CASE write.op = "create"
          <5>1. At("clear") /\ folders[i] = Gone
            BY <1>0, <2>1, <3>2, <4>3 DEF WriteOK, At
          <5> QED
            BY <4>1, <4>2, <4>3, <5>1 DEF InHand, Creating, Stored
        <4>4. CASE write.op \in {"drop", "ensure"}
          BY <4>1, <4>2, <4>4 DEF InHand
        <4>5. CASE write.op \in {"add", "update", "delete"}
          <5>1. Changing(i) /\ n \in DocIds /\ ~At("fill")
            BY <1>0, <2>1, <3>2, <4>1, <4>5 DEF InHand, WriteOK, Number
          <5>2. At("delete") \/ At("commit") \/ At("meta")
            BY <1>0, <4>5, <5>1 DEF WriteOK, At
          <5>3. FolderOK(i, "whole") /\ \A d \in DocIds \ {n} : Known(i, d)
            BY <1>0, <5>1, <5>2 DEF Changing, At
          <5>4. Known(i, n) \/ <<i, n>> \in vague'
            BY <1>0, <2>1, <4>5, <5>1, <5>2 DEF Changing, WriteOK, At
          <5>5. FolderOK(i, "whole")' /\ \A d \in DocIds : Known(i, d)'
            <6>1. \A d \in DocIds : Known(i, d) => Known(i, d)'
              BY <2>1, <4>1, IndexKept
            <6>2. FolderOK(i, "whole")'
              BY <2>1, <4>1, <5>3, IndexKept
            <6>3. <<i, n>> \in vague' => Known(i, n)'
              BY DEF Known
            <6> QED
              BY <5>1, <5>3, <5>4, <6>1, <6>2, <6>3
          <5> QED
            BY <5>5 DEF Stored
        <4> QED
          BY <1>0, <2>4, <4>3, <4>4, <4>5 DEF WriteOK, TextOps, At
      <3>3. Settled(i)'
        BY <2>1, <3>2 DEF Settled, Up, NoWrite
      <3> QED
        BY <1>0, <1>3, <2>1, <2>4, <3>1, <3>3
    <2> QED
      BY <2>3, <2>4
  <1>17. CASE StartIndexService
    <2>1. /\ write.op = "down" /\ write' = NoWrite("none")
          /\ open' = {j \in TextIndexes : Loadable(folders[j])}
          /\ UNCHANGED <<folders, promised, hurt, vague>>
      BY <1>17 DEF StartIndexService
    <2>2. At("none")
      BY <1>0, <2>1 DEF WriteOK, At
    <2>3. \A j \in TextIndexes \ hurt : Stored(j)
      BY <1>0, <2>2 DEF Settled
    <2>4. \A j \in TextIndexes \ hurt : j \in open' <=> promised[j] # Gone
      BY <2>1, <2>3 DEF Loadable, Stored, FolderOK, Promises
    <2>5. \A j \in TextIndexes \ hurt : Stored(j)'
      BY <2>1, <2>3, IndexKept
    <2>6. \A j \in TextIndexes : Settled(j)'
      BY <2>1, <2>4, <2>5 DEF Settled
    <2>7. WriteOK' /\ write'.step = "none"
      BY <2>1 DEF WriteOK, NoWrite, TextOps, TextSteps
    <2> QED
      BY <1>0, <2>1, <2>6, <2>7 DEF TextInv, At
  <1>18. CASE UNCHANGED textVars
    <2>1. UNCHANGED <<folders, promised, hurt, vague, open, write>>
      BY <1>18 DEF textVars
    <2>2. \A j, d : (GetDocument(j, d)' = GetDocument(j, d)) /\ (Known(j, d)' <=> Known(j, d))
      BY <2>1 DEF GetDocument, Known
    <2>3. \A j : (Stored(j)' <=> Stored(j)) /\ \A m : FolderOK(j, m)' <=> FolderOK(j, m)
      BY <2>1, <2>2 DEF Stored, FolderOK
    <2>4. \A j : Settled(j)' <=> Settled(j)
      BY <2>1, <2>3 DEF Settled, Up
    <2>5. \A j : (Changing(j)' <=> Changing(j)) /\ (Creating(j)' <=> Creating(j))
      BY <2>1, <2>2, <2>3 DEF Changing, Creating, At
    <2>6. \A j : InHand(j)' <=> InHand(j)
      BY <2>1, <2>3, <2>5 DEF InHand
    <2>7. WriteOK'
      BY <1>0, <2>1 DEF WriteOK
    <2> QED
      BY <2>1, <2>4, <2>6, <2>7 DEF TextInv, At
  <1> QED
    BY <1>5, <1>6, <1>7, <1>8, <1>9, <1>10, <1>11, <1>12, <1>13, <1>14, <1>15, <1>16, <1>17, <1>18
       DEF TextNext

\* Between calls an index that no stop and no error hit between its writes
\* answers if and only if it was last created and not dropped, and each id has
\* the one content, or none, that was answered last: for any indexes, documents,
\* calls and stops (create_table, drop_table, add_row, update_row, delete_row and
\* load_existing_tables of the text index engine).
THEOREM DocumentsStayKept == TextSpec => []DocumentsKept
  <1>1. TextInv => DocumentsKept
    BY KeptWhenFree DEF DocumentsKept
  <1> QED
    BY <1>1, TextInitInv, TextNextInv, PTL DEF TextSpec
=============================================================================
