---------------------- MODULE RaftKvStateMachine_proofs ----------------------
(***************************************************************************)
(* Proofs about RaftKvStateMachine for any nodes, keys, values, dual-write *)
(* mode, engines and bounds.                                               *)
(***************************************************************************)
EXTENDS RaftKvStateMachine, TLAPS

-----------------------------------------------------------------------------
(* Facts about what a prefix of a log makes of a key (RaftKvLog), for any   *)
(* log: it does not depend on later entries, the next entry changes it for  *)
(* the key it names only, and it is unique.                                 *)

LEMMA EntryType ==
  \A e \in Entries : /\ e.payload \in {"put", "delete", "membership", "blank"}
                     /\ e.key \in Keys \cup {NoKey}
                     /\ e.value \in Values \cup {NoValue}
  BY DEF Entries, Requests, PutEntry, DeleteEntry, ConfigEntry, BlankEntry

LEMMA AppendFacts ==
  ASSUME NEW lg \in Seq(Entries), NEW e \in Entries
  PROVE  /\ Append(lg, e) \in Seq(Entries)
         /\ Len(Append(lg, e)) = Len(lg) + 1
         /\ Len(lg) \in Nat
         /\ \A i \in 1..Len(lg) : Append(lg, e)[i] = lg[i]
  OBVIOUS

\* What a prefix of the log makes of a key does not depend on later entries.
LEMMA ValueStable ==
  ASSUME NEW lg \in Seq(Entries), NEW lh \in Seq(Entries), Len(lg) <= Len(lh),
         \A i \in 1..Len(lg) : lh[i] = lg[i],
         NEW m \in 0..Len(lg), NEW k, NEW v, ValueAfter(lg, m, k, v)
  PROVE  ValueAfter(lh, m, k, v)
  <1>1. Len(lg) \in Nat
    OBVIOUS
  <1>2. \A i \in 1..m : lh[i] = lg[i]
    BY <1>1
  <1>3. CASE v = NoValue /\ \A i \in 1..m : lg[i].key # k
    BY <1>2, <1>3 DEF ValueAfter
  <1>4. ASSUME NEW i \in 1..m, lg[i].key = k, lg[i].value = v,
               \A j \in (i + 1)..m : lg[j].key # k
        PROVE  ValueAfter(lh, m, k, v)
    <2>1. \A j \in (i + 1)..m : j \in 1..m
      BY <1>1, <1>4
    <2>2. lh[i].key = k /\ lh[i].value = v /\ \A j \in (i + 1)..m : lh[j].key # k
      BY <1>2, <1>4, <2>1
    <2> QED
      BY <2>2 DEF ValueAfter
  <1> QED
    BY <1>3, <1>4 DEF ValueAfter

LEMMA ConfigStable ==
  ASSUME NEW lg \in Seq(Entries), NEW lh \in Seq(Entries), Len(lg) <= Len(lh),
         \A i \in 1..Len(lg) : lh[i] = lg[i],
         NEW m \in 0..Len(lg), NEW c, ConfigAfter(lg, m, c)
  PROVE  ConfigAfter(lh, m, c)
  <1>1. Len(lg) \in Nat
    OBVIOUS
  <1>2. \A i \in 1..m : lh[i] = lg[i]
    BY <1>1
  <1>3. CASE c = 0 /\ \A j \in 1..m : lg[j].payload # "membership"
    BY <1>2, <1>3 DEF ConfigAfter
  <1>4. CASE /\ c \in 1..m /\ lg[c].payload = "membership"
             /\ \A j \in (c + 1)..m : lg[j].payload # "membership"
    <2>1. \A j \in (c + 1)..m : j \in 1..m
      BY <1>1, <1>4
    <2> QED
      BY <1>2, <1>4, <2>1 DEF ConfigAfter
  <1> QED
    BY <1>3, <1>4 DEF ConfigAfter

\* Entry m + 1 leaves the keys it does not name as they were ...
LEMMA ValueKept ==
  ASSUME NEW lg \in Seq(Entries), NEW m \in Nat, NEW k, NEW v,
         lg[m + 1].key # k, ValueAfter(lg, m, k, v)
  PROVE  ValueAfter(lg, m + 1, k, v)
  <1>1. CASE v = NoValue /\ \A i \in 1..m : lg[i].key # k
    <2>1. \A i \in 1..(m + 1) : i \in 1..m \/ i = m + 1
      OBVIOUS
    <2> QED
      BY <1>1, <2>1 DEF ValueAfter
  <1>2. ASSUME NEW i \in 1..m, lg[i].key = k, lg[i].value = v,
               \A j \in (i + 1)..m : lg[j].key # k
        PROVE  ValueAfter(lg, m + 1, k, v)
    <2>1. i \in 1..(m + 1)
      OBVIOUS
    <2>2. \A j \in (i + 1)..(m + 1) : j \in (i + 1)..m \/ j = m + 1
      OBVIOUS
    <2>3. \A j \in (i + 1)..(m + 1) : lg[j].key # k
      BY <1>2, <2>2
    <2> QED
      BY <1>2, <2>1, <2>3 DEF ValueAfter
  <1> QED
    BY <1>1, <1>2 DEF ValueAfter

\* ... and gives the key it names its value.
LEMMA ValueWritten ==
  ASSUME NEW lg \in Seq(Entries), NEW m \in Nat
  PROVE  ValueAfter(lg, m + 1, lg[m + 1].key, lg[m + 1].value)
  <1>1. m + 1 \in 1..(m + 1)
    OBVIOUS
  <1>2. \A j \in (m + 1 + 1)..(m + 1) : lg[j].key # lg[m + 1].key
    OBVIOUS
  <1> QED
    BY <1>1, <1>2 DEF ValueAfter

\* A prefix of the log determines the value of a key.
LEMMA ValueUnique ==
  ASSUME NEW lg, NEW m \in Nat, NEW k, NEW v, NEW w,
         ValueAfter(lg, m, k, v), ValueAfter(lg, m, k, w)
  PROVE  v = w
  <1>1. ASSUME NEW i \in 1..m, lg[i].key = k, \A j \in (i + 1)..m : lg[j].key # k,
               NEW h \in 1..m, lg[h].key = k, \A j \in (h + 1)..m : lg[j].key # k
        PROVE  i = h
    <2>1. ~(i < h)
      <3> SUFFICES ASSUME i < h PROVE FALSE
        OBVIOUS
      <3>1. h \in (i + 1)..m
        OBVIOUS
      <3> QED
        BY <1>1, <3>1
    <2>2. ~(h < i)
      <3> SUFFICES ASSUME h < i PROVE FALSE
        OBVIOUS
      <3>1. i \in (h + 1)..m
        OBVIOUS
      <3> QED
        BY <1>1, <3>1
    <2> QED
      BY <2>1, <2>2
  <1> QED
    BY <1>1 DEF ValueAfter

\* A prefix of the log determines the configuration in force.
LEMMA ConfigUnique ==
  ASSUME NEW lg, NEW m \in Nat, NEW c, NEW d,
         ConfigAfter(lg, m, c), ConfigAfter(lg, m, d)
  PROVE  c = d
  <1>1. ASSUME NEW i \in 1..m, lg[i].payload = "membership",
               \A j \in (i + 1)..m : lg[j].payload # "membership",
               NEW h \in 1..m, lg[h].payload = "membership",
               \A j \in (h + 1)..m : lg[j].payload # "membership"
        PROVE  i = h
    <2>1. i < h => h \in (i + 1)..m
      OBVIOUS
    <2>2. h < i => i \in (h + 1)..m
      OBVIOUS
    <2> QED
      BY <1>1, <2>1, <2>2
  <1> QED
    BY <1>1 DEF ConfigAfter

-----------------------------------------------------------------------------
(* The inductive invariant.                                                 *)

\* The entries n's table has been given since its process started: the entry
\* being applied counts once the primary engine has it.
Given(n) == IF pc[n] \in {"entry_dual", "mark"} THEN last_applied[n] + 1
                                                ELSE last_applied[n]

\* Where the worker is, and how far each position may be ahead of the others.
Positions(n) ==
  /\ pc[n] \in {"entry", "entry_dual", "mark"} => last_applied[n] < upto[n]
  /\ pc[n] = "entry_dual" => /\ log[last_applied[n] + 1].key \in Keys
                             /\ kvdb[n][log[last_applied[n] + 1].key]
                                  = log[last_applied[n] + 1].value
  /\ pc[n] = "clear_dual" => kvdb[n] = Empty
  /\ pc[n] \in {"clear_dual", "load", "load_dual"} => Installing(n)
  /\ Installing(n) => pc[n] \in {"clear_dual", "load", "load_dual", "fatal"}
  /\ pc[n] = "load_dual" => cur[n] \in Keys \ left[n]
  /\ Given(n) <= reached[n] /\ purged[n] <= reached[n] /\ snap_index[n] <= reached[n]

\* A table that is being installed holds the pairs loaded so far; any other
\* lies between what was given to it and what it ever reflected.
TableInv(n) ==
  /\ Installing(n) =>
       /\ inst[n] \in snaps /\ inst[n].seen <= reached[n]
       /\ \A k \in Keys : kvdb[n][k] = IF k \in left[n] THEN NoValue ELSE inst[n].data[k]
  /\ ~Installing(n) => Between(Given(n), reached[n], kvdb[n])

ConfigInv(n) == pc[n] # "fatal" => ConfigAfter(log, Given(n), membership[n])

\* The copy, and the spawned writes still to reach it, come from the log.
CopyInv(n) ==
  /\ Between(0, reached[n], dual_write[n])
  /\ \A t \in tasks[n] : \E m \in 0..reached[n] : ValueAfter(log, m, t.key, t.value)

\* A key on which the synchronous copy differs will be written again by an
\* entry the worker still has to give to both engines.
SyncInv(n) ==
  DualMode[n] = "sync" =>
    /\ tasks[n] = {}
    /\ pc[n] = "load" => dual_write[n] = kvdb[n]
    /\ pc[n] = "load_dual" =>
         \A k \in Keys : k # cur[n] => dual_write[n][k] = kvdb[n][k]
    /\ pc[n] \in {"idle", "entry", "entry_dual", "mark"} =>
         \A k \in Keys :
           \/ dual_write[n][k] = kvdb[n][k]
           \/ pc[n] = "entry_dual" /\ log[last_applied[n] + 1].key = k
           \/ \E i \in (Given(n) + 1)..reached[n] : log[i].key = k

SnapshotInv(s) ==
  /\ s.index <= s.seen /\ s.seen <= Len(log) /\ s.config <= Len(log)
  /\ Between(s.index, s.seen, s.data)
  /\ ConfigAfter(log, s.index, s.config)

NodeInv(n) == Positions(n) /\ TableInv(n) /\ ConfigInv(n) /\ CopyInv(n) /\ SyncInv(n)

IInv == /\ TypeOK
        /\ \A n \in Nodes : NodeInv(n)
        /\ \A s \in snaps : SnapshotInv(s)
-----------------------------------------------------------------------------
(* What a step that only lengthens the log, or adds a snapshot, preserves *)

LogGrows ==
  /\ log' \in Seq(Entries)
  /\ Len(log) <= Len(log')
  /\ \A i \in 1..Len(log) : log'[i] = log[i]

Local(n) == <<last_applied[n], membership[n], kvdb[n], dual_write[n], tasks[n],
              pc[n], upto[n], inst[n], left[n], cur[n], snap_index[n],
              purged[n], reached[n]>>

LEMMA LogSame == TypeOK /\ UNCHANGED log => LogGrows
  BY DEF TypeOK, LogGrows

LEMMA LogAppended ==
  ASSUME TypeOK, NEW e \in Entries, log' = Append(log, e)
  PROVE  LogGrows
  BY AppendFacts DEF TypeOK, LogGrows

LEMMA BetweenStable ==
  ASSUME log \in Seq(Entries), LogGrows, NEW a \in Nat, NEW b \in 0..Len(log),
         NEW c, Between(a, b, c)
  PROVE  \A k \in Keys : \E m \in a..b : ValueAfter(log', m, k, c[k])
  <1> SUFFICES ASSUME NEW k \in Keys
               PROVE  \E m \in a..b : ValueAfter(log', m, k, c[k])
    OBVIOUS
  <1>1. PICK m \in a..b : ValueAfter(log, m, k, c[k])
    BY DEF Between
  <1>2. m \in 0..Len(log)
    OBVIOUS
  <1>3. ValueAfter(log', m, k, c[k])
    BY <1>1, <1>2, ValueStable DEF LogGrows
  <1> QED
    BY <1>3

LEMMA SnapshotFrame ==
  ASSUME TypeOK, NEW s \in snaps, SnapshotInv(s), LogGrows
  PROVE  SnapshotInv(s)'
  <1>1. log \in Seq(Entries) /\ s.index \in Nat /\ s.seen \in Nat /\ s.config \in Nat
    BY DEF TypeOK, Snapshot
  <1>2. Len(log) \in Nat /\ Len(log') \in Nat
    BY <1>1 DEF LogGrows
  <1>3. s.index <= s.seen /\ s.seen <= Len(log') /\ s.config <= Len(log')
    BY <1>1, <1>2 DEF SnapshotInv, LogGrows
  <1>4. \A k \in Keys : \E m \in (s.index)..(s.seen) : ValueAfter(log', m, k, s.data[k])
    BY <1>1, <1>2, BetweenStable DEF SnapshotInv
  <1>5. ConfigAfter(log', s.index, s.config)
    BY <1>1, <1>2, ConfigStable DEF SnapshotInv, LogGrows
  <1> QED
    BY <1>3, <1>4, <1>5 DEF SnapshotInv, Between

LEMMA Frame ==
  ASSUME TypeOK, NEW n \in Nodes, NodeInv(n), LogGrows, snaps \subseteq snaps',
         UNCHANGED Local(n)
  PROVE  NodeInv(n)'
  <1> USE DEF Local
  <1>1. /\ log \in Seq(Entries) /\ Len(log) \in Nat
        /\ last_applied[n] \in 0..Len(log) /\ reached[n] \in 0..Len(log)
        /\ upto[n] \in 0..Len(log)
    BY DEF TypeOK, Index
  <1>2. Given(n)' = Given(n) /\ Given(n) \in 0..Len(log) /\ Installing(n)' = Installing(n)
    BY <1>1 DEF Given, Installing, NodeInv, Positions
  <1>3. pc[n] = "entry_dual" => log'[last_applied[n] + 1] = log[last_applied[n] + 1]
    BY <1>1 DEF LogGrows, NodeInv, Positions
  <1>4. Positions(n)'
    BY <1>1, <1>2, <1>3 DEF NodeInv, Positions
  <1>5. TableInv(n)'
    <2>1. CASE Installing(n)
      BY <1>2, <2>1 DEF NodeInv, TableInv
    <2>2. CASE ~Installing(n)
      <3>0. Given(n) \in Nat /\ Between(Given(n), reached[n], kvdb[n])
        BY <1>1, <1>2, <2>2 DEF NodeInv, TableInv
      <3>1. \A k \in Keys : \E m \in Given(n)..reached[n] : ValueAfter(log', m, k, kvdb[n][k])
        BY <1>1, <3>0, BetweenStable
      <3> QED
        BY <1>2, <2>2, <3>1 DEF TableInv, Between
    <2> QED
      BY <2>1, <2>2
  <1>6. ConfigInv(n)'
    BY <1>1, <1>2, ConfigStable DEF NodeInv, ConfigInv, LogGrows
  <1>7. CopyInv(n)'
    <2>1. \A k \in Keys : \E m \in 0..reached[n] : ValueAfter(log', m, k, dual_write[n][k])
      BY <1>1, BetweenStable DEF NodeInv, CopyInv
    <2>2. ASSUME NEW t \in tasks[n]
          PROVE  \E m \in 0..reached[n] : ValueAfter(log', m, t.key, t.value)
      <3>1. PICK m \in 0..reached[n] : ValueAfter(log, m, t.key, t.value)
        BY DEF NodeInv, CopyInv
      <3>2. m \in 0..Len(log)
        BY <1>1
      <3>3. ValueAfter(log', m, t.key, t.value)
        BY <1>1, <3>1, <3>2, ValueStable DEF LogGrows
      <3> QED
        BY <3>3
    <2> QED
      BY <2>1, <2>2 DEF CopyInv, Between
  <1>8. SyncInv(n)'
    <2>1. \A i \in (Given(n) + 1)..reached[n] : log'[i] = log[i]
      BY <1>1, <1>2 DEF LogGrows
    <2> QED
      BY <1>2, <1>3, <2>1 DEF NodeInv, SyncInv
  <1> QED
    BY <1>4, <1>5, <1>6, <1>7, <1>8 DEF NodeInv
-----------------------------------------------------------------------------
(* Type correctness *)

LEMMA TypeGrows ==
  ASSUME TypeOK, LogGrows
  PROVE  /\ Len(log) \in Nat /\ Len(log') \in Nat
         /\ \A i \in Index : i \in Index'
         /\ \A f \in [Nodes -> Index] : f \in [Nodes -> Index']
  BY DEF TypeOK, LogGrows, Index

LEMMA InitInv == Init => IInv
  <1> SUFFICES ASSUME Init PROVE IInv
    OBVIOUS
  <1>1. Len(log) = 1 /\ log \in Seq(Entries)
    BY DEF Init, Entries, Requests
  <1>2. Empty \in Contents /\ NoSnapshot \in Snapshot
    BY DEF Contents, Empty, NoSnapshot, Snapshot
  <1>3. TypeOK
    BY <1>1, <1>2 DEF Init, TypeOK, Index, Places
  <1>4. \A k, lg : ValueAfter(lg, 0, k, NoValue)
    BY DEF ValueAfter
  <1>5. ASSUME NEW n \in Nodes PROVE NodeInv(n)
    <2>1. Given(n) = 0 /\ reached[n] = 0 /\ ~Installing(n) /\ pc[n] = "idle"
      BY <1>5 DEF Init, Given, Installing, NoSnapshot
    <2>2. \A k \in Keys : Empty[k] = NoValue
      BY DEF Empty
    <2>3. Between(0, 0, Empty)
      <3>1. \A k \in Keys : ValueAfter(log, 0, k, Empty[k])
        BY <1>4, <2>2
      <3>2. 0 \in 0..0
        OBVIOUS
      <3> QED
        BY <3>1, <3>2 DEF Between
    <2>4. Positions(n) /\ TableInv(n) /\ CopyInv(n) /\ SyncInv(n)
      BY <1>5, <2>1, <2>3 DEF Init, Positions, TableInv, CopyInv, SyncInv
    <2>5. ConfigInv(n)
      BY <1>5, <2>1 DEF Init, ConfigInv, ConfigAfter
    <2> QED
      BY <2>4, <2>5 DEF NodeInv
  <1>6. snaps = {}
    BY DEF Init
  <1> QED
    BY <1>3, <1>5, <1>6 DEF IInv

\* Every step lengthens the log or leaves it, and keeps the snapshots sent.
LEMMA NextGrows == TypeOK /\ Next => LogGrows /\ snaps \subseteq snaps'
  <1> SUFFICES ASSUME TypeOK, Next PROVE LogGrows /\ snaps \subseteq snaps'
    OBVIOUS
  <1>1. Requests \subseteq Entries /\ BlankEntry \in Entries
    BY DEF Entries
  <1>2. ASSUME NEW e \in Requests, ClientWrite(e)
        PROVE  LogGrows /\ snaps \subseteq snaps'
    BY <1>1, <1>2, LogAppended DEF ClientWrite, envVars
  <1>3. ASSUME NEW n \in Nodes, Elect(n)
        PROVE  LogGrows /\ snaps \subseteq snaps'
    BY <1>1, <1>3, LogAppended DEF Elect, envVars
  <1>4. ASSUME NEW n \in Nodes,
               Replicate(n) \/ Worker(n) \/ (\E t \in tasks[n] : RunTask(n, t))
                 \/ EngineFails(n) \/ BuildSnapshot(n) \/ Purge(n) \/ Restart(n)
        PROVE  log' = log /\ snaps \subseteq snaps'
    BY <1>4 DEF Replicate, Worker, BeginApply, ApplyEntry, ApplyDual, MarkApplied,
         GetCurrentSnapshot, BeginInstall, ClearDual, LoadPair, LoadDual,
         FinishInstall, RunTask, EngineFails, BuildSnapshot, Purge, Restart,
         logVars, envVars
  <1> QED
    BY <1>2, <1>3, <1>4, LogSame DEF Next

LEMMA UpdateType ==
  ASSUME NEW f \in [Nodes -> Contents], NEW n \in Nodes, NEW k \in Keys,
         NEW v \in Values \cup {NoValue}
  PROVE  [f EXCEPT ![n][k] = v] \in [Nodes -> Contents]
  <1>1. [f[n] EXCEPT ![k] = v] \in Contents
    BY DEF Contents
  <1> QED
    BY <1>1

LEMMA WriteDualType ==
  ASSUME TypeOK, NEW n \in Nodes, NEW i \in Nat, NEW k \in Keys,
         NEW v \in Values \cup {NoValue}, WriteDual(n, i, k, v)
  PROVE  dual_write' \in [Nodes -> Contents] /\ tasks' \in [Nodes -> SUBSET Task]
  <1>1. CASE DualMode[n] = "sync"
    <2>1. dual_write \in [Nodes -> Contents]
      BY DEF TypeOK
    <2>2. dual_write' = [dual_write EXCEPT ![n][k] = v] /\ tasks' = tasks
      BY <1>1 DEF WriteDual
    <2>3. dual_write' \in [Nodes -> Contents]
      BY <2>1, <2>2, UpdateType, Zenon
    <2> QED
      BY <2>2, <2>3 DEF TypeOK
  <1>2. CASE DualMode[n] = "async"
    <2>1. [seq |-> i, key |-> k, value |-> v] \in Task
      BY DEF Task
    <2> QED
      BY <1>2, <2>1 DEF TypeOK, WriteDual
  <1> QED
    BY <1>1, <1>2 DEF WriteDual

LEMMA TypeStep == IInv /\ Next => TypeOK'
  <1> SUFFICES ASSUME IInv, Next PROVE TypeOK'
    OBVIOUS
  <1> USE DEF TypeOK
  <1>0. TypeOK /\ LogGrows
    BY NextGrows DEF IInv
  <1>1. /\ Len(log) \in Nat /\ Len(log') \in Nat /\ log' \in Seq(Entries)
        /\ \A i \in Index : i \in Index'
        /\ \A f \in [Nodes -> Index] : f \in [Nodes -> Index']
    BY <1>0, TypeGrows DEF LogGrows
  <1>2. ASSUME NEW e \in Requests, ClientWrite(e) PROVE TypeOK'
    <2>1. last_log' \in [Nodes -> Index']
      BY <1>0, <1>1, <1>2, AppendFacts DEF ClientWrite, Index, Entries
    <2> QED
      BY <1>0, <1>1, <1>2, <2>1 DEF ClientWrite, stateVars, workVars, envVars
  <1>3. ASSUME NEW n \in Nodes, Elect(n) PROVE TypeOK'
    <2>1. last_log' \in [Nodes -> Index']
      BY <1>0, <1>1, <1>3, AppendFacts DEF Elect, Index, Entries
    <2> QED
      BY <1>0, <1>1, <1>3, <2>1 DEF Elect, stateVars, workVars, envVars
  <1>4. ASSUME NEW n \in Nodes, Replicate(n) PROVE TypeOK'
    <2>1. last_log' \in [Nodes -> Index]
      BY <1>0, <1>1, <1>4 DEF Replicate, Index
    <2> QED
      BY <1>0, <1>1, <1>4, <2>1 DEF Replicate, stateVars, workVars, envVars
  <1>5. ASSUME NEW n \in Nodes, BeginApply(n) PROVE TypeOK'
    <2>1. upto' \in [Nodes -> Index]
      BY <1>0, <1>1, <1>5 DEF BeginApply, Index
    <2> QED
      BY <1>0, <1>1, <1>5, <2>1 DEF BeginApply, Places, logVars, stateVars, envVars
  <1>6. ASSUME NEW n \in Nodes, ApplyEntry(n) PROVE TypeOK'
    <2> DEFINE e == log[last_applied[n] + 1]
    <2>1. last_applied[n] + 1 \in 1..Len(log)
      BY <1>0, <1>1, <1>6 DEF ApplyEntry, IInv, NodeInv, Positions, Index
    <2>2. e \in Entries /\ e.value \in Values \cup {NoValue}
      BY <1>0, <2>1, EntryType
    <2>3. kvdb' \in [Nodes -> Contents] /\ pc' \in [Nodes -> Places]
      <3>1. CASE e.key \in Keys
        <4>1. kvdb' = [kvdb EXCEPT ![n][e.key] = e.value] /\ pc' \in [Nodes -> Places]
          BY <1>0, <1>6, <3>1 DEF ApplyEntry, Places
        <4>2. kvdb \in [Nodes -> Contents]
          BY <1>0
        <4> QED
          BY <2>2, <3>1, <4>1, <4>2, UpdateType, Zenon
      <3>2. CASE e.key \notin Keys
        BY <1>0, <1>6, <3>2 DEF ApplyEntry, Places
      <3> QED
        BY <3>1, <3>2
    <2>4. membership' \in [Nodes -> Index] /\ reached' \in [Nodes -> Index]
      BY <1>0, <1>1, <1>6, <2>1 DEF ApplyEntry, Index, MaxOf
    <2> QED
      BY <1>0, <1>1, <1>6, <2>3, <2>4 DEF ApplyEntry, logVars, workVars, envVars
  <1>7. ASSUME NEW n \in Nodes, ApplyDual(n) PROVE TypeOK'
    <2>1. last_applied[n] + 1 \in 1..Len(log)
      BY <1>0, <1>1, <1>7 DEF ApplyDual, IInv, NodeInv, Positions, Index
    <2>2. /\ log[last_applied[n] + 1].value \in Values \cup {NoValue}
          /\ log[last_applied[n] + 1].key \in Keys
      BY <1>0, <1>7, <2>1, EntryType DEF ApplyDual, IInv, NodeInv, Positions
    <2>3. dual_write' \in [Nodes -> Contents] /\ tasks' \in [Nodes -> SUBSET Task]
      BY <1>0, <1>7, <2>1, <2>2, WriteDualType DEF ApplyDual
    <2> QED
      BY <1>0, <1>1, <1>7, <2>3 DEF ApplyDual, Places, logVars, stateVars, workVars, envVars
  <1>8. ASSUME NEW n \in Nodes, MarkApplied(n) PROVE TypeOK'
    <2>1. last_applied[n] + 1 \in Index
      BY <1>0, <1>1, <1>8 DEF MarkApplied, IInv, NodeInv, Positions, Index
    <2> QED
      BY <1>0, <1>1, <1>8, <2>1 DEF MarkApplied, AppliedAfter, Places, logVars, workVars, envVars
  <1>9. ASSUME NEW n \in Nodes, GetCurrentSnapshot(n) PROVE TypeOK'
    <2>1. CurrentSnapshot(n) \in Snapshot
      BY <1>0, <1>1 DEF CurrentSnapshot, Snapshot, Index
    <2> QED
      BY <1>0, <1>1, <1>9, <2>1 DEF GetCurrentSnapshot, logVars, stateVars, workVars
  <1>10. ASSUME NEW n \in Nodes, NEW s \in snaps, BeginInstall(n, s) PROVE TypeOK'
    <2>1. s \in Snapshot /\ s.seen \in Index /\ Empty \in Contents
      BY <1>0, <1>1 DEF IInv, SnapshotInv, Snapshot, Index, Empty, Contents
    <2>2. reached' \in [Nodes -> Index]
      BY <1>0, <1>10, <2>1 DEF BeginInstall, MaxOf
    <2> QED
      BY <1>0, <1>1, <1>10, <2>1, <2>2 DEF BeginInstall, Cleared, Places, logVars, envVars
  <1>11. ASSUME NEW n \in Nodes, ClearDual(n) PROVE TypeOK'
    <2>1. Empty \in Contents
      BY DEF Empty, Contents
    <2> QED
      BY <1>0, <1>1, <1>11, <2>1 DEF ClearDual, Cleared, Places, logVars, stateVars, workVars, envVars
  <1>12. ASSUME NEW n \in Nodes, NEW k \in Keys, LoadPair(n, k) PROVE TypeOK'
    <2>1. kvdb' \in [Nodes -> Contents]
      BY <1>0, <1>12 DEF LoadPair, Contents, Snapshot
    <2> QED
      BY <1>0, <1>1, <1>12, <2>1 DEF LoadPair, Places, logVars, envVars
  <1>13. ASSUME NEW n \in Nodes, LoadDual(n) PROVE TypeOK'
    <2>1. cur[n] \in Keys
      BY <1>13 DEF LoadDual, IInv, NodeInv, Positions
    <2>2. dual_write' \in [Nodes -> Contents] /\ tasks' \in [Nodes -> SUBSET Task]
      BY <1>0, <1>13, <2>1, WriteDualType DEF LoadDual, Contents, Snapshot
    <2> QED
      BY <1>0, <1>1, <1>13, <2>2 DEF LoadDual, Places, logVars, stateVars, workVars, envVars
  <1>14. ASSUME NEW n \in Nodes, FinishInstall(n) PROVE TypeOK'
    <2>1. inst[n] \in snaps
      BY <1>14 DEF FinishInstall, IInv, NodeInv, Positions, TableInv
    <2>2. inst[n].index \in Index /\ inst[n].config \in Index
      BY <1>0, <1>1, <2>1 DEF IInv, SnapshotInv, Snapshot, Index
    <2>3. NoSnapshot \in Snapshot
      BY DEF NoSnapshot, Snapshot, Empty, Contents
    <2>4. /\ last_applied' \in [Nodes -> Index] /\ membership' \in [Nodes -> Index]
          /\ last_log' \in [Nodes -> Index] /\ purged' \in [Nodes -> Index]
          /\ snap_index' \in [Nodes -> Index]
      BY <1>0, <1>14, <2>2 DEF FinishInstall, AdoptedConfig, MaxOf
    <2> QED
      BY <1>0, <1>1, <1>14, <2>3, <2>4 DEF FinishInstall, Places, envVars
  <1>15. ASSUME NEW n \in Nodes, NEW t \in tasks[n], RunTask(n, t) PROVE TypeOK'
    <2>1. t \in Task
      BY <1>0
    <2>2. dual_write' \in [Nodes -> Contents] /\ tasks' \in [Nodes -> SUBSET Task]
      <3>1. tasks' \in [Nodes -> SUBSET Task]
        BY <1>0, <1>15 DEF RunTask
      <3>2. dual_write' \in [Nodes -> Contents]
        <4>1. dual_write' = dual_write \/ dual_write' = [dual_write EXCEPT ![n][t.key] = t.value]
          BY <1>15 DEF RunTask
        <4>2. t.key \in Keys /\ t.value \in Values \cup {NoValue}
          BY <2>1 DEF Task
        <4>3. dual_write \in [Nodes -> Contents]
          BY <1>0
        <4>4. [dual_write EXCEPT ![n][t.key] = t.value] \in [Nodes -> Contents]
          BY <4>2, <4>3, UpdateType, Zenon
        <4> QED
          BY <4>1, <4>3, <4>4, Zenon
      <3> QED
        BY <3>1, <3>2
    <2>3. failures' \in Nat
      BY <1>0, <1>15 DEF RunTask
    <2> QED
      BY <1>0, <1>1, <1>15, <2>2, <2>3 DEF RunTask, logVars, stateVars, workVars
  <1>16. ASSUME NEW n \in Nodes, EngineFails(n) PROVE TypeOK'
    BY <1>0, <1>1, <1>16 DEF EngineFails, Places, stateVars, workVars
  <1>17. ASSUME NEW n \in Nodes, BuildSnapshot(n) PROVE TypeOK'
    BY <1>0, <1>1, <1>17 DEF BuildSnapshot, MetaIndex, logVars, stateVars, workVars, envVars
  <1>18. ASSUME NEW n \in Nodes, Purge(n) PROVE TypeOK'
    <2>1. purged' \in [Nodes -> Index]
      BY <1>0, <1>1, <1>18, BoundAssumption DEF Purge, Index
    <2> QED
      BY <1>0, <1>1, <1>18, <2>1 DEF Purge, logVars, stateVars, workVars, envVars
  <1>19. ASSUME NEW n \in Nodes, Restart(n) PROVE TypeOK'
    <2>1. Empty \in Contents /\ NoSnapshot \in Snapshot /\ 0 \in Index
      BY <1>1 DEF NoSnapshot, Snapshot, Empty, Contents, Index
    <2>2. kvdb' \in [Nodes -> Contents] /\ dual_write' \in [Nodes -> Contents]
      BY <1>0, <1>19, <2>1 DEF Restart
    <2>3. last_log' \in [Nodes -> Index] /\ purged' \in [Nodes -> Index]
      BY <1>0, <1>19, <2>1 DEF Restart
    <2>4. /\ last_applied' \in [Nodes -> Index] /\ membership' \in [Nodes -> Index]
          /\ upto' \in [Nodes -> Index] /\ snap_index' \in [Nodes -> Index]
          /\ tasks' \in [Nodes -> SUBSET Task] /\ left' \in [Nodes -> SUBSET Keys]
          /\ pc' \in [Nodes -> Places]
      BY <1>0, <1>19, <2>1 DEF Restart, Places
    <2>5. /\ inst' \in [Nodes -> Snapshot] /\ cur' \in [Nodes -> Keys \cup {NoKey}]
          /\ restarts' \in Nat /\ leader' \in Nodes \cup {NoNode}
      BY <1>0, <1>19, <2>1 DEF Restart
    <2> QED
      BY <1>0, <1>1, <1>19, <2>2, <2>3, <2>4, <2>5 DEF Restart
  <1> QED
    BY <1>2, <1>3, <1>4, <1>5, <1>6, <1>7, <1>8, <1>9, <1>10, <1>11, <1>12, <1>13,
       <1>14, <1>15, <1>16, <1>17, <1>18, <1>19 DEF Next, Worker
-----------------------------------------------------------------------------
(* The steps of one node *)

LEMMA NodeType ==
  ASSUME TypeOK, NEW n \in Nodes
  PROVE  /\ log \in Seq(Entries) /\ Len(log) \in Nat
         /\ last_applied[n] \in Nat /\ last_applied[n] <= Len(log)
         /\ reached[n] \in Nat /\ reached[n] <= Len(log)
         /\ upto[n] \in Nat /\ upto[n] <= Len(log)
         /\ purged[n] \in Nat /\ snap_index[n] \in Nat
         /\ inst[n] \in Snapshot /\ snaps \subseteq Snapshot
         /\ left[n] \subseteq Keys /\ Given(n) \in Nat
  BY DEF TypeOK, Index, Given

LEMMA Wider ==
  ASSUME NEW a \in Nat, NEW b \in Nat, NEW a1 \in Nat, NEW b1 \in Nat,
         a1 <= a, b <= b1, NEW c, Between(a, b, c)
  PROVE  Between(a1, b1, c)
  <1> SUFFICES ASSUME NEW k \in Keys PROVE \E m \in a1..b1 : ValueAfter(log, m, k, c[k])
    BY DEF Between
  <1>1. PICK m \in a..b : ValueAfter(log, m, k, c[k])
    BY DEF Between
  <1>2. m \in a1..b1
    OBVIOUS
  <1> QED
    BY <1>1, <1>2

LEMMA EmptyBetween ==
  ASSUME NEW b \in Nat
  PROVE  Between(0, b, Empty)
  <1> SUFFICES ASSUME NEW k \in Keys PROVE \E m \in 0..b : ValueAfter(log, m, k, Empty[k])
    BY DEF Between
  <1>1. ValueAfter(log, 0, k, Empty[k])
    BY DEF ValueAfter, Empty
  <1>2. 0 \in 0..b
    OBVIOUS
  <1> QED
    BY <1>1, <1>2

\* A key that is present was written by one of the entries reflected.
LEMMA Written ==
  ASSUME NEW b \in Nat, NEW c, Between(0, b, c), NEW k \in Keys, c[k] # NoValue
  PROVE  \E i \in 1..b : log[i].key = k
  <1>1. PICK m \in 0..b : ValueAfter(log, m, k, c[k])
    BY DEF Between
  <1>2. PICK i \in 1..m : log[i].key = k
    BY <1>1 DEF ValueAfter
  <1>3. i \in 1..b
    OBVIOUS
  <1> QED
    BY <1>2, <1>3

LEMMA BeginApplyStep ==
  ASSUME IInv, NEW n \in Nodes, BeginApply(n)
  PROVE  NodeInv(n)'
  <1> USE DEF logVars, stateVars, envVars
  <1>1. TypeOK /\ NodeInv(n)
    BY DEF IInv
  <1>2. /\ log' = log /\ snaps' = snaps /\ last_applied'[n] = last_applied[n]
        /\ membership'[n] = membership[n] /\ kvdb'[n] = kvdb[n]
        /\ dual_write'[n] = dual_write[n] /\ tasks'[n] = tasks[n] /\ pc[n] = "idle"
        /\ pc'[n] = "entry" /\ inst'[n] = inst[n] /\ left'[n] = left[n]
        /\ snap_index'[n] = snap_index[n] /\ purged'[n] = purged[n]
        /\ reached'[n] = reached[n] /\ last_applied[n] < upto'[n]
    BY <1>1, NodeType DEF BeginApply, TypeOK, Index
  <1>3. Given(n)' = Given(n) /\ Installing(n)' = Installing(n)
    BY <1>2 DEF Given, Installing
  <1>4. Positions(n)' /\ ConfigInv(n)' /\ CopyInv(n)'
    BY <1>1, <1>2, <1>3 DEF NodeInv, Positions, ConfigInv, CopyInv, Between
  <1>5. TableInv(n)'
    BY <1>1, <1>2, <1>3 DEF NodeInv, TableInv, Between
  <1>6. SyncInv(n)'
    BY <1>1, <1>2, <1>3 DEF NodeInv, SyncInv
  <1> QED
    BY <1>4, <1>5, <1>6 DEF NodeInv

LEMMA EngineFailsStep ==
  ASSUME IInv, NEW n \in Nodes, EngineFails(n)
  PROVE  NodeInv(n)'
  <1> USE DEF logVars, stateVars, workVars
  <1>1. TypeOK /\ NodeInv(n)
    BY DEF IInv
  <1>2. /\ log' = log /\ snaps' = snaps /\ last_applied'[n] = last_applied[n]
        /\ kvdb'[n] = kvdb[n] /\ dual_write'[n] = dual_write[n]
        /\ tasks'[n] = tasks[n] /\ pc'[n] = "fatal"
        /\ inst'[n] = inst[n] /\ left'[n] = left[n]
        /\ snap_index'[n] = snap_index[n] /\ purged'[n] = purged[n]
        /\ reached'[n] = reached[n]
    BY <1>1 DEF EngineFails, TypeOK
  <1>3. /\ Given(n)' = last_applied[n] /\ last_applied[n] <= Given(n)
        /\ Installing(n)' = Installing(n) /\ Given(n) <= reached[n]
    BY <1>1, <1>2, NodeType DEF Given, Installing, NodeInv, Positions
  <1>4. last_applied[n] <= reached[n]
    BY <1>1, <1>3, NodeType
  <1>5. Positions(n)' /\ ConfigInv(n)' /\ CopyInv(n)' /\ SyncInv(n)'
    BY <1>1, <1>2, <1>3, <1>4 DEF NodeInv, Positions, ConfigInv, CopyInv, SyncInv, Between
  <1>6. TableInv(n)'
    <2>1. CASE Installing(n)
      BY <1>1, <1>2, <1>3, <2>1 DEF NodeInv, TableInv
    <2>2. CASE ~Installing(n)
      <3>1. Between(last_applied[n], reached[n], kvdb[n])
        BY <1>1, <1>3, <2>2, NodeType, Wider DEF NodeInv, TableInv
      <3> QED
        BY <1>2, <1>3, <2>2, <3>1 DEF TableInv, Between
    <2> QED
      BY <2>1, <2>2
  <1> QED
    BY <1>5, <1>6 DEF NodeInv

LEMMA ConfigNext ==
  ASSUME NEW m \in Nat, NEW c, ConfigAfter(log, m, c)
  PROVE  ConfigAfter(log, m + 1, IF log[m + 1].payload = "membership" THEN m + 1 ELSE c)
  <1>1. \A j \in 1..(m + 1) : j \in 1..m \/ j = m + 1
    OBVIOUS
  <1>2. CASE log[m + 1].payload = "membership"
    <2>1. m + 1 \in 1..(m + 1) /\ \A j \in (m + 1 + 1)..(m + 1) : FALSE
      OBVIOUS
    <2> QED
      BY <1>2, <2>1 DEF ConfigAfter
  <1>3. CASE log[m + 1].payload # "membership" /\ c = 0 /\ \A j \in 1..m : log[j].payload # "membership"
    BY <1>1, <1>3 DEF ConfigAfter
  <1>4. CASE /\ log[m + 1].payload # "membership"
             /\ c \in 1..m /\ log[c].payload = "membership"
             /\ \A j \in (c + 1)..m : log[j].payload # "membership"
    <2>1. c \in 1..(m + 1) /\ \A j \in (c + 1)..(m + 1) : j \in (c + 1)..m \/ j = m + 1
      BY <1>4
    <2> QED
      BY <1>4, <2>1 DEF ConfigAfter
  <1> QED
    BY <1>2, <1>3, <1>4 DEF ConfigAfter

\* Writing the next entry's key moves every key of the table past it.
LEMMA BetweenNext ==
  ASSUME log \in Seq(Entries), NEW a \in Nat, NEW b \in Nat, NEW c, NEW d,
         Between(a, b, c),
         \A k \in Keys : d[k] = IF k = log[a + 1].key THEN log[a + 1].value ELSE c[k],
         NEW h \in Nat, b <= h, a + 1 <= h
  PROVE  Between(a + 1, h, d)
  <1> SUFFICES ASSUME NEW k \in Keys
               PROVE  \E m \in (a + 1)..h : ValueAfter(log, m, k, d[k])
    BY DEF Between
  <1>0. a + 1 \in (a + 1)..h
    OBVIOUS
  <1>1. CASE k = log[a + 1].key
    BY <1>0, <1>1, ValueWritten
  <1>2. CASE k # log[a + 1].key
    <2>1. PICK m \in a..b : ValueAfter(log, m, k, c[k])
      BY DEF Between
    <2>2. CASE m = a
      BY <1>0, <1>2, <2>1, <2>2, ValueKept
    <2>3. CASE m # a
      <3>1. m \in (a + 1)..h
        BY <2>3
      <3> QED
        BY <1>2, <2>1, <3>1
    <2> QED
      BY <2>2, <2>3
  <1> QED
    BY <1>1, <1>2

LEMMA ApplyEntryStep ==
  ASSUME IInv, NEW n \in Nodes, ApplyEntry(n)
  PROVE  NodeInv(n)'
  <1> DEFINE i == last_applied[n] + 1
             e == log[i]
  <1> USE DEF logVars, workVars, envVars
  <1>1. TypeOK /\ NodeInv(n)
    BY DEF IInv
  <1>2. /\ log' = log /\ snaps' = snaps /\ last_applied'[n] = last_applied[n]
        /\ dual_write'[n] = dual_write[n] /\ tasks'[n] = tasks[n] /\ pc[n] = "entry"
        /\ inst'[n] = inst[n] /\ upto'[n] = upto[n]
        /\ snap_index'[n] = snap_index[n] /\ purged'[n] = purged[n]
        /\ pc'[n] = IF e.key \in Keys /\ DualMode[n] # "off" THEN "entry_dual" ELSE "mark"
        /\ reached'[n] = MaxOf(reached[n], i)
        /\ membership'[n] = IF e.payload = "membership" THEN i ELSE membership[n]
    BY <1>1 DEF ApplyEntry, TypeOK, Places
  <1>3. \A k \in Keys : kvdb'[n][k] = IF k = e.key THEN e.value ELSE kvdb[n][k]
    <2>1. kvdb \in [Nodes -> Contents]
      BY <1>1 DEF TypeOK
    <2>2. CASE e.key \in Keys
      BY <2>1, <2>2 DEF ApplyEntry, Contents
    <2>3. CASE e.key \notin Keys
      BY <2>3 DEF ApplyEntry
    <2> QED
      BY <2>2, <2>3
  <1>4. /\ Given(n) = last_applied[n] /\ Given(n)' = last_applied[n] + 1
        /\ ~Installing(n) /\ ~Installing(n)' /\ i <= upto[n]
    BY <1>1, <1>2, NodeType DEF Given, Installing, NodeInv, Positions
  <1>5. /\ last_applied[n] \in Nat /\ reached[n] \in Nat /\ reached'[n] \in Nat
        /\ i <= reached'[n] /\ reached[n] <= reached'[n]
    BY <1>1, <1>2, NodeType DEF MaxOf
  <1>6. Positions(n)'
    BY <1>1, <1>2, <1>3, <1>4, <1>5, NodeType DEF NodeInv, Positions
  <1>7. TableInv(n)'
    <2>1. Between(last_applied[n], reached[n], kvdb[n])
      BY <1>1, <1>4 DEF NodeInv, TableInv
    <2>2. Between(i, reached'[n], kvdb'[n])
      BY <1>1, <1>3, <1>5, <2>1, BetweenNext, NodeType
    <2> QED
      BY <1>2, <1>4, <2>2 DEF TableInv, Between
  <1>8. ConfigInv(n)'
    <2>1. ConfigAfter(log, last_applied[n], membership[n])
      BY <1>1, <1>2, <1>4 DEF NodeInv, ConfigInv
    <2> QED
      BY <1>2, <1>4, <1>5, <2>1, ConfigNext DEF ConfigInv
  <1>9. CopyInv(n)'
    <2>1. Between(0, reached'[n], dual_write[n])
      BY <1>1, <1>5, Wider DEF NodeInv, CopyInv
    <2>2. ASSUME NEW t \in tasks[n]
          PROVE  \E m \in 0..reached'[n] : ValueAfter(log, m, t.key, t.value)
      <3>1. PICK m \in 0..reached[n] : ValueAfter(log, m, t.key, t.value)
        BY <1>1 DEF NodeInv, CopyInv
      <3>2. m \in 0..reached'[n]
        BY <1>5
      <3> QED
        BY <3>1, <3>2
    <2> QED
      BY <1>2, <2>1, <2>2 DEF CopyInv, Between
  <1>10. SyncInv(n)'
    <2> SUFFICES ASSUME DualMode[n] = "sync", NEW k \in Keys
                 PROVE  \/ dual_write'[n][k] = kvdb'[n][k]
                        \/ pc'[n] = "entry_dual" /\ e.key = k
                        \/ \E j \in (i + 1)..reached'[n] : log[j].key = k
      BY <1>1, <1>2, <1>4 DEF NodeInv, SyncInv
    <2>1. CASE k = e.key
      BY <1>2, <2>1
    <2>2. CASE k # e.key /\ dual_write[n][k] = kvdb[n][k]
      BY <1>2, <1>3, <2>2
    <2>3. CASE k # e.key /\ dual_write[n][k] # kvdb[n][k]
      <3>1. PICK j \in (last_applied[n] + 1)..reached[n] : log[j].key = k
        BY <1>1, <1>2, <1>4, <2>3 DEF NodeInv, SyncInv
      <3>2. j \in (i + 1)..reached'[n]
        BY <1>5, <2>3, <3>1
      <3> QED
        BY <3>1, <3>2
    <2> QED
      BY <2>1, <2>2, <2>3
  <1> QED
    BY <1>6, <1>7, <1>8, <1>9, <1>10 DEF NodeInv

\* One value of the copy, or one spawned write, is replaced by another one of
\* the log's.
LEMMA CopyWrite ==
  ASSUME IInv, NEW n \in Nodes, log' = log, reached'[n] = reached[n],
         NEW k \in Keys, NEW v, NEW i \in Nat, WriteDual(n, i, k, v),
         \E m \in 0..reached[n] : ValueAfter(log, m, k, v)
  PROVE  /\ CopyInv(n)'
         /\ DualMode[n] = "sync" =>
              /\ tasks'[n] = tasks[n] /\ dual_write'[n][k] = v
              /\ \A h \in Keys : h # k => dual_write'[n][h] = dual_write[n][h]
  <1>1. /\ dual_write \in [Nodes -> Contents] /\ tasks \in [Nodes -> SUBSET Task]
        /\ CopyInv(n)
    BY DEF IInv, TypeOK, NodeInv
  <1>2. CASE DualMode[n] = "sync"
    <2>1. tasks'[n] = tasks[n]
      BY <1>1, <1>2 DEF WriteDual
    <2>2. \A h \in Keys : dual_write'[n][h] = IF h = k THEN v ELSE dual_write[n][h]
      BY <1>1, <1>2 DEF WriteDual, Contents
    <2>3. Between(0, reached[n], dual_write'[n])
      BY <1>1, <2>2 DEF CopyInv, Between
    <2> QED
      BY <1>1, <2>1, <2>2, <2>3 DEF CopyInv, Between
  <1>3. CASE DualMode[n] = "async"
    <2>1. /\ dual_write'[n] = dual_write[n]
          /\ tasks'[n] = tasks[n] \cup {[seq |-> i, key |-> k, value |-> v]}
      BY <1>1, <1>3 DEF WriteDual
    <2> QED
      BY <1>1, <1>3, <2>1 DEF CopyInv, Between
  <1> QED
    BY <1>2, <1>3 DEF WriteDual

LEMMA ApplyDualStep ==
  ASSUME IInv, NEW n \in Nodes, ApplyDual(n)
  PROVE  NodeInv(n)'
  <1> DEFINE i == last_applied[n] + 1
             e == log[i]
  <1> USE DEF logVars, stateVars, workVars, envVars
  <1>1. TypeOK /\ NodeInv(n)
    BY DEF IInv
  <1>2. /\ log' = log /\ snaps' = snaps /\ last_applied'[n] = last_applied[n]
        /\ membership'[n] = membership[n] /\ kvdb'[n] = kvdb[n] /\ pc[n] = "entry_dual"
        /\ inst'[n] = inst[n] /\ left'[n] = left[n] /\ upto'[n] = upto[n]
        /\ snap_index'[n] = snap_index[n] /\ purged'[n] = purged[n] /\ pc'[n] = "mark"
        /\ reached'[n] = reached[n]
    BY <1>1 DEF ApplyDual, TypeOK
  <1>3. /\ Given(n) = i /\ Given(n)' = i /\ Installing(n)' = Installing(n)
        /\ ~Installing(n) /\ i <= reached[n]
        /\ e.key \in Keys /\ kvdb[n][e.key] = e.value
    BY <1>1, <1>2 DEF Given, Installing, NodeInv, Positions
  <1>4. /\ CopyInv(n)'
        /\ DualMode[n] = "sync" =>
              /\ tasks'[n] = tasks[n] /\ dual_write'[n][e.key] = e.value
              /\ \A h \in Keys : h # e.key => dual_write'[n][h] = dual_write[n][h]
    <2>1. ValueAfter(log, i, e.key, e.value) /\ i \in 0..reached[n]
      BY <1>1, <1>3, NodeType, ValueWritten
    <2>2. WriteDual(n, i, e.key, e.value) /\ i \in Nat
      BY <1>1, NodeType DEF ApplyDual
    <2> QED
      BY <1>2, <1>3, <2>1, <2>2, CopyWrite
  <1>5. Positions(n)' /\ TableInv(n)' /\ ConfigInv(n)'
    BY <1>1, <1>2, <1>3 DEF NodeInv, Positions, TableInv, ConfigInv, Between
  <1>6. SyncInv(n)'
    BY <1>1, <1>2, <1>3, <1>4 DEF NodeInv, SyncInv
  <1> QED
    BY <1>4, <1>5, <1>6 DEF NodeInv

LEMMA MarkAppliedStep ==
  ASSUME IInv, NEW n \in Nodes, MarkApplied(n)
  PROVE  NodeInv(n)'
  <1> USE DEF logVars, workVars, envVars
  <1>1. TypeOK /\ NodeInv(n)
    BY DEF IInv
  <1>2. /\ log' = log /\ snaps' = snaps /\ last_applied'[n] = last_applied[n] + 1
        /\ membership'[n] = membership[n] /\ kvdb'[n] = kvdb[n] /\ pc[n] = "mark"
        /\ dual_write'[n] = dual_write[n] /\ tasks'[n] = tasks[n]
        /\ inst'[n] = inst[n] /\ left'[n] = left[n] /\ upto'[n] = upto[n]
        /\ snap_index'[n] = snap_index[n] /\ purged'[n] = purged[n]
        /\ reached'[n] = reached[n]
        /\ pc'[n] = IF last_applied[n] + 1 = upto[n] THEN "idle" ELSE "entry"
    BY <1>1 DEF MarkApplied, AppliedAfter, TypeOK
  <1>3. /\ Given(n) = last_applied[n] + 1 /\ Given(n)' = last_applied[n] + 1
        /\ Installing(n)' = Installing(n) /\ ~Installing(n)
        /\ pc'[n] = "entry" => last_applied[n] + 1 < upto[n]
    BY <1>1, <1>2, NodeType DEF Given, Installing, NodeInv, Positions
  <1>4. Positions(n)' /\ TableInv(n)' /\ ConfigInv(n)' /\ CopyInv(n)'
    BY <1>1, <1>2, <1>3 DEF NodeInv, Positions, TableInv, ConfigInv, CopyInv, Between
  <1>5. SyncInv(n)'
    BY <1>1, <1>2, <1>3 DEF NodeInv, SyncInv
  <1> QED
    BY <1>4, <1>5 DEF NodeInv

LEMMA RunTaskStep ==
  ASSUME IInv, NEW n \in Nodes, NEW t \in tasks[n], RunTask(n, t)
  PROVE  NodeInv(n)'
  <1> USE DEF logVars, stateVars, workVars
  <1>1. TypeOK /\ NodeInv(n)
    BY DEF IInv
  <1>2. /\ log' = log /\ snaps' = snaps /\ last_applied' = last_applied
        /\ membership' = membership /\ kvdb' = kvdb /\ pc' = pc
        /\ tasks'[n] \subseteq tasks[n] /\ reached' = reached
        /\ inst' = inst /\ left' = left /\ upto' = upto /\ cur' = cur
        /\ snap_index' = snap_index /\ purged' = purged
    BY <1>1 DEF RunTask, TypeOK
  <1>3. Given(n)' = Given(n) /\ Installing(n)' = Installing(n)
    BY <1>2 DEF Given, Installing
  <1>4. Positions(n)' /\ TableInv(n)' /\ ConfigInv(n)'
    BY <1>1, <1>2, <1>3 DEF NodeInv, Positions, TableInv, ConfigInv, Between
  <1>5. CopyInv(n)'
    <2>1. \A k \in Keys : \/ dual_write'[n][k] = dual_write[n][k]
                          \/ k = t.key /\ dual_write'[n][k] = t.value
      BY <1>1 DEF RunTask, TypeOK, Contents
    <2>2. \E m \in 0..reached[n] : ValueAfter(log, m, t.key, t.value)
      BY <1>1 DEF NodeInv, CopyInv
    <2>3. Between(0, reached[n], dual_write'[n])
      BY <1>1, <2>1, <2>2 DEF NodeInv, CopyInv, Between
    <2> QED
      BY <1>1, <1>2, <2>3 DEF NodeInv, CopyInv, Between
  <1>6. SyncInv(n)'
    BY <1>1 DEF NodeInv, SyncInv
  <1> QED
    BY <1>4, <1>5, <1>6 DEF NodeInv

LEMMA SnapshotSteps ==
  ASSUME IInv, NEW n \in Nodes, BuildSnapshot(n) \/ Purge(n)
  PROVE  NodeInv(n)'
  <1> USE DEF logVars, stateVars, workVars, envVars
  <1>1. TypeOK /\ NodeInv(n)
    BY DEF IInv
  <1>2. /\ log' = log /\ snaps' = snaps /\ last_applied' = last_applied
        /\ membership' = membership /\ kvdb' = kvdb /\ pc' = pc
        /\ tasks' = tasks /\ reached' = reached /\ dual_write' = dual_write
        /\ inst' = inst /\ left' = left /\ upto' = upto /\ cur' = cur
    BY DEF BuildSnapshot, Purge
  <1>3. Given(n)' = Given(n) /\ Installing(n)' = Installing(n) /\ last_applied[n] <= reached[n]
    BY <1>1, <1>2, NodeType DEF Given, Installing, NodeInv, Positions
  <1>4. snap_index'[n] <= reached[n] /\ purged'[n] <= reached[n]
    BY <1>1, <1>3, NodeType, BoundAssumption
       DEF BuildSnapshot, MetaIndex, Purge, NodeInv, Positions, TypeOK
  <1>5. Positions(n)' /\ TableInv(n)' /\ ConfigInv(n)' /\ CopyInv(n)'
    BY <1>1, <1>2, <1>3, <1>4
       DEF NodeInv, Positions, TableInv, ConfigInv, CopyInv, Between
  <1>6. SyncInv(n)'
    BY <1>1, <1>2, <1>3 DEF NodeInv, SyncInv
  <1> QED
    BY <1>5, <1>6 DEF NodeInv

LEMMA CopyWider ==
  ASSUME NEW n \in Nodes, CopyInv(n), reached[n] \in Nat, NEW h \in Nat, reached[n] <= h
  PROVE  /\ Between(0, h, dual_write[n])
         /\ \A t \in tasks[n] : \E m \in 0..h : ValueAfter(log, m, t.key, t.value)
  <1>1. Between(0, h, dual_write[n])
    BY Wider DEF CopyInv
  <1>2. 0..reached[n] \subseteq 0..h
    OBVIOUS
  <1> QED
    BY <1>1, <1>2 DEF CopyInv

LEMMA BeginInstallStep ==
  ASSUME IInv, NEW n \in Nodes, NEW s \in snaps, BeginInstall(n, s)
  PROVE  NodeInv(n)'
  <1> USE DEF logVars, envVars
  <1>1. TypeOK /\ NodeInv(n) /\ SnapshotInv(s) /\ s \in Snapshot
    BY DEF IInv, TypeOK
  <1>2. /\ log' = log /\ snaps' = snaps /\ last_applied'[n] = last_applied[n]
        /\ membership'[n] = membership[n] /\ kvdb'[n] = Empty /\ pc[n] = "idle"
        /\ dual_write'[n] = dual_write[n] /\ tasks'[n] = tasks[n]
        /\ inst'[n] = s /\ left'[n] = {k \in Keys : s.data[k] # NoValue}
        /\ snap_index'[n] = snap_index[n] /\ purged'[n] = purged[n]
        /\ reached'[n] = MaxOf(reached[n], s.seen)
        /\ pc'[n] = IF DualMode[n] = "off" THEN "load" ELSE "clear_dual"
        /\ s.index > last_applied[n]
    BY <1>1 DEF BeginInstall, Cleared, TypeOK
  <1>3. /\ s.seen \in Nat /\ s.index \in Nat /\ reached[n] \in Nat /\ last_applied[n] \in Nat
        /\ reached'[n] \in Nat /\ reached[n] <= reached'[n] /\ s.seen <= reached'[n]
    BY <1>1, <1>2, NodeType DEF Snapshot, MaxOf
  <1>4. Given(n)' = last_applied[n] /\ Given(n) = last_applied[n] /\ Installing(n)'
    BY <1>2, <1>3 DEF Given, Installing
  <1>5. Positions(n)'
    <2>1. /\ last_applied[n] <= reached[n] /\ purged[n] <= reached[n]
          /\ snap_index[n] <= reached[n]
      BY <1>1, <1>4 DEF NodeInv, Positions
    <2>2. /\ last_applied[n] <= reached'[n] /\ purged[n] <= reached'[n]
          /\ snap_index[n] <= reached'[n]
      BY <1>1, <1>3, <2>1, NodeType
    <2> QED
      BY <1>2, <1>4, <2>2 DEF Positions
  <1>6. TableInv(n)' /\ ConfigInv(n)'
    BY <1>1, <1>2, <1>3, <1>4 DEF NodeInv, TableInv, ConfigInv, Empty
  <1>7. CopyInv(n)'
    BY <1>1, <1>2, <1>3, CopyWider DEF NodeInv, CopyInv, Between
  <1>8. SyncInv(n)'
    BY <1>1, <1>2 DEF NodeInv, SyncInv
  <1> QED
    BY <1>5, <1>6, <1>7, <1>8 DEF NodeInv

LEMMA ClearDualStep ==
  ASSUME IInv, NEW n \in Nodes, ClearDual(n)
  PROVE  NodeInv(n)'
  <1> USE DEF logVars, stateVars, workVars, envVars
  <1>1. TypeOK /\ NodeInv(n)
    BY DEF IInv
  <1>2. /\ log' = log /\ snaps' = snaps /\ last_applied' = last_applied
        /\ membership' = membership /\ kvdb' = kvdb /\ pc[n] = "clear_dual"
        /\ pc'[n] = "load" /\ tasks' = tasks /\ reached' = reached
        /\ dual_write'[n] = Empty /\ inst' = inst /\ left' = left
        /\ snap_index' = snap_index /\ purged' = purged
    BY <1>1 DEF ClearDual, Cleared, TypeOK
  <1>3. Given(n)' = Given(n) /\ Installing(n)' = Installing(n)
    BY <1>2 DEF Given, Installing
  <1>4. Positions(n)' /\ TableInv(n)' /\ ConfigInv(n)'
    BY <1>1, <1>2, <1>3 DEF NodeInv, Positions, TableInv, ConfigInv, Between
  <1>5. CopyInv(n)'
    <2>1. Between(0, reached[n], Empty)
      BY <1>1, NodeType, EmptyBetween
    <2> QED
      BY <1>1, <1>2, <2>1 DEF NodeInv, CopyInv, Between
  <1>6. SyncInv(n)'
    BY <1>1, <1>2 DEF NodeInv, SyncInv, Positions
  <1> QED
    BY <1>4, <1>5, <1>6 DEF NodeInv

LEMMA LoadPairStep ==
  ASSUME IInv, NEW n \in Nodes, NEW k \in Keys, LoadPair(n, k)
  PROVE  NodeInv(n)'
  <1> USE DEF logVars, envVars
  <1>1. TypeOK /\ NodeInv(n)
    BY DEF IInv
  <1>2. /\ log' = log /\ snaps' = snaps /\ last_applied' = last_applied
        /\ membership' = membership /\ pc[n] = "load" /\ k \in left[n]
        /\ tasks' = tasks /\ reached' = reached /\ dual_write' = dual_write
        /\ inst' = inst /\ left'[n] = left[n] \ {k} /\ cur'[n] = k
        /\ snap_index' = snap_index /\ purged' = purged
        /\ pc'[n] = IF DualMode[n] = "off" THEN "load" ELSE "load_dual"
    BY <1>1 DEF LoadPair, TypeOK
  <1>3. \A h \in Keys : kvdb'[n][h] = IF h = k THEN inst[n].data[k] ELSE kvdb[n][h]
    <2>1. kvdb \in [Nodes -> Contents]
      BY <1>1 DEF TypeOK
    <2> QED
      BY <2>1 DEF LoadPair, Contents
  <1>4. /\ Given(n)' = Given(n) /\ Installing(n)' = Installing(n) /\ Installing(n)
        /\ Given(n) = last_applied[n]
    BY <1>1, <1>2 DEF Given, Installing, NodeInv, Positions
  <1>5. Positions(n)' /\ ConfigInv(n)' /\ CopyInv(n)'
    BY <1>1, <1>2, <1>4 DEF NodeInv, Positions, ConfigInv, CopyInv, Between
  <1>6. TableInv(n)'
    BY <1>1, <1>2, <1>3, <1>4 DEF NodeInv, TableInv
  <1>7. SyncInv(n)'
    BY <1>1, <1>2, <1>3 DEF NodeInv, SyncInv
  <1> QED
    BY <1>5, <1>6, <1>7 DEF NodeInv

LEMMA LoadDualStep ==
  ASSUME IInv, NEW n \in Nodes, LoadDual(n)
  PROVE  NodeInv(n)'
  <1> DEFINE v == inst[n].data[cur[n]]
  <1> USE DEF logVars, stateVars, workVars, envVars
  <1>1. TypeOK /\ NodeInv(n)
    BY DEF IInv
  <1>2. /\ log' = log /\ snaps' = snaps /\ last_applied' = last_applied
        /\ membership' = membership /\ pc[n] = "load_dual" /\ kvdb' = kvdb
        /\ reached' = reached /\ inst' = inst /\ left' = left
        /\ snap_index' = snap_index /\ purged' = purged /\ pc'[n] = "load"
        /\ WriteDual(n, inst[n].index, cur[n], v)
    BY <1>1 DEF LoadDual, TypeOK
  <1>3. /\ Given(n)' = Given(n) /\ Installing(n)' = Installing(n) /\ Installing(n)
        /\ cur[n] \in Keys /\ cur[n] \notin left[n]
    BY <1>1, <1>2 DEF Given, Installing, NodeInv, Positions
  <1>4. inst[n] \in snaps /\ inst[n].seen <= reached[n] /\ kvdb[n][cur[n]] = v
    BY <1>1, <1>3 DEF NodeInv, TableInv
  <1>5. inst[n].index \in Nat /\ inst[n].seen \in Nat /\ reached[n] \in Nat
    BY <1>1, NodeType DEF Snapshot
  <1>6. \E m \in 0..reached[n] : ValueAfter(log, m, cur[n], v)
    <2>1. PICK m \in (inst[n].index)..(inst[n].seen) : ValueAfter(log, m, cur[n], v)
      BY <1>3, <1>4 DEF IInv, SnapshotInv, Between
    <2>2. m \in 0..reached[n]
      BY <1>4, <1>5
    <2> QED
      BY <2>1, <2>2
  <1>7. /\ CopyInv(n)'
        /\ DualMode[n] = "sync" =>
              /\ tasks'[n] = tasks[n] /\ dual_write'[n][cur[n]] = v
              /\ \A h \in Keys : h # cur[n] => dual_write'[n][h] = dual_write[n][h]
    BY <1>2, <1>3, <1>5, <1>6, CopyWrite
  <1>8. Positions(n)' /\ TableInv(n)' /\ ConfigInv(n)'
    BY <1>1, <1>2, <1>3 DEF NodeInv, Positions, TableInv, ConfigInv, Between
  <1>9. SyncInv(n)'
    <2> SUFFICES ASSUME DualMode[n] = "sync" PROVE tasks'[n] = {} /\ dual_write'[n] = kvdb'[n]
      BY <1>2 DEF SyncInv
    <2>1. \A h \in Keys : dual_write'[n][h] = kvdb[n][h]
      BY <1>1, <1>2, <1>4, <1>7 DEF NodeInv, SyncInv
    <2>2. dual_write'[n] \in Contents /\ kvdb[n] \in Contents
      <3>1. v \in Values \cup {NoValue}
        BY <1>1, <1>3, NodeType DEF Snapshot, Contents
      <3>2. dual_write' \in [Nodes -> Contents]
        BY <1>1, <1>2, <1>3, <1>5, <3>1, WriteDualType
      <3> QED
        BY <1>1, <3>2 DEF TypeOK
    <2>3. dual_write'[n] = kvdb[n]
      BY <2>1, <2>2 DEF Contents
    <2> QED
      BY <1>1, <1>2, <1>7, <2>3 DEF NodeInv, SyncInv
  <1> QED
    BY <1>7, <1>8, <1>9 DEF NodeInv

LEMMA FinishInstallStep ==
  ASSUME IInv, NEW n \in Nodes, FinishInstall(n)
  PROVE  NodeInv(n)'
  <1> DEFINE s == inst[n]
  <1> USE DEF envVars
  <1>1. TypeOK /\ NodeInv(n)
    BY DEF IInv
  <1>2. /\ log' = log /\ snaps' = snaps /\ last_applied'[n] = s.index
        /\ membership'[n] = s.config /\ kvdb' = kvdb /\ pc[n] = "load"
        /\ left[n] = {} /\ dual_write' = dual_write /\ tasks' = tasks
        /\ inst'[n] = NoSnapshot /\ reached' = reached /\ pc'[n] = "idle"
        /\ snap_index'[n] = MaxOf(snap_index[n], s.index)
        /\ purged'[n] = MaxOf(purged[n], s.index)
    BY <1>1 DEF FinishInstall, AdoptedConfig, TypeOK
  <1>3. /\ s \in snaps /\ s.seen <= reached[n] /\ SnapshotInv(s)
        /\ \A k \in Keys : kvdb[n][k] = s.data[k]
    BY <1>1, <1>2 DEF IInv, NodeInv, Positions, TableInv
  <1>4. /\ s.index \in Nat /\ s.seen \in Nat /\ reached[n] \in Nat
        /\ purged[n] \in Nat /\ snap_index[n] \in Nat
        /\ s.index <= reached[n]
    BY <1>1, <1>3, NodeType DEF Snapshot, SnapshotInv
  <1>5. Given(n)' = s.index /\ ~Installing(n)'
    BY <1>2, <1>4 DEF Given, Installing, NoSnapshot
  <1>6. Positions(n)'
    <2>1. purged'[n] <= reached[n] /\ snap_index'[n] <= reached[n]
      BY <1>1, <1>2, <1>4 DEF NodeInv, Positions, MaxOf
    <2> QED
      BY <1>2, <1>4, <1>5, <2>1 DEF Positions
  <1>7. TableInv(n)'
    <2>1. Between(s.index, reached[n], s.data)
      BY <1>3, <1>4, Wider DEF SnapshotInv
    <2> QED
      BY <1>2, <1>3, <1>5, <2>1 DEF TableInv, Between
  <1>8. ConfigInv(n)'
    BY <1>2, <1>3, <1>5 DEF ConfigInv, SnapshotInv
  <1>9. CopyInv(n)' /\ SyncInv(n)'
    BY <1>1, <1>2 DEF NodeInv, CopyInv, Between, SyncInv
  <1> QED
    BY <1>6, <1>7, <1>8, <1>9 DEF NodeInv

LEMMA RestartStep ==
  ASSUME IInv, NEW n \in Nodes, Restart(n)
  PROVE  NodeInv(n)'
  <1>1. TypeOK /\ NodeInv(n)
    BY DEF IInv
  <1>2. /\ log' = log /\ snaps' = snaps /\ last_applied'[n] = 0
        /\ membership'[n] = 0 /\ pc'[n] = "idle" /\ tasks'[n] = {}
        /\ inst'[n] = NoSnapshot /\ reached' = reached /\ snap_index'[n] = 0
        /\ purged'[n] \in {0, purged[n]}
        /\ kvdb'[n] \in {kvdb[n], Empty} /\ dual_write'[n] \in {dual_write[n], Empty}
    BY <1>1 DEF Restart, TypeOK
  <1>3. Given(n)' = 0 /\ ~Installing(n)' /\ reached[n] \in Nat
    BY <1>1, <1>2, NodeType DEF Given, Installing, NoSnapshot
  <1>4. Positions(n)'
    BY <1>1, <1>2, <1>3 DEF NodeInv, Positions
  <1>5. Between(0, reached[n], kvdb'[n])
    <2>1. CASE kvdb'[n] = Empty
      BY <1>3, <2>1, EmptyBetween
    <2>2. CASE kvdb'[n] = kvdb[n] /\ ~Installing(n)
      <3>1. Given(n) \in Nat /\ Between(Given(n), reached[n], kvdb[n])
        BY <1>1, <2>2, NodeType DEF NodeInv, TableInv
      <3> QED
        BY <1>3, <2>2, <3>1, Wider
    <2>3. CASE kvdb'[n] = kvdb[n] /\ Installing(n)
      <3> SUFFICES ASSUME NEW k \in Keys
                   PROVE  \E m \in 0..reached[n] : ValueAfter(log, m, k, kvdb[n][k])
        BY <2>3 DEF Between
      <3>1. /\ inst[n] \in snaps /\ inst[n].seen <= reached[n] /\ SnapshotInv(inst[n])
            /\ kvdb[n][k] = IF k \in left[n] THEN NoValue ELSE inst[n].data[k]
        BY <1>1, <2>3 DEF IInv, NodeInv, TableInv
      <3>2. inst[n].index \in Nat /\ inst[n].seen \in Nat
        BY <1>1, NodeType DEF Snapshot
      <3>3. CASE k \in left[n]
        <4>1. ValueAfter(log, 0, k, NoValue) /\ 0 \in 0..reached[n]
          BY <1>3 DEF ValueAfter
        <4> QED
          BY <3>1, <3>3, <4>1
      <3>4. CASE k \notin left[n]
        <4>1. PICK m \in (inst[n].index)..(inst[n].seen) : ValueAfter(log, m, k, inst[n].data[k])
          BY <3>1 DEF SnapshotInv, Between
        <4>2. m \in 0..reached[n]
          BY <1>3, <3>1, <3>2
        <4> QED
          BY <3>1, <3>4, <4>1, <4>2
      <3> QED
        BY <3>3, <3>4
    <2> QED
      BY <1>2, <2>1, <2>2, <2>3
  <1>6. Between(0, reached[n], dual_write'[n])
    BY <1>1, <1>2, <1>3, EmptyBetween DEF NodeInv, CopyInv
  <1>7. TableInv(n)' /\ CopyInv(n)'
    BY <1>2, <1>3, <1>5, <1>6 DEF TableInv, CopyInv, Between
  <1>8. ConfigInv(n)'
    BY <1>2, <1>3 DEF ConfigInv, ConfigAfter
  <1>9. SyncInv(n)'
    <2>1. ASSUME NEW k \in Keys, dual_write'[n][k] # kvdb'[n][k]
          PROVE  \E i \in (0 + 1)..reached[n] : log[i].key = k
      <3>1. kvdb'[n][k] # NoValue \/ dual_write'[n][k] # NoValue
        BY <2>1
      <3>2. CASE kvdb'[n][k] # NoValue
        BY <1>3, <1>5, <3>2, Written
      <3>3. CASE dual_write'[n][k] # NoValue
        BY <1>3, <1>6, <3>3, Written
      <3> QED
        BY <3>1, <3>2, <3>3
    <2> QED
      BY <1>2, <1>3, <2>1 DEF SyncInv
  <1> QED
    BY <1>4, <1>7, <1>8, <1>9 DEF NodeInv
-----------------------------------------------------------------------------
(* The inductive invariant *)

LEMMA SnapshotStep == IInv /\ Next => (\A s \in snaps : SnapshotInv(s))'
  <1> SUFFICES ASSUME IInv, Next PROVE \A s \in snaps' : SnapshotInv(s)'
    OBVIOUS
  <1>1. TypeOK /\ LogGrows
    BY NextGrows DEF IInv
  <1>2. ASSUME NEW s \in snaps PROVE SnapshotInv(s)'
    BY <1>1, <1>2, SnapshotFrame DEF IInv
  <1>3. ASSUME NEW n \in Nodes, GetCurrentSnapshot(n) PROVE \A s \in snaps' : SnapshotInv(s)'
    <2> DEFINE c == CurrentSnapshot(n)
    <2>1. NodeInv(n) /\ pc[n] = "idle" /\ log' = log /\ snaps' = snaps \cup {c}
      BY <1>3 DEF GetCurrentSnapshot, IInv, logVars
    <2>2. ~Installing(n) /\ Given(n) = last_applied[n]
      BY <2>1 DEF NodeInv, Positions, Given
    <2>3. /\ Between(last_applied[n], reached[n], kvdb[n])
          /\ ConfigAfter(log, last_applied[n], membership[n])
          /\ last_applied[n] <= reached[n]
      BY <2>1, <2>2 DEF NodeInv, TableInv, ConfigInv, Positions
    <2>4. reached[n] <= Len(log) /\ membership[n] <= Len(log)
      BY <1>1 DEF TypeOK, Index
    <2>5. ASSUME NEW s, s = c PROVE SnapshotInv(s)'
      BY <2>5, <2>1, <2>3, <2>4 DEF SnapshotInv, CurrentSnapshot, Between
    <2> QED
      BY <1>2, <2>1, <2>5
  <1>4. snaps' = snaps \/ \E n \in Nodes : GetCurrentSnapshot(n)
    BY DEF Next, Worker, ClientWrite, Elect, Replicate, BeginApply, ApplyEntry,
       ApplyDual, MarkApplied, BeginInstall, ClearDual, LoadPair, LoadDual,
       FinishInstall, RunTask, EngineFails, BuildSnapshot, Purge, Restart, envVars
  <1> QED
    BY <1>2, <1>3, <1>4

\* A step that belongs to one node leaves the others' variables alone.
LEMMA OtherNodes ==
  ASSUME TypeOK, NEW n \in Nodes, NEW m \in Nodes, m # n,
         \/ Worker(n) \/ (\E t \in tasks[n] : RunTask(n, t))
         \/ EngineFails(n) \/ BuildSnapshot(n) \/ Purge(n) \/ Restart(n)
  PROVE  UNCHANGED Local(m)
  <1> USE DEF Local, TypeOK, logVars, stateVars, workVars, envVars
  <1>1. CASE BeginApply(n) \/ ApplyEntry(n) \/ MarkApplied(n)
    BY <1>1 DEF BeginApply, ApplyEntry, MarkApplied
  <1>2. CASE ApplyDual(n) \/ LoadDual(n)
    BY <1>2 DEF ApplyDual, LoadDual, WriteDual
  <1>3. CASE GetCurrentSnapshot(n) \/ (\E s \in snaps : BeginInstall(n, s))
    BY <1>3 DEF GetCurrentSnapshot, BeginInstall
  <1>4. CASE ClearDual(n) \/ (\E k \in Keys : LoadPair(n, k)) \/ FinishInstall(n)
    BY <1>4 DEF ClearDual, LoadPair, FinishInstall
  <1>5. CASE (\E t \in tasks[n] : RunTask(n, t)) \/ EngineFails(n)
    BY <1>5 DEF RunTask, EngineFails
  <1>6. CASE BuildSnapshot(n) \/ Purge(n)
    BY <1>6 DEF BuildSnapshot, Purge
  <1>7. CASE Restart(n)
    BY <1>7 DEF Restart
  <1> QED
    BY <1>1, <1>2, <1>3, <1>4, <1>5, <1>6, <1>7 DEF Worker

LEMMA NodeStep == IInv /\ Next => (\A m \in Nodes : NodeInv(m))'
  <1> SUFFICES ASSUME IInv, Next, NEW m \in Nodes PROVE NodeInv(m)'
    OBVIOUS
  <1>1. TypeOK /\ NodeInv(m) /\ LogGrows /\ snaps \subseteq snaps'
    BY NextGrows DEF IInv
  <1>2. CASE UNCHANGED Local(m)
    BY <1>1, <1>2, Frame
  <1>3. ASSUME NEW e \in Requests, ClientWrite(e) PROVE UNCHANGED Local(m)
    BY <1>3 DEF ClientWrite, Local, stateVars, workVars, envVars
  <1>4. ASSUME NEW n \in Nodes, Elect(n) \/ Replicate(n) \/ GetCurrentSnapshot(n)
        PROVE  UNCHANGED Local(m)
    BY <1>4 DEF Elect, Replicate, GetCurrentSnapshot, Local, stateVars, workVars, envVars
  <1>5. ASSUME NEW n \in Nodes, m # n,
               \/ Worker(n) \/ (\E t \in tasks[n] : RunTask(n, t))
               \/ EngineFails(n) \/ BuildSnapshot(n) \/ Purge(n) \/ Restart(n)
        PROVE  UNCHANGED Local(m)
    BY <1>1, <1>5, OtherNodes
  <1>6. CASE BeginApply(m) \/ ApplyEntry(m) \/ ApplyDual(m) \/ MarkApplied(m)
    BY <1>6, BeginApplyStep, ApplyEntryStep, ApplyDualStep, MarkAppliedStep
  <1>7. CASE (\E s \in snaps : BeginInstall(m, s)) \/ ClearDual(m)
               \/ (\E k \in Keys : LoadPair(m, k)) \/ LoadDual(m) \/ FinishInstall(m)
    BY <1>7, BeginInstallStep, ClearDualStep, LoadPairStep, LoadDualStep, FinishInstallStep
  <1>8. CASE \/ (\E t \in tasks[m] : RunTask(m, t)) \/ EngineFails(m)
             \/ BuildSnapshot(m) \/ Purge(m) \/ Restart(m)
    BY <1>8, RunTaskStep, EngineFailsStep, SnapshotSteps, RestartStep
  <1> QED
    BY <1>2, <1>3, <1>4, <1>5, <1>6, <1>7, <1>8 DEF Next, Worker

LEMMA StutterInv == IInv /\ UNCHANGED vars => IInv'
  <1> SUFFICES ASSUME IInv, UNCHANGED vars PROVE IInv'
    OBVIOUS
  <1> USE DEF vars
  <1>1. TypeOK'
    BY DEF IInv, TypeOK, Index
  <1>2. LogGrows
    BY LogSame DEF IInv
  <1>3. \A n \in Nodes : NodeInv(n)'
    BY <1>2, Frame DEF IInv, Local
  <1>4. \A s \in snaps' : SnapshotInv(s)'
    BY <1>2, SnapshotFrame DEF IInv
  <1> QED
    BY <1>1, <1>3, <1>4 DEF IInv

\* The inductive invariant holds in every reachable state, whatever crashes,
\* fails, is delayed or delivered twice.
THEOREM Invariant == Spec => []IInv
  <1>1. Init => IInv
    BY InitInv
  <1>2. IInv /\ [Next]_vars => IInv'
    BY TypeStep, NodeStep, SnapshotStep, StutterInv DEF IInv
  <1> QED
    BY <1>1, <1>2, PTL DEF Spec
-----------------------------------------------------------------------------
(* What follows from it *)

\* Every variable keeps its type and every position stays inside the log.
THEOREM TypeCorrect == Spec => []TypeOK
  <1>1. IInv => TypeOK
    BY DEF IInv
  <1> QED
    BY <1>1, Invariant, PTL

\* What a process has acknowledged stays visible to kv_get, outside an install,
\* until that process ends: the table is never older than last_applied.  What
\* an earlier process acknowledged may be hidden again by a replay.
THEOREM Visibility == Spec => []AppliedVisible
  <1>1. IInv => AppliedVisible
    <2> SUFFICES ASSUME IInv, NEW n \in Nodes, ~Installing(n)
                 PROVE  Between(last_applied[n], reached[n], kvdb[n])
      BY DEF AppliedVisible
    <2>1. TypeOK /\ Between(Given(n), reached[n], kvdb[n])
      BY DEF IInv, NodeInv, TableInv
    <2>2. last_applied[n] <= Given(n)
      BY <2>1, NodeType DEF Given
    <2> QED
      BY <2>1, <2>2, NodeType, Wider
  <1> QED
    BY <1>1, Invariant, PTL

LEMMA CaughtUpExact ==
  ASSUME IInv, NEW n \in Nodes, CaughtUp(n)
  PROVE  /\ ContentsAfter(log, last_applied[n], kvdb[n])
         /\ ConfigAfter(log, last_applied[n], membership[n])
  <1>1. TypeOK /\ NodeInv(n) /\ pc[n] = "idle" /\ last_applied[n] >= reached[n]
    BY DEF IInv, CaughtUp
  <1>2. Given(n) = last_applied[n] /\ ~Installing(n)
    BY <1>1 DEF Given, NodeInv, Positions
  <1>3. ASSUME NEW k \in Keys PROVE ValueAfter(log, last_applied[n], k, kvdb[n][k])
    <2>1. PICK m \in last_applied[n]..reached[n] : ValueAfter(log, m, k, kvdb[n][k])
      BY <1>1, <1>2 DEF NodeInv, TableInv, Between
    <2>2. m = last_applied[n]
      BY <1>1, NodeType
    <2> QED
      BY <2>1, <2>2
  <1> QED
    BY <1>1, <1>2, <1>3 DEF ContentsAfter, NodeInv, ConfigInv

\* Once a node has caught up, after any restarts, failures and installs, its
\* primary engine is exactly what the applied prefix of the log produces.
THEOREM Exactness == Spec => []PrimaryExact
  <1>1. IInv => PrimaryExact
    BY CaughtUpExact DEF PrimaryExact
  <1> QED
    BY <1>1, Invariant, PTL

\* Nodes that caught up to the same entry agree on the table and membership.
THEOREM Agreement == Spec => []ReplicasAgree
  <1>1. IInv => ReplicasAgree
    <2> SUFFICES ASSUME IInv, NEW m \in Nodes, NEW n \in Nodes, CaughtUp(m),
                        CaughtUp(n), last_applied[m] = last_applied[n]
                 PROVE  kvdb[m] = kvdb[n] /\ membership[m] = membership[n]
      BY DEF ReplicasAgree
    <2>1. /\ kvdb[m] \in Contents /\ kvdb[n] \in Contents /\ last_applied[n] \in Nat
      BY NodeType DEF IInv, TypeOK
    <2>2. \A k \in Keys : kvdb[m][k] = kvdb[n][k]
      BY <2>1, CaughtUpExact, ValueUnique DEF ContentsAfter
    <2>3. membership[m] = membership[n]
      BY <2>1, CaughtUpExact, ConfigUnique
    <2> QED
      BY <2>1, <2>2, <2>3 DEF Contents
  <1> QED
    BY <1>1, Invariant, PTL

\* Every snapshot in flight carries the table and the configuration of the
\* entry it names.
THEOREM SnapshotsCorrect == Spec => []SnapshotsExact
  <1>1. IInv => SnapshotsExact
    BY DEF IInv, SnapshotInv, SnapshotsExact
  <1> QED
    BY <1>1, Invariant, PTL

\* In sync mode a caught-up node's copy equals its primary engine.
THEOREM SyncCopy == Spec => []SyncCopyEqual
  <1>1. IInv => SyncCopyEqual
    <2> SUFFICES ASSUME IInv, NEW n \in Nodes, DualMode[n] = "sync", CaughtUp(n)
                 PROVE  dual_write[n] = kvdb[n]
      BY DEF SyncCopyEqual
    <2>1. /\ TypeOK /\ SyncInv(n) /\ Given(n) = last_applied[n] /\ pc[n] = "idle"
          /\ last_applied[n] >= reached[n]
      BY DEF IInv, NodeInv, CaughtUp, Given
    <2>2. \A i \in (last_applied[n] + 1)..reached[n] : FALSE
      BY <2>1, NodeType
    <2>3. \A k \in Keys : dual_write[n][k] = kvdb[n][k]
      BY <2>1, <2>2 DEF SyncInv
    <2> QED
      BY <2>1, <2>3 DEF TypeOK, Contents
  <1> QED
    BY <1>1, Invariant, PTL

\* Whatever the order of the spawned writes, the copy holds only values the
\* log gave that key by then.
THEOREM CopyOrigin == Spec => []CopyFromLog
  <1>1. IInv => CopyFromLog
    BY DEF IInv, NodeInv, CopyInv, CopyFromLog
  <1> QED
    BY <1>1, Invariant, PTL

\* Purging behind a snapshot removes only entries the table has reflected.
THEOREM PurgeSafe == Spec => []PurgedReflected
  <1>1. IInv => PurgedReflected
    BY DEF IInv, NodeInv, Positions, PurgedReflected
  <1> QED
    BY <1>1, Invariant, PTL

-----------------------------------------------------------------------------
(* Without a restart, the nodes implement ReplicatedKv.                     *)

\* The table n stands for: that of the snapshot, while one is being installed.
Shown == [n \in Nodes |-> IF Installing(n) THEN inst[n].data ELSE kvdb[n]]

\* Nothing is replayed: a node's table reflects what was given to it, and a
\* snapshot nothing beyond the entry it names.
InStep(n) ==
  pc[n] # "fatal" => reached[n] = IF Installing(n) THEN inst[n].index ELSE Given(n)

WalkInv ==
  /\ restarts = 0
  /\ \A n \in Nodes : InStep(n)
  /\ \A s \in snaps : s.seen = s.index

LEMMA WalkInit == Init => WalkInv
  BY DEF Init, WalkInv, InStep, Given, Installing, NoSnapshot

\* Steps of n leave the tables of the others alone.
LEMMA InStepSame ==
  ASSUME NEW n \in Nodes,
         UNCHANGED <<pc[n], reached[n], inst[n], last_applied[n]>>, InStep(n)
  PROVE  InStep(n)'
  BY DEF InStep, Installing, Given

LEMMA WalkStep ==
  ASSUME MaxRestarts = 0, IInv, WalkInv, Next
  PROVE  WalkInv'
  <1>1. TypeOK /\ \A n \in Nodes : Positions(n)
    BY DEF IInv, NodeInv
  <1> USE DEF TypeOK
  <1>2. \A n \in Nodes : ~Restart(n)
    BY DEF Restart, WalkInv
  <1>3. restarts' = 0
    BY <1>2 DEF Next, Elect, ClientWrite, Replicate, Worker, BeginApply, ApplyEntry, ApplyDual,
         MarkApplied, GetCurrentSnapshot, BeginInstall, ClearDual, LoadPair, LoadDual,
         FinishInstall, RunTask, EngineFails, BuildSnapshot, Purge, envVars, WalkInv
  <1>4. ASSUME NEW n \in Nodes, GetCurrentSnapshot(n)
        PROVE  \A s \in snaps' : s.seen = s.index
    <2>1. ~Installing(n) /\ Given(n) = last_applied[n] /\ pc[n] = "idle"
      BY <1>1, <1>4 DEF GetCurrentSnapshot, Positions, Given
    <2>2. reached[n] = last_applied[n]
      BY <2>1 DEF WalkInv, InStep
    <2>3. CurrentSnapshot(n).seen = CurrentSnapshot(n).index
      BY <2>2 DEF CurrentSnapshot
    <2> QED
      BY <1>4, <2>3 DEF GetCurrentSnapshot, WalkInv
  <1>5. \A s \in snaps' : s.seen = s.index
    <2>1. CASE \E n \in Nodes : GetCurrentSnapshot(n)
      BY <1>4, <2>1
    <2>2. CASE ~(\E n \in Nodes : GetCurrentSnapshot(n))
      <3>1. snaps' = snaps
        BY <1>2, <2>2 DEF Next, Elect, ClientWrite, Replicate, Worker, BeginApply,
             ApplyEntry, ApplyDual, MarkApplied, BeginInstall, ClearDual, LoadPair, LoadDual,
             FinishInstall, RunTask, EngineFails, BuildSnapshot, Purge, envVars
      <3> QED
        BY <3>1 DEF WalkInv
    <2> QED
      BY <2>1, <2>2
  <1>6. ASSUME NEW m \in Nodes
        PROVE  InStep(m)'
    <2> USE DEF WalkInv
    <2>1. CASE \E e \in Requests : ClientWrite(e)
      BY <2>1, InStepSame DEF ClientWrite, stateVars, workVars
    <2>2. ASSUME NEW n \in Nodes,
                 \/ Elect(n) \/ Replicate(n) \/ BuildSnapshot(n) \/ Purge(n)
                 \/ GetCurrentSnapshot(n) \/ \E t \in tasks[n] : RunTask(n, t)
          PROVE  InStep(m)'
      BY <2>2, InStepSame DEF Elect, Replicate, BuildSnapshot, Purge, GetCurrentSnapshot,
           RunTask, stateVars, workVars
    <2>3. ASSUME NEW n \in Nodes, n # m, Worker(n) \/ EngineFails(n)
          PROVE  InStep(m)'
      <3>1. UNCHANGED <<pc[m], reached[m], inst[m], last_applied[m]>>
        <4>1. CASE BeginApply(n) \/ ApplyEntry(n) \/ ApplyDual(n) \/ MarkApplied(n)
          BY <1>1, <2>3, <4>1 DEF BeginApply, ApplyEntry, ApplyDual, MarkApplied,
               stateVars, workVars
        <4>2. CASE GetCurrentSnapshot(n) \/ EngineFails(n)
          BY <1>1, <2>3, <4>2 DEF GetCurrentSnapshot, EngineFails, stateVars, workVars
        <4>3. CASE \E s \in snaps : BeginInstall(n, s)
          BY <1>1, <2>3, <4>3 DEF BeginInstall
        <4>4. CASE ClearDual(n) \/ (\E k \in Keys : LoadPair(n, k)) \/ LoadDual(n)
          BY <1>1, <2>3, <4>4 DEF ClearDual, LoadPair, LoadDual, stateVars, workVars
        <4>5. CASE FinishInstall(n)
          BY <1>1, <2>3, <4>5 DEF FinishInstall
        <4> QED
          BY <2>3, <4>1, <4>2, <4>3, <4>4, <4>5 DEF Worker
      <3> QED
        BY <3>1, InStepSame
    <2>4. CASE EngineFails(m)
      BY <1>1, <2>4 DEF EngineFails, InStep
    <2>5. CASE BeginApply(m) \/ ApplyDual(m) \/ MarkApplied(m)
      <3>1. /\ pc[m] # "fatal" /\ inst' = inst /\ reached' = reached /\ ~Installing(m)
        BY <1>1, <2>5 DEF BeginApply, ApplyDual, MarkApplied, Positions, stateVars, workVars
      <3>2. Given(m)' = Given(m)
        <4>1. CASE BeginApply(m)
          BY <1>1, <4>1 DEF BeginApply, Given, stateVars
        <4>2. CASE ApplyDual(m)
          BY <1>1, <4>2 DEF ApplyDual, Given, stateVars
        <4>3. CASE MarkApplied(m)
          BY <1>1, <4>3 DEF MarkApplied, AppliedAfter, Given
        <4> QED
          BY <2>5, <4>1, <4>2, <4>3
      <3> QED
        BY <3>1, <3>2 DEF InStep, Installing
    <2>6. CASE ApplyEntry(m)
      <3>1. ~Installing(m) /\ Given(m) = last_applied[m] /\ pc[m] = "entry"
        BY <1>1, <2>6 DEF ApplyEntry, Positions, Given
      <3>2. reached[m] = last_applied[m]
        BY <3>1 DEF InStep
      <3>3. reached'[m] = last_applied[m] + 1
        BY <1>1, <2>6, <3>2, NodeType DEF ApplyEntry, MaxOf
      <3>4. pc'[m] \in {"entry_dual", "mark"} /\ inst' = inst /\ last_applied' = last_applied
        BY <1>1, <2>6 DEF ApplyEntry, workVars
      <3> QED
        BY <3>1, <3>3, <3>4 DEF InStep, Given, Installing
    <2>7. ASSUME NEW s \in snaps, BeginInstall(m, s)
          PROVE  InStep(m)'
      <3>1. ~Installing(m) /\ reached[m] = last_applied[m] /\ pc[m] = "idle"
        BY <1>1, <2>7 DEF BeginInstall, Positions, InStep, Given
      <3>2. s.index \in Nat /\ s.seen = s.index /\ s.index > last_applied[m]
        BY <1>1, <2>7 DEF BeginInstall, Snapshot
      <3>3. reached'[m] = s.index /\ inst'[m] = s
        BY <1>1, <2>7, <3>1, <3>2, NodeType DEF BeginInstall, MaxOf
      <3>4. s.index > 0
        BY <1>1, <3>2, NodeType
      <3> QED
        BY <3>3, <3>4 DEF InStep, Installing
    <2>8. CASE ClearDual(m) \/ (\E k \in Keys : LoadPair(m, k)) \/ LoadDual(m)
      <3>1. pc[m] # "fatal" /\ Installing(m) /\ inst' = inst /\ reached' = reached
        BY <1>1, <2>8 DEF ClearDual, LoadPair, LoadDual, Positions, stateVars, workVars
      <3> QED
        BY <3>1 DEF InStep, Installing
    <2>9. CASE FinishInstall(m)
      <3>1. Installing(m) /\ reached[m] = inst[m].index
        BY <1>1, <2>9 DEF FinishInstall, Positions, InStep
      <3>2. /\ last_applied'[m] = inst[m].index /\ reached' = reached
            /\ pc'[m] = "idle" /\ inst'[m] = NoSnapshot
        BY <1>1, <2>9 DEF FinishInstall
      <3> QED
        BY <3>1, <3>2 DEF InStep, Installing, Given, NoSnapshot
    <2>10. ASSUME NEW n \in Nodes, Worker(n) \/ EngineFails(n)
           PROVE  InStep(m)'
      <3>1. CASE n # m
        BY <2>3, <2>10, <3>1
      <3>2. CASE n = m
        BY <2>2, <2>4, <2>5, <2>6, <2>7, <2>8, <2>9, <2>10, <3>2 DEF Worker
      <3> QED
        BY <3>1, <3>2
    <2> QED
      BY <1>2, <2>1, <2>2, <2>10 DEF Next
  <1> QED
    BY <1>3, <1>5, <1>6 DEF WalkInv

\* The abstract specification speaks of the same logs and tables.
LEMMA SameLog ==
  /\ Abstract!Entries = Entries /\ Abstract!ConfigEntry = ConfigEntry
  /\ Abstract!Contents = Contents /\ Abstract!Empty = Empty
  /\ \A lg, m, c : Abstract!ContentsAfter(lg, m, c) = ContentsAfter(lg, m, c)
  <1>1. Abstract!Requests = Requests /\ Abstract!BlankEntry = BlankEntry
        /\ Abstract!ConfigEntry = ConfigEntry
    BY DEF Abstract!Requests, Requests, Abstract!BlankEntry, BlankEntry, Abstract!ConfigEntry,
         ConfigEntry, Abstract!PutEntry, PutEntry, Abstract!DeleteEntry, DeleteEntry
  <1>2. Abstract!Entries = Entries
    BY <1>1 DEF Abstract!Entries, Entries
  <1>3. Abstract!Contents = Contents /\ Abstract!Empty = Empty
    BY DEF Abstract!Contents, Contents, Abstract!Empty, Empty
  <1>4. \A lg, m, c : Abstract!ContentsAfter(lg, m, c) = ContentsAfter(lg, m, c)
    BY DEF Abstract!ContentsAfter, ContentsAfter, Abstract!ValueAfter, ValueAfter
  <1> QED
    BY <1>1, <1>2, <1>3, <1>4

LEMMA ShownInit == Init => Abstract!Init
  <1> SUFFICES ASSUME Init
               PROVE  Abstract!Init
    OBVIOUS
  <1>1. Shown = [n \in Nodes |-> Empty]
    BY DEF Init, Shown, Installing, NoSnapshot
  <1>2. log = <<ConfigEntry>> /\ reached = [n \in Nodes |-> 0]
    BY DEF Init
  <1> QED
    BY <1>1, <1>2, SameLog DEF Abstract!Init, Shown

\* A committed entry, and a step that changes nothing of what is shown.
LEMMA CommitImplements ==
  ASSUME NEW e \in Entries, log' = Append(log, e), reached' = reached, Shown' = Shown
  PROVE  Abstract!Next
  BY SameLog DEF Abstract!Next, Abstract!Commit, Shown

LEMMA StutterImplements ==
  ASSUME log' = log, reached' = reached, Shown' = Shown
  PROVE  UNCHANGED Abstract!vars
  BY DEF Abstract!vars, Shown

LEMMA ShownSame ==
  ASSUME kvdb' = kvdb, inst' = inst
  PROVE  Shown' = Shown
  BY DEF Shown, Installing

\* The worker gives an entry to the primary engine.
LEMMA ApplyImplements ==
  ASSUME IInv, WalkInv, NEW n \in Nodes, ApplyEntry(n)
  PROVE  Abstract!Next
  <1>1. TypeOK /\ Positions(n)
    BY DEF IInv, NodeInv
  <1>2. ~Installing(n) /\ Given(n) = last_applied[n] /\ pc[n] = "entry"
    BY <1>1 DEF ApplyEntry, Positions, Given
  <1>3. reached[n] = last_applied[n]
    BY <1>2 DEF WalkInv, InStep
  <1> PICK i \in 1..Len(log) : i = last_applied[n] + 1
    <2>1. /\ last_applied[n] \in Nat /\ upto[n] \in Nat /\ upto[n] <= Len(log)
          /\ Len(log) \in Nat /\ last_applied[n] < upto[n]
      BY <1>1, <1>2, NodeType DEF Positions, TypeOK, Index
    <2> QED
      BY <2>1
  <1>4. /\ reached[n] < Len(log) /\ reached[n] + 1 = i
        /\ reached' = [reached EXCEPT ![n] = @ + 1]
    <2>1. reached' = [reached EXCEPT ![n] = MaxOf(@, i)]
      BY DEF ApplyEntry
    <2>2. reached[n] \in Nat /\ Len(log) \in Nat /\ reached[n] + 1 = i
      BY <1>1, <1>3, NodeType DEF TypeOK
    <2>3. MaxOf(reached[n], i) = reached[n] + 1
      BY <2>2 DEF MaxOf
    <2>4. reached[n] < Len(log)
      BY <2>2
    <2>5. reached' = [reached EXCEPT ![n] = @ + 1]
      BY <2>1, <2>3, Zenon
    <2> QED
      BY <2>2, <2>4, <2>5
  <1>5. /\ Shown' = IF log[i].key \in Keys
                    THEN [Shown EXCEPT ![n][log[i].key] = log[i].value] ELSE Shown
        /\ log' = log
    <2>1. inst' = inst /\ log' = log
      BY DEF ApplyEntry, logVars, workVars
    <2>2. CASE log[i].key \in Keys
      <3> DEFINE t == [kvdb[n] EXCEPT ![log[i].key] = log[i].value]
      <3>1. kvdb' = [kvdb EXCEPT ![n] = t]
        BY <2>2 DEF ApplyEntry
      <3>2. Shown[n] = kvdb[n]
        BY <1>2 DEF Shown
      <3> HIDE DEF t
      <3>3. Shown' = [Shown EXCEPT ![n] = t]
        BY <1>1, <1>2, <2>1, <3>1 DEF Shown, Installing, TypeOK
      <3> QED
        BY <2>1, <2>2, <3>2, <3>3 DEF t, Shown
    <2>3. CASE log[i].key \notin Keys
      BY <2>1, <2>3, ShownSame DEF ApplyEntry
    <2> QED
      BY <2>1, <2>2, <2>3
  <1>6. Abstract!ApplyNext(n)
    BY <1>4, <1>5 DEF Abstract!ApplyNext, Shown
  <1> QED
    BY <1>6 DEF Abstract!Next

\* The worker begins to install a snapshot: the table jumps to a later prefix.
LEMMA InstallImplements ==
  ASSUME IInv, WalkInv, NEW n \in Nodes, NEW s \in snaps, BeginInstall(n, s)
  PROVE  Abstract!Next
  <1>1. TypeOK /\ Positions(n) /\ SnapshotInv(s) /\ s.seen = s.index /\ InStep(n)
    BY DEF IInv, NodeInv, WalkInv
  <1>2. ~Installing(n) /\ reached[n] = last_applied[n] /\ pc[n] = "idle"
    BY <1>1 DEF BeginInstall, Positions, InStep, Given
  <1>3. /\ s.index \in Nat /\ s.data \in Contents /\ s.index <= Len(log)
        /\ s.index > reached[n] /\ reached[n] \in Nat
    BY <1>1, <1>2, NodeType DEF BeginInstall, TypeOK, Snapshot, SnapshotInv
  <1>4. s.index \in (reached[n] + 1)..Len(log)
    BY <1>1, <1>3 DEF TypeOK
  <1>5. ContentsAfter(log, s.index, s.data)
    <2>1. Between(s.index, s.index, s.data)
      BY <1>1 DEF SnapshotInv
    <2>2. \A m \in (s.index)..(s.index) : m = s.index
      BY <1>3
    <2> QED
      BY <2>1, <2>2 DEF Between, ContentsAfter
  <1>6. reached' = [reached EXCEPT ![n] = s.index]
    <2>1. reached' = [reached EXCEPT ![n] = MaxOf(@, s.seen)]
      BY DEF BeginInstall
    <2>2. MaxOf(reached[n], s.seen) = s.index
      BY <1>1, <1>3 DEF MaxOf
    <2> QED
      BY <2>1, <2>2
  <1>7. Shown' = [Shown EXCEPT ![n] = s.data]
    <2>1. inst' = [inst EXCEPT ![n] = s] /\ kvdb' = [kvdb EXCEPT ![n] = Cleared(@)]
      BY DEF BeginInstall
    <2>2. s.index > 0
      BY <1>3
    <2> QED
      BY <1>1, <2>1, <2>2 DEF Shown, Installing, TypeOK
  <1>8. log' = log
    BY DEF BeginInstall, logVars
  <1>9. Abstract!Jump(n)
    BY <1>3, <1>4, <1>5, <1>6, <1>7, <1>8, SameLog DEF Abstract!Jump, Shown
  <1> QED
    BY <1>9 DEF Abstract!Next

\* While the pairs are written back, and when the meta is adopted, it is the
\* snapshot's table all along.
LEMMA LoadStutters ==
  ASSUME IInv, NEW n \in Nodes,
         ClearDual(n) \/ (\E k \in Keys : LoadPair(n, k)) \/ LoadDual(n) \/ FinishInstall(n)
  PROVE  UNCHANGED Abstract!vars
  <1>1. TypeOK /\ TableInv(n) /\ Installing(n)
    BY DEF IInv, NodeInv, Positions, ClearDual, LoadPair, LoadDual, FinishInstall
  <1>2. log' = log /\ reached' = reached
    BY DEF ClearDual, LoadPair, LoadDual, FinishInstall, logVars, stateVars
  <1>3. CASE ClearDual(n) \/ LoadDual(n)
    BY <1>2, <1>3, ShownSame, StutterImplements DEF ClearDual, LoadDual, stateVars, workVars
  <1>4. CASE \E k \in Keys : LoadPair(n, k)
    <2>1. inst' = inst /\ \A m \in Nodes \ {n} : kvdb'[m] = kvdb[m]
      BY <1>1, <1>4 DEF LoadPair, TypeOK
    <2>2. Shown' = Shown
      BY <1>1, <2>1 DEF Shown, Installing
    <2> QED
      BY <1>2, <2>2, StutterImplements
  <1>5. CASE FinishInstall(n)
    <2>1. left[n] = {} /\ inst' = [inst EXCEPT ![n] = NoSnapshot] /\ kvdb' = kvdb
      BY <1>5 DEF FinishInstall
    <2>2. kvdb[n] \in Contents /\ inst[n].data \in Contents
      BY <1>1 DEF TypeOK, Snapshot
    <2>3. \A k \in Keys : kvdb[n][k] = inst[n].data[k]
      BY <1>1, <2>1 DEF TableInv
    <2>4. kvdb[n] = inst[n].data
      BY <2>2, <2>3 DEF Contents
    <2>5. ~Installing(n)' /\ \A m \in Nodes \ {n} : inst'[m] = inst[m]
      BY <1>1, <2>1 DEF Installing, NoSnapshot, TypeOK
    <2>6. Shown' = Shown
      BY <1>1, <2>1, <2>4, <2>5 DEF Shown, Installing
    <2> QED
      BY <1>2, <2>6, StutterImplements
  <1> QED
    BY <1>3, <1>4, <1>5

LEMMA StepImplements ==
  ASSUME MaxRestarts = 0, IInv, WalkInv, [Next]_vars
  PROVE  Abstract!Next \/ UNCHANGED Abstract!vars
  <1>1. Requests \subseteq Entries /\ BlankEntry \in Entries
    BY DEF Entries
  <1>2. ASSUME NEW e \in Requests, ClientWrite(e)
        PROVE  Abstract!Next
    BY <1>1, <1>2, ShownSame, CommitImplements DEF ClientWrite, stateVars, workVars
  <1>3. ASSUME NEW n \in Nodes, Elect(n)
        PROVE  Abstract!Next
    BY <1>1, <1>3, ShownSame, CommitImplements DEF Elect, stateVars, workVars
  <1>4. ASSUME NEW n \in Nodes,
               \/ Replicate(n) \/ BuildSnapshot(n) \/ Purge(n) \/ EngineFails(n)
               \/ GetCurrentSnapshot(n) \/ (\E t \in tasks[n] : RunTask(n, t))
               \/ BeginApply(n) \/ ApplyDual(n) \/ MarkApplied(n)
        PROVE  UNCHANGED Abstract!vars
    <2>1. log' = log /\ reached' = reached /\ kvdb' = kvdb /\ inst' = inst
      BY <1>4 DEF Replicate, BuildSnapshot, Purge, EngineFails, GetCurrentSnapshot, RunTask,
           BeginApply, ApplyDual, MarkApplied, logVars, stateVars, workVars
    <2> QED
      BY <2>1, ShownSame, StutterImplements
  <1>5. ASSUME NEW n \in Nodes, Worker(n)
        PROVE  Abstract!Next \/ UNCHANGED Abstract!vars
    BY <1>4, <1>5, ApplyImplements, InstallImplements, LoadStutters DEF Worker
  <1>6. \A n \in Nodes : ~Restart(n)
    BY DEF Restart, WalkInv
  <1>7. CASE UNCHANGED vars
    BY <1>7, ShownSame, StutterImplements DEF vars
  <1> QED
    BY <1>2, <1>3, <1>4, <1>5, <1>6, <1>7 DEF Next

\* WalksTheLog: as long as no process restarts, every node's table walks forward
\* through the states of the one log, an entry at a time (apply) or by a jump to
\* a later one (install_snapshot), and shows nothing else, whatever fails, is
\* delayed or delivered twice.
THEOREM Refinement == ASSUME MaxRestarts = 0 PROVE Spec => WalksTheLog
  <1>1. IInv /\ WalkInv /\ [Next]_vars => WalkInv'
    <2>1. CASE UNCHANGED vars
      BY <2>1 DEF vars, WalkInv, InStep, Installing, Given
    <2> QED
      BY <2>1, WalkStep
  <1>2. IInv /\ WalkInv /\ [Next]_vars => [Abstract!Next]_(Abstract!vars)
    BY StepImplements
  <1>3. Spec => [](IInv /\ WalkInv)
    BY <1>1, WalkInit, Invariant, PTL DEF Spec
  <1> QED
    BY <1>2, <1>3, ShownInit, PTL DEF Spec, WalksTheLog, Abstract!Spec

=============================================================================
