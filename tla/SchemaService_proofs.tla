------------------------ MODULE SchemaService_proofs ------------------------
(***************************************************************************)
(* Proofs about SchemaService for any schemas, tables, callers and mix of  *)
(* requests: what CREATE TABLE and DROP TABLE answered stays true, and no  *)
(* loaded engine is replaced by another one.                               *)
(***************************************************************************)
EXTENDS SchemaService, TLAPS

\* The variables the argument is about have their types.
CatalogTyped ==
  /\ tables \in [AllSchemas -> SUBSET AllTables]
  /\ dirs \subseteq AllSchemas /\ engines \subseteq dirs /\ Sys \in engines
  /\ \A s \in AllSchemas : tables[s] # {} => s \in dirs
  /\ registered \subseteq AllSchemas \X AllTables
  /\ acked \subseteq AllSchemas \X AllTables
  /\ gone \subseteq AllSchemas \X Tables
  /\ overtaken \subseteq AllSchemas \X AllTables
  /\ plain \subseteq AllSchemas /\ Sys \in plain

Request == [op: AllOps \cup {"none"}, schema: AllSchemas, table: AllTables,
            pc: Pcs, todo: SUBSET AllSchemas, holds: BOOLEAN]

Typed == CatalogTyped /\ task \in [Callers -> Request]

\* Where a task is agrees with what it does and owns.
TaskOK(c) ==
  /\ task[c].op = "drop_schema" => task[c].schema # Sys
  /\ task[c].pc = "idle" => task[c].op = "none" /\ ~task[c].holds
  /\ task[c].pc \in {"lookup", "open", "next"} => ~task[c].holds
  /\ task[c].pc \in {"insert", "engine", "asleep", "verify"} => task[c].holds
  /\ task[c].pc \in {"asleep", "verify"} => task[c].op = "create_table"
  /\ task[c].op = "refresh" => task[c].schema = Sys
  /\ task[c].pc = "next" => task[c].op = "sql_query"
  /\ task[c].pc = "catalog" /\ Ddl(task[c].op) => task[c].holds
  /\ task[c].pc = "catalog" /\ ~Ddl(task[c].op) => ~task[c].holds
  /\ task[c].holds => task[c].schema \in dirs

\* A task that has opened an engine is its only owner.
Exclusive ==
  \A c \in Callers : task[c].pc = "insert" =>
    /\ task[c].schema \notin engines
    /\ \A d \in Callers \ {c} :
         ~(task[d].holds /\ task[d].schema = task[c].schema)
    /\ \A t \in AllTables : <<task[c].schema, t>> \notin registered

\* Of two that hold or await a lock, one is behind the other.
InOrder(asks) ==
  \A a, b \in asks : a.task # b.task => a.task \in b.behind \/ b.task \in a.behind

Absent(asks, c) == \A r \in asks : r.task # c

Writer(asks, c) == \A r \in asks : r.task = c => r.mode = "W"

Holder(asks, c) == \E r \in asks : r.task = c /\ r.mode = "W" /\ r.behind = {}

\* A DROP has asked for its engine's lock in no way but for writing, and has
\* it until it ends.
WaitOK(c) ==
  LET drops == task[c].op = "drop_table"
  IN  /\ task[c].pc = "idle" \/ (drops /\ task[c].pc \in {"lookup", "open", "insert"})
           => \A l \in Locks : Absent(queue[l], c)
      /\ drops /\ task[c].pc = "engine" => Writer(queue[task[c].schema], c)
      /\ drops /\ task[c].pc = "catalog" => Holder(queue[task[c].schema], c)

QueueInv ==
  /\ queue \in [Locks -> SUBSET Ask]
  /\ \A l \in Locks : InOrder(queue[l])
  /\ \A c \in Callers : WaitOK(c)

\* What a statement has done to its engine is still there, unless a DROP has
\* overtaken a CREATE.
DdlOK(c) ==
  /\ task[c].op = "create_table" /\ task[c].pc \in {"asleep", "verify", "catalog"}
       => \/ task[c].table \in tables[task[c].schema]
          \/ <<task[c].schema, task[c].table>> \in overtaken
  /\ task[c].op = "drop_table" /\ task[c].pc = "catalog"
       => task[c].table \notin tables[task[c].schema]

DdlInv ==
  /\ \A c \in Callers : DdlOK(c)
  /\ AckedVisible /\ DroppedGone

Basic == Typed /\ \A c \in Callers : TaskOK(c)

IInv == Basic /\ Exclusive /\ QueueInv /\ DdlInv

USE DEF AllSchemas, AllTables, Ddl
-----------------------------------------------------------------------------
LEMMA IdleRequest == Idle \in Request
  BY SchemaAssumption DEF Idle, Request, Pcs

LEMMA SchemaSet ==
  ASSUME task \in [Callers -> Request], NEW c \in Callers, NEW s \in AllSchemas
  PROVE  [task EXCEPT ![c].pc = "lookup", ![c].schema = s] \in [Callers -> Request]
  BY DEF Request, Pcs

LEMMA TodoSet ==
  ASSUME task \in [Callers -> Request], NEW c \in Callers,
         NEW td \in SUBSET AllSchemas
  PROVE  [task EXCEPT ![c].pc = "next", ![c].holds = FALSE, ![c].todo = td]
           \in [Callers -> Request]
  <1> DEFINE r == [[[task[c] EXCEPT !.pc = "next"] EXCEPT !.holds = FALSE]
                     EXCEPT !.todo = td]
  <1>1. r \in Request
    BY DEF Request, Pcs
  <1>2. [task EXCEPT ![c].pc = "next", ![c].holds = FALSE, ![c].todo = td]
          = [task EXCEPT ![c] = r]
    OBVIOUS
  <1> QED
    BY <1>1, <1>2

\* A step leaves every record a request.
LEMMA TaskTyped ==
  ASSUME task \in [Callers -> Request], NEW c \in Callers,
         Start(c) \/ Step(c) \/ Cancel(c)
  PROVE  task' \in [Callers -> Request]
  <1> USE DEF Request, Pcs
  <1>0. Idle \in Request
    BY IdleRequest
  <1>1. CASE Start(c)
    BY <1>1, SchemaAssumption DEF Start, AllOps
  <1>2. CASE Cancel(c)
    BY <1>0, <1>2 DEF Cancel, Ended
  <1>3. CASE Lookup(c)
    BY <1>3 DEF Lookup, Found, To
  <1>4. CASE CheckSchema(c)
    BY <1>0, <1>4 DEF CheckSchema, Ended, To
  <1>5. CASE OpenEngine(c)
    BY <1>0, <1>5 DEF OpenEngine, Opens, CannotOpen, Ended
  <1>6. CASE InsertEngine(c)
    BY <1>6 DEF InsertEngine, Found
  <1>7. CASE DeclareSchema(c) \/ DropSchema(c)
    BY <1>0, <1>7 DEF DeclareSchema, DropSchema, Ended
  <1>8. CASE CreateInEngine(c)
    BY <1>0, <1>8 DEF CreateInEngine, Ended, To
  <1>9. CASE Wake(c) \/ Verify(c)
    BY <1>9 DEF Wake, Verify, To
  <1>10. CASE Register(c) \/ Deregister(c)
    BY <1>0, <1>10 DEF Register, Deregister, Ended
  <1>11. CASE DropInEngine(c)
    BY <1>11 DEF DropInEngine, To
  <1>12. CASE UseEngine(c) \/ SqlExecute(c) \/ RefreshList(c)
    BY <1>0, <1>12 DEF UseEngine, SqlExecute, RefreshList, Ended
  <1>13. CASE SqlBegin(c)
    BY <1>13 DEF SqlBegin, To
  <1>14. CASE SqlNextSchema(c)
    <2>1. PICK s \in task[c].todo :
            task' = [task EXCEPT ![c].pc = "lookup", ![c].schema = s]
      BY <1>14 DEF SqlNextSchema
    <2>2. s \in AllSchemas
      BY <2>1
    <2> HIDE DEF Request, Pcs
    <2> QED
      BY <2>1, <2>2, SchemaSet
  <1>15. CASE SqlListTables(c)
    <2>1. PICK td \in SUBSET AllSchemas : td = task[c].todo \ {task[c].schema}
      OBVIOUS
    <2>2. task' = [task EXCEPT ![c].pc = "next", ![c].holds = FALSE,
                               ![c].todo = td]
      BY <1>15, <2>1 DEF SqlListTables
    <2> HIDE DEF Request, Pcs
    <2> QED
      BY <2>2, TodoSet
  <1>16. CASE Refresh(c)
    BY <1>0, <1>16 DEF Refresh, Found, Ended
  <1> QED
    BY <1>1, <1>2, <1>3, <1>4, <1>5, <1>6, <1>7, <1>8, <1>9, <1>10, <1>11, <1>12, <1>13, <1>14, <1>15, <1>16 DEF Step

LEMMA InitInv == Init => IInv
  <1> SUFFICES ASSUME Init PROVE IInv
    OBVIOUS
  <1> USE SchemaAssumption DEF Init, Idle
  <1>1. Typed
    <2>1. CatalogTyped
      <3>1. tables \in [AllSchemas -> SUBSET AllTables]
        OBVIOUS
      <3>2. registered \subseteq AllSchemas \X AllTables
        OBVIOUS
      <3> QED
        BY <3>1, <3>2 DEF CatalogTyped
    <2>2. Idle \in Request
      BY IdleRequest
    <2> QED
      BY <2>1, <2>2 DEF Typed
  <1>2. \A c \in Callers : TaskOK(c)
    BY DEF TaskOK, AllOps
  <1>3. Exclusive
    BY DEF Exclusive
  <1>4. DdlInv
    BY DEF DdlInv, DdlOK, AckedVisible, DroppedGone
  <1>5. QueueInv
    BY DEF QueueInv, InOrder, WaitOK, Absent, Locks
  <1> QED
    BY <1>1, <1>2, <1>3, <1>4, <1>5 DEF IInv, Basic

\* A step of one task leaves the others' records alone.
LEMMA OthersKept ==
  ASSUME Typed, NEW c \in Callers, Start(c) \/ Step(c) \/ Cancel(c)
  PROVE  \A d \in Callers \ {c} : task'[d] = task[d]
  BY DEF Typed, Request, Start, Step, Cancel, Lookup, CheckSchema, OpenEngine, Opens,
         CannotOpen, InsertEngine, DeclareSchema, DropSchema, CreateInEngine,
         Wake, Verify, Register, DropInEngine, Deregister, UseEngine, SqlBegin,
         SqlNextSchema, SqlListTables, SqlExecute, Refresh, RefreshList,
         Found, Ended, To

LEMMA BasicStep ==
  ASSUME Basic, Next
  PROVE  Basic'
  <1> USE SchemaAssumption DEF Basic, catalog, history
  <1>1. CASE Restart
    BY <1>1 DEF Restart, Typed, CatalogTyped, TaskOK, Request, Idle, AllOps, Pcs
  <1>2. ASSUME NEW c \in Callers, Start(c) \/ Step(c) \/ Cancel(c)
        PROVE  Basic'
    <2> USE DEF Typed
    <2>0. \A d \in Callers \ {c} : task'[d] = task[d]
      BY <1>2, OthersKept
    <2>1. dirs \subseteq dirs' /\ CatalogTyped'
      <3> USE DEF CatalogTyped, TaskOK, Ended, Found, AllOps, Pcs, Request
      <3>1. CASE Start(c)
        BY <3>1 DEF Start
      <3>2. CASE Cancel(c)
        BY <3>2 DEF Cancel
      <3>3. CASE Lookup(c)
        BY <3>3 DEF Lookup
      <3>4. CASE CheckSchema(c)
        BY <3>4 DEF CheckSchema
      <3>5. CASE OpenEngine(c)
        BY <3>5 DEF OpenEngine, Opens, CannotOpen
      <3>6. CASE InsertEngine(c)
        BY <3>6 DEF InsertEngine
      <3>7. CASE DeclareSchema(c) \/ DropSchema(c)
        BY <3>7 DEF DeclareSchema, DropSchema
      <3>8. CASE CreateInEngine(c)
        BY <3>8 DEF CreateInEngine, Anew
      <3>9. CASE Wake(c) \/ Verify(c)
        BY <3>9 DEF Wake, Verify
      <3>10. CASE Register(c) \/ Deregister(c)
        BY <3>10 DEF Register, Registrations, Deregister, Answered
      <3>11. CASE DropInEngine(c)
        BY <3>11 DEF DropInEngine
      <3>12. CASE UseEngine(c) \/ RefreshList(c)
        BY <3>12 DEF UseEngine, RefreshList
      <3>15. CASE SqlExecute(c)
        BY <3>15 DEF SqlExecute, SqlDrops, SqlReplaces
      <3>13. CASE SqlBegin(c) \/ SqlNextSchema(c) \/ SqlListTables(c)
        BY <3>13 DEF SqlBegin, SqlNextSchema, SqlListTables
      <3>14. CASE Refresh(c)
        BY <3>14 DEF Refresh
      <3> QED
        BY <1>2, <3>1, <3>2, <3>3, <3>4, <3>5, <3>6, <3>7, <3>8, <3>9, <3>10, <3>11, <3>12, <3>13, <3>14, <3>15
           DEF Step
    <2>3. task' \in [Callers -> Request]
      BY <1>2, TaskTyped
    <2>4. TaskOK(c)'
      <3> USE DEF TaskOK, CatalogTyped, Request, Idle, To, Ended, Found
      <3>1. CASE Start(c)
        BY <3>1 DEF Start
      <3>2. CASE Cancel(c)
        BY <3>2 DEF Cancel
      <3>3. CASE Lookup(c)
        BY <3>3 DEF Lookup
      <3>4. CASE CheckSchema(c)
        BY <3>4 DEF CheckSchema
      <3>5. CASE OpenEngine(c)
        BY <3>5 DEF OpenEngine, Opens, CannotOpen
      <3>6. CASE InsertEngine(c)
        BY <3>6 DEF InsertEngine
      <3>7. CASE DeclareSchema(c) \/ DropSchema(c)
        BY <3>7 DEF DeclareSchema, DropSchema
      <3>8. CASE CreateInEngine(c)
        BY <3>8 DEF CreateInEngine
      <3>9. CASE Wake(c) \/ Verify(c)
        BY <3>9 DEF Wake, Verify
      <3>10. CASE Register(c) \/ Deregister(c)
        BY <3>10 DEF Register, Deregister
      <3>11. CASE DropInEngine(c)
        BY <3>11 DEF DropInEngine
      <3>12. CASE UseEngine(c) \/ SqlExecute(c) \/ RefreshList(c)
        BY <3>12 DEF UseEngine, SqlExecute, RefreshList
      <3>13. CASE SqlBegin(c) \/ SqlListTables(c)
        BY <3>13 DEF SqlBegin, SqlListTables
      <3>15. CASE SqlNextSchema(c)
        <4>1. PICK s \in task[c].todo :
                task' = [task EXCEPT ![c].pc = "lookup", ![c].schema = s]
          BY <3>15 DEF SqlNextSchema
        <4>2. task[c].pc = "next"
          BY <3>15 DEF SqlNextSchema
        <4>3. task'[c] = [task[c] EXCEPT !.pc = "lookup", !.schema = s]
          BY <4>1
        <4> QED
          BY <4>2, <4>3
      <3>14. CASE Refresh(c)
        BY <3>14 DEF Refresh
      <3> QED
        BY <1>2, <3>1, <3>2, <3>3, <3>4, <3>5, <3>6, <3>7, <3>8, <3>9, <3>10, <3>11, <3>12, <3>13, <3>14, <3>15
           DEF Step
    <2>2. \A d \in Callers \ {c} : TaskOK(d)'
      BY <2>0, <2>1 DEF TaskOK
    <2> QED
      BY <2>1, <2>2, <2>3, <2>4
  <1> QED
    BY <1>1, <1>2 DEF Next

-----------------------------------------------------------------------------
\* Steps that take no engine and load none cannot spoil Exclusive.
LEMMA ExclusiveStep ==
  ASSUME Basic, Exclusive, Next
  PROVE  Exclusive'
  <1>1. CASE Restart
    BY <1>1 DEF Restart, Exclusive, Idle
  <1>2. ASSUME NEW c \in Callers, Start(c) \/ Step(c) \/ Cancel(c)
        PROVE  Exclusive'
    <2> DEFINE Quiet == /\ task'[c].pc # "insert"
                        /\ task'[c].holds => /\ task[c].holds
                                            /\ task'[c].schema = task[c].schema
                        /\ engines' \subseteq engines
                        /\ registered' \subseteq registered
    <2>0. \A d \in Callers \ {c} : task'[d] = task[d]
      BY <1>2, OthersKept DEF Basic
    <2>1. ASSUME Quiet PROVE Exclusive'
      BY <2>0, <2>1 DEF Exclusive
    <2>2. TaskOK(c) /\ task \in [Callers -> Request] /\ Sys \in engines
      BY DEF Basic, Typed, CatalogTyped
    <2> HIDE DEF Quiet
    <2>3. CASE Lookup(c)
      <3>1. CASE task[c].schema \in engines
        <4>1. /\ task'[c].pc = "engine" /\ task'[c].schema = task[c].schema
              /\ UNCHANGED <<engines, registered>>
          BY <2>2, <2>3, <3>1 DEF Lookup, Found, catalog, Request
        <4> QED
          BY <2>0, <3>1, <4>1 DEF Exclusive
      <3>2. CASE task[c].schema \notin engines
        <4>1. Quiet
          BY <2>2, <2>3, <3>2 DEF Lookup, To, catalog, Request, Quiet
        <4> QED
          BY <2>1, <4>1
      <3> QED
        BY <3>1, <3>2
    <2>4. CASE OpenEngine(c)
      <3>1. CASE CanOpen(task[c].schema)
        <4>1. /\ task'[c].schema = task[c].schema
              /\ UNCHANGED <<engines, registered>>
          BY <2>2, <2>4, <3>1 DEF OpenEngine, Opens, Request
        <4>2. /\ task[c].schema \notin engines
              /\ \A d \in Callers :
                   ~(task[d].holds /\ task[d].schema = task[c].schema)
              /\ \A t \in AllTables : <<task[c].schema, t>> \notin registered
          BY <3>1 DEF CanOpen, Open
        <4>3. \A d \in Callers \ {c} : task[d].pc = "insert" =>
                task[d].schema # task[c].schema
          BY <4>2 DEF Basic, TaskOK
        <4> QED
          BY <2>0, <4>1, <4>2, <4>3 DEF Exclusive
      <3>2. CASE ~CanOpen(task[c].schema)
        <4>1. Quiet
          BY <2>2, <2>4, <3>2
             DEF OpenEngine, CannotOpen, Ended, Idle, catalog, Request, Quiet,
                 TaskOK
        <4> QED
          BY <2>1, <4>1
      <3> QED
        BY <3>1, <3>2
    <2>5. CASE InsertEngine(c)
      <3>1. /\ task'[c].pc # "insert" /\ task'[c].schema = task[c].schema
            /\ engines' = engines \cup {task[c].schema}
            /\ UNCHANGED registered
            /\ task[c].pc = "insert" /\ task[c].holds
        BY <2>2, <2>5 DEF InsertEngine, Found, Request, TaskOK
      <3>2. \A d \in Callers \ {c} : task[d].pc = "insert" =>
              task[d].schema # task[c].schema
        BY <3>1 DEF Exclusive
      <3> QED
        BY <2>0, <3>1, <3>2 DEF Exclusive
    <2>6. CASE Register(c)
      <3>1. /\ task'[c] = Idle /\ UNCHANGED engines /\ task[c].holds
            /\ registered' \subseteq registered \cup {<<task[c].schema, task[c].table>>}
        BY <2>2, <2>6 DEF Register, Registrations, Ended, TaskOK, Ddl
      <3>2. \A d \in Callers \ {c} : task[d].pc = "insert" =>
              task[d].schema # task[c].schema
        BY <3>1 DEF Exclusive
      <3> QED
        BY <2>0, <3>1, <3>2 DEF Exclusive, Idle
    <2>7. CASE Refresh(c)
      <3>1. /\ task'[c].pc # "insert" /\ UNCHANGED engines
            /\ \A st \in registered' : st \in registered \/ st[1] = Sys
            /\ task'[c].schema = Sys
        BY <2>2, <2>7 DEF Refresh, Found, Ended, Idle, TaskOK, Request
      <3>2. \A d \in Callers \ {c} : task[d].pc = "insert" =>
              task[d].schema # Sys
        BY <2>2 DEF Exclusive
      <3> QED
        BY <2>0, <3>1, <3>2 DEF Exclusive
    <2>8. ASSUME \/ Start(c) \/ Cancel(c) \/ CheckSchema(c) \/ DeclareSchema(c)
                 \/ DropSchema(c) \/ CreateInEngine(c) \/ Wake(c) \/ Verify(c)
                 \/ DropInEngine(c) \/ Deregister(c) \/ UseEngine(c)
                 \/ SqlBegin(c) \/ SqlNextSchema(c) \/ SqlListTables(c)
                 \/ SqlExecute(c) \/ RefreshList(c)
          PROVE  Exclusive'
      <3>1. Quiet
        <4> USE <2>2 DEF Quiet, Idle, catalog, Request, Ended, To, TaskOK
        <4>1. CASE Start(c) \/ Cancel(c)
          BY <4>1 DEF Start, Cancel
        <4>2. CASE CheckSchema(c) \/ DeclareSchema(c) \/ DropSchema(c)
          BY <4>2 DEF CheckSchema, DeclareSchema, DropSchema
        <4>3. CASE CreateInEngine(c) \/ Wake(c) \/ Verify(c)
          BY <4>3 DEF CreateInEngine, Wake, Verify
        <4>4. CASE DropInEngine(c) \/ Deregister(c) \/ UseEngine(c)
          BY <4>4 DEF DropInEngine, Deregister, UseEngine
        <4>5. CASE SqlBegin(c) \/ SqlListTables(c)
          BY <4>5 DEF SqlBegin, SqlListTables
        <4>6. CASE SqlNextSchema(c)
          BY <4>6 DEF SqlNextSchema
        <4>7. CASE SqlExecute(c) \/ RefreshList(c)
          BY <4>7 DEF SqlExecute, SqlDrops, SqlReplaces, RefreshList
        <4> QED
          BY <2>8, <4>1, <4>2, <4>3, <4>4, <4>5, <4>6, <4>7
      <3> QED
        BY <2>1, <3>1
    <2> QED
      BY <1>2, <2>3, <2>4, <2>5, <2>6, <2>7, <2>8 DEF Step
  <1> QED
    BY <1>1, <1>2 DEF Next

-----------------------------------------------------------------------------
\* What a step of another task does to a lock takes nothing from a holder or a
\* waiter but those it is behind.
LEMMA LockStep ==
  ASSUME NEW asks, asks \in SUBSET Ask, InOrder(asks), NEW c \in Callers,
         NEW new,
         \/ new = asks \/ new = Without(asks, c)
         \/ \E m \in {"R", "W"} : new = With(asks, c, m)
  PROVE  /\ new \in SUBSET Ask /\ InOrder(new)
         /\ \A d \in Callers \ {c} :
              /\ Absent(asks, d) => Absent(new, d)
              /\ Writer(asks, d) => Writer(new, d)
              /\ Holder(asks, d) => Holder(new, d)
  <1> USE DEF InOrder, Absent, Writer, Holder, Ask
  <1>1. CASE new = asks
    BY <1>1
  <1>2. CASE new = Without(asks, c)
    <2>1. new \in SUBSET Ask
      BY <1>2 DEF Without
    <2>2. \A r \in new : \E a \in asks :
            /\ a.task # c /\ r.task = a.task /\ r.mode = a.mode
            /\ r.behind = a.behind \ {c}
      BY <1>2 DEF Without
    <2>3. ASSUME NEW a \in asks, a.task # c
          PROVE  \E r \in new :
                   r.task = a.task /\ r.mode = a.mode /\ r.behind = a.behind \ {c}
      <3>1. [a EXCEPT !.behind = @ \ {c}] \in new
        BY <1>2, <2>3 DEF Without
      <3> QED
        BY <3>1, <2>3
    <2>4. InOrder(new)
      <3> SUFFICES ASSUME NEW r \in new, NEW q \in new, r.task # q.task
                   PROVE  r.task \in q.behind \/ q.task \in r.behind
        OBVIOUS
      <3>1. PICK a \in asks :
              a.task # c /\ r.task = a.task /\ r.behind = a.behind \ {c}
        BY <2>2
      <3>2. PICK b \in asks :
              b.task # c /\ q.task = b.task /\ q.behind = b.behind \ {c}
        BY <2>2
      <3> QED
        BY <3>1, <3>2
    <2>5. ASSUME NEW d \in Callers \ {c}
          PROVE  /\ Absent(asks, d) => Absent(new, d)
                 /\ Writer(asks, d) => Writer(new, d)
      BY <2>2
    <2>6. ASSUME NEW d \in Callers \ {c}, Holder(asks, d)
          PROVE  Holder(new, d)
      <3>1. PICK a \in asks : a.task = d /\ a.mode = "W" /\ a.behind = {}
        BY <2>6
      <3>2. PICK r \in new :
              r.task = a.task /\ r.mode = a.mode /\ r.behind = a.behind \ {c}
        BY <2>3, <3>1
      <3> QED
        BY <3>1, <3>2
    <2> HIDE DEF InOrder, Absent, Writer, Holder
    <2> QED
      BY <2>1, <2>4, <2>5, <2>6
  <1>3. ASSUME NEW m \in {"R", "W"}, new = With(asks, c, m)
        PROVE  /\ new \in SUBSET Ask /\ InOrder(new)
               /\ \A d \in Callers \ {c} :
                    /\ Absent(asks, d) => Absent(new, d)
                    /\ Writer(asks, d) => Writer(new, d)
                    /\ Holder(asks, d) => Holder(new, d)
    <2> DEFINE r == [task |-> c, mode |-> m, behind |-> {a.task : a \in asks}]
    <2>1. new = asks \cup {r} /\ r \in Ask /\ r.task = c
          /\ \A a \in asks : a.task \in r.behind
      BY <1>3 DEF With
    <2> HIDE DEF r
    <2> QED
      BY <2>1
  <1> QED
    BY <1>1, <1>2, <1>3

\* One step does one of these to each lock.
LEMMA LocksStep ==
  ASSUME Basic, queue \in [Locks -> SUBSET Ask], NEW c \in Callers,
         Start(c) \/ Step(c) \/ Cancel(c)
  PROVE  /\ DOMAIN queue' = Locks /\ queue' = [l \in Locks |-> queue'[l]]
         /\ \A l \in Locks :
              \/ queue'[l] = queue[l] \/ queue'[l] = Without(queue[l], c)
              \/ \E m \in {"R", "W"} : queue'[l] = With(queue[l], c, m)
  <1> DEFINE Goal == /\ DOMAIN queue' = Locks /\ queue' = [l \in Locks |-> queue'[l]]
                     /\ \A l \in Locks :
                          \/ queue'[l] = queue[l] \/ queue'[l] = Without(queue[l], c)
                          \/ \E m \in {"R", "W"} : queue'[l] = With(queue[l], c, m)
  <1>1. ASSUME queue' = queue PROVE Goal
    BY <1>1
  <1>2. ASSUME queue' = ReleasingAll(queue, c) PROVE Goal
    BY <1>2 DEF ReleasingAll
  <1>3. ASSUME NEW l, queue' = Releasing(queue, c, l) PROVE Goal
    BY <1>3 DEF Releasing
  <1>4. ASSUME NEW l, NEW m \in {"R", "W"}, queue' = Asking(queue, c, l, m) PROVE Goal
    BY <1>4 DEF Asking
  <1>5. \/ queue' = queue \/ queue' = ReleasingAll(queue, c)
        \/ \E l \in Locks : queue' = Releasing(queue, c, l)
        \/ \E l \in Locks, m \in {"R", "W"} : queue' = Asking(queue, c, l, m)
    <2> USE DEF Ended, Found, EngineMode, Locks
    <2>0. task[c].schema \in Locks /\ SqlLock \in Locks /\ Sys \in Locks
      BY DEF Basic, Typed, Request
    <2>1. CASE Start(c)
      BY <2>0, <2>1 DEF Start
    <2>2. CASE Cancel(c) \/ DeclareSchema(c) \/ DropSchema(c) \/ Register(c) \/ Deregister(c)
      BY <2>2 DEF Cancel, DeclareSchema, DropSchema, Register, Deregister
    <2>3. CASE UseEngine(c) \/ SqlExecute(c) \/ RefreshList(c)
      BY <2>3 DEF UseEngine, SqlExecute, RefreshList
    <2>4. CASE Lookup(c) \/ CheckSchema(c)
      BY <2>0, <2>4 DEF Lookup, CheckSchema
    <2>5. CASE OpenEngine(c)
      BY <2>0, <2>5 DEF OpenEngine, Opens, CannotOpen
    <2>6. CASE InsertEngine(c)
      BY <2>0, <2>6 DEF InsertEngine
    <2>7. CASE CreateInEngine(c)
      BY <2>0, <2>7 DEF CreateInEngine
    <2>8. CASE Wake(c) \/ Verify(c) \/ DropInEngine(c)
      BY <2>0, <2>8 DEF Wake, Verify, DropInEngine
    <2>9. CASE SqlBegin(c) \/ SqlNextSchema(c)
      BY <2>0, <2>9 DEF SqlBegin, SqlNextSchema
    <2>10. CASE SqlListTables(c)
      BY <2>0, <2>10 DEF SqlListTables
    <2>11. CASE Refresh(c)
      <3>1. queue' = ReleasingAll(queue, c) \/ Found(c)
        BY <2>11 DEF Refresh
      <3> QED
        BY <2>0, <3>1
    <2> QED
      BY <2>1, <2>2, <2>3, <2>4, <2>5, <2>6, <2>7, <2>8, <2>9, <2>10, <2>11 DEF Step
  <1> HIDE DEF Goal
  <1>6. Goal
    BY <1>1, <1>2, <1>3, <1>4, <1>5
  <1> QED
    BY <1>6 DEF Goal

\* A DROP comes to its engine with nothing asked for, asks for writing, and is
\* first when it goes on.
LEMMA QueueStep ==
  ASSUME Basic, QueueInv, Next
  PROVE  QueueInv'
  <1>1. CASE Restart
    BY <1>1 DEF Restart, QueueInv, InOrder, WaitOK, Absent, Idle, Locks
  <1>2. ASSUME NEW c \in Callers, Start(c) \/ Step(c) \/ Cancel(c)
        PROVE  QueueInv'
    <2>0. \A d \in Callers \ {c} : task'[d] = task[d]
      BY <1>2, OthersKept DEF Basic
    <2>1. /\ task \in [Callers -> Request] /\ TaskOK(c) /\ WaitOK(c)
          /\ queue \in [Locks -> SUBSET Ask]
          /\ \A l \in Locks : InOrder(queue[l])
          /\ \A d \in Callers : WaitOK(d) /\ task[d].schema \in Locks
      BY DEF Basic, Typed, QueueInv, Request, Locks
    <2>2. \A l \in Locks :
            /\ queue'[l] \in SUBSET Ask /\ InOrder(queue'[l])
            /\ \A d \in Callers \ {c} :
                 /\ Absent(queue[l], d) => Absent(queue'[l], d)
                 /\ Writer(queue[l], d) => Writer(queue'[l], d)
                 /\ Holder(queue[l], d) => Holder(queue'[l], d)
      BY <1>2, <2>1, LocksStep, LockStep
    <2>3. queue' \in [Locks -> SUBSET Ask]
      BY <1>2, <2>1, <2>2, LocksStep
    <2>4. \A d \in Callers \ {c} : WaitOK(d)'
      BY <2>0, <2>1, <2>2 DEF WaitOK
    <2>5. WaitOK(c)'
      <3>1. ASSUME task'[c] = Idle, queue' = ReleasingAll(queue, c)
            PROVE  WaitOK(c)'
        <4>1. /\ task'[c].op # "drop_table" /\ task'[c].pc = "idle"
              /\ \A l \in Locks : queue'[l] = Without(queue[l], c)
          BY <3>1 DEF ReleasingAll, Idle
        <4>2. ASSUME NEW l \in Locks
              PROVE  Absent(queue'[l], c)
          <5>1. queue[l] \in SUBSET Ask
            BY <2>1
          <5> QED
            BY ONLY <4>1, <5>1 DEF Without, Absent, Ask
        <4> QED
          BY ONLY <4>1, <4>2 DEF WaitOK
      <3>2. ASSUME task'[c].op # "drop_table", task'[c].pc # "idle"
            PROVE  WaitOK(c)'
        BY <3>2 DEF WaitOK
      <3> USE <2>1 DEF Request, TaskOK, Ended
      <3>3. CASE Start(c)
        <4>1. CASE task'[c].op = "drop_table"
          BY <3>3, <4>1 DEF Start, WaitOK
        <4>2. CASE task'[c].op # "drop_table"
          BY <3>2, <3>3, <4>2 DEF Start
        <4> QED
          BY <4>1, <4>2
      <3>4. CASE Cancel(c) \/ DeclareSchema(c) \/ DropSchema(c) \/ Register(c) \/ Deregister(c)
        BY <3>1, <3>4 DEF Cancel, DeclareSchema, DropSchema, Register, Deregister
      <3>5. CASE UseEngine(c) \/ SqlExecute(c) \/ RefreshList(c)
        BY <3>1, <3>5 DEF UseEngine, SqlExecute, RefreshList
      <3>6. CASE Found(c) /\ task[c].pc \in {"lookup", "insert"}
        <4>1. CASE task[c].op = "drop_table"
          <5>1. task'[c].op = "drop_table" /\ task'[c].pc = "engine"
                /\ task'[c].schema = task[c].schema
            BY <3>6, <4>1 DEF Found
          <5>2. Absent(queue[task[c].schema], c)
            BY <3>6, <4>1 DEF WaitOK
          <5>3. queue'[task[c].schema] = With(queue[task[c].schema], c, "W")
            BY <3>6, <4>1 DEF Found, Asking, EngineMode
          <5>4. Writer(queue'[task[c].schema], c)
            BY ONLY <5>2, <5>3 DEF Writer, Absent, With
          <5> QED
            BY ONLY <5>1, <5>4 DEF WaitOK
        <4>2. CASE task[c].op # "drop_table"
          BY <3>2, <3>6, <4>2 DEF Found
        <4> QED
          BY <4>1, <4>2
      <3>7. CASE Lookup(c)
        <4>1. CASE task[c].schema \in engines
          BY <3>6, <3>7, <4>1 DEF Lookup
        <4>2. CASE task[c].schema \notin engines
          BY <3>7, <4>2 DEF Lookup, To, WaitOK
        <4> QED
          BY <4>1, <4>2
      <3>8. CASE CheckSchema(c)
        <4>1. CASE task[c].schema \in engines
          BY <3>1, <3>8, <4>1 DEF CheckSchema
        <4>2. CASE task[c].schema \notin engines
          BY <3>2, <3>8, <4>2 DEF CheckSchema, To
        <4> QED
          BY <4>1, <4>2
      <3>9. CASE OpenEngine(c)
        <4>1. CASE CanOpen(task[c].schema)
          BY <3>9, <4>1 DEF OpenEngine, Opens, WaitOK
        <4>2. CASE ~CanOpen(task[c].schema)
          <5>1. CASE task[c].op = "sql_query"
            BY <3>2, <3>9, <4>2, <5>1 DEF OpenEngine, CannotOpen
          <5>2. CASE task[c].op # "sql_query"
            BY <3>1, <3>9, <4>2, <5>2 DEF OpenEngine, CannotOpen
          <5> QED
            BY <5>1, <5>2
        <4> QED
          BY <4>1, <4>2
      <3>10. CASE InsertEngine(c)
        <4>1. CASE task[c].op = "create_schema"
          BY <3>2, <3>10, <4>1 DEF InsertEngine
        <4>2. CASE task[c].op # "create_schema"
          BY <3>6, <3>10, <4>2 DEF InsertEngine
        <4> QED
          BY <4>1, <4>2
      <3>11. CASE CreateInEngine(c)
        <4>1. CASE task[c].table \in tables[task[c].schema]
          BY <3>1, <3>11, <4>1 DEF CreateInEngine
        <4>2. CASE task[c].table \notin tables[task[c].schema]
          BY <3>2, <3>11, <4>2 DEF CreateInEngine, To
        <4> QED
          BY <4>1, <4>2
      <3>12. CASE Wake(c) \/ Verify(c)
        BY <3>2, <3>12 DEF Wake, Verify, To
      <3>13. CASE DropInEngine(c)
        <4>1. /\ task'[c].op = "drop_table" /\ task'[c].pc = "catalog"
              /\ task'[c].schema = task[c].schema
              /\ Writer(queue[task[c].schema], c) /\ Granted(c, task[c].schema)
          BY <3>13 DEF DropInEngine, To, WaitOK
        <4>2. queue'[task[c].schema] = queue[task[c].schema]
          BY <3>13, SchemaAssumption DEF DropInEngine, Asking
        <4> QED
          BY <4>1, <4>2 DEF WaitOK, Writer, Holder, Granted
      <3>14. CASE SqlBegin(c) \/ SqlListTables(c)
        BY <3>2, <3>14 DEF SqlBegin, SqlListTables, To
      <3>15. CASE SqlNextSchema(c)
        BY <3>2, <3>15 DEF SqlNextSchema
      <3>16. CASE Refresh(c)
        <4>1. CASE Found(c)
          BY <3>2, <3>16, <4>1 DEF Refresh, Found
        <4>2. CASE Ended(c)
          BY <3>1, <4>2
        <4> QED
          BY <3>16, <4>1, <4>2 DEF Refresh
      <3> QED
        BY <1>2, <3>3, <3>4, <3>5, <3>7, <3>8, <3>9, <3>10, <3>11, <3>12, <3>13, <3>14, <3>15, <3>16 DEF Step
    <2> QED
      BY <2>2, <2>3, <2>4, <2>5 DEF QueueInv
  <1> QED
    BY <1>1, <1>2 DEF Next

\* While a DROP has the lock of its engine, nobody creates a table there.
LEMMA NoneBeside ==
  ASSUME QueueInv, NEW c \in Callers, NEW d \in Callers \ {c}, NEW l \in Locks,
         Holder(queue[l], c)
  PROVE  ~Granted(d, l)
  <1>1. PICK r \in queue[l] : r.task = c /\ r.mode = "W" /\ r.behind = {}
    BY DEF Holder
  <1>2. \A q \in queue[l] : q.task = d => c \in q.behind
    BY <1>1 DEF QueueInv, InOrder
  <1> QED
    BY <1>1, <1>2 DEF Granted

\* What the statements did and answered stays so.
LEMMA DdlStep ==
  ASSUME Basic, QueueInv, DdlInv, Next
  PROVE  DdlInv'
  <1>1. CASE Restart
    <2>1. /\ \A d \in Callers : DdlOK(d)'
          /\ UNCHANGED <<acked, gone, overtaken, plain>>
          /\ registered' = {st \in (dirs \cap plain) \X AllTables :
                              st[2] \in tables[st[1]] \cup {User}}
          /\ tables' = [s \in AllSchemas |->
                          IF s \in dirs THEN tables[s] \cup {User} ELSE tables[s]]
      BY <1>1 DEF Restart, DdlOK, Idle, history
    <2>2. AckedVisible'
      BY <2>1 DEF Basic, Typed, CatalogTyped, DdlInv, AckedVisible
    <2>3. ASSUME NEW st \in gone \ overtaken
          PROVE  /\ st[2] # User
                 /\ st[2] \notin tables[st[1]] /\ st \notin registered
      BY SchemaAssumption
         DEF Basic, Typed, CatalogTyped, DdlInv, DroppedGone
    <2>4. DroppedGone'
      BY <2>1, <2>3 DEF Basic, Typed, CatalogTyped, DroppedGone
    <2> QED
      BY <2>1, <2>2, <2>4 DEF DdlInv
  <1>2. ASSUME NEW c \in Callers, Start(c) \/ Step(c) \/ Cancel(c)
        PROVE  DdlInv'
    <2> DEFINE st == <<task[c].schema, task[c].table>>
    <2>0. \A d \in Callers \ {c} : task'[d] = task[d]
      BY <1>2, OthersKept DEF Basic
    <2>1. /\ TaskOK(c) /\ DdlOK(c) /\ task \in [Callers -> Request]
          /\ CatalogTyped /\ AckedVisible /\ DroppedGone
          /\ \A d \in Callers : DdlOK(d) /\ TaskOK(d)
          /\ st \in AllSchemas \X AllTables
          /\ UNCHANGED plain
      BY <1>2 DEF Basic, Typed, DdlInv, Request, Start, Cancel, Step, Lookup, CheckSchema,
         OpenEngine, InsertEngine, DeclareSchema, DropSchema, CreateInEngine, Wake,
         Verify, Register, DropInEngine, Deregister, UseEngine, SqlBegin,
         SqlNextSchema, SqlListTables, SqlExecute, Refresh, RefreshList
    <2> SUFFICES /\ \A d \in Callers : DdlOK(d)'
                 /\ AckedVisible' /\ DroppedGone'
      BY DEF DdlInv
    <2>2. ASSUME UNCHANGED <<tables, registered, acked, gone, overtaken>>, DdlOK(c)'
          PROVE  /\ \A d \in Callers : DdlOK(d)'
                 /\ AckedVisible' /\ DroppedGone'
      BY <2>0, <2>1, <2>2 DEF DdlOK, AckedVisible, DroppedGone
    <2>3. CASE OpenEngine(c)
      <3>1. /\ \/ tables' = [tables EXCEPT ![task[c].schema] = @ \cup {User}]
               \/ tables' = tables
            /\ UNCHANGED <<registered, acked, gone, overtaken>>
        BY <2>3 DEF OpenEngine, Opens, CannotOpen, catalog, history
      <3>2. DdlOK(c)'
        BY <2>1, <2>3 DEF OpenEngine, Opens, CannotOpen, Ended, DdlOK, Idle, Request
      <3>3. \A d \in Callers : task[d].op = "drop_table" /\ task[d].pc = "catalog"
              => tables'[task[d].schema] = tables[task[d].schema]
        <4>1. CASE CanOpen(task[c].schema)
          <5>1. \A d \in Callers : ~(task[d].holds /\ task[d].schema = task[c].schema)
            BY <4>1 DEF CanOpen, Open
          <5> QED
            BY <3>1, <5>1, <2>1 DEF TaskOK, CatalogTyped, Request
        <4>2. CASE ~CanOpen(task[c].schema)
          BY <2>3, <4>2 DEF OpenEngine, CannotOpen, catalog
        <4> QED
          BY <4>1, <4>2
      <3>6. \A d \in Callers : DdlOK(d)'
        BY <2>0, <2>1, <3>1, <3>2, <3>3
           DEF DdlOK, CatalogTyped, Request, Typed, Basic
      <3>4. AckedVisible'
        BY <2>1, <3>1 DEF AckedVisible, CatalogTyped
      <3>5. DroppedGone'
        BY <2>1, <3>1, SchemaAssumption DEF DroppedGone, CatalogTyped
      <3> QED
        BY <3>4, <3>5, <3>6
    <2>4. CASE CreateInEngine(c)
      <3>1. CASE task[c].table \in tables[task[c].schema]
        BY <2>1, <2>2, <2>4, <3>1 DEF CreateInEngine, Ended, Idle, DdlOK, history
      <3>2. CASE task[c].table \notin tables[task[c].schema]
        <4>1. /\ tables' = [tables EXCEPT ![task[c].schema] = @ \cup {task[c].table}]
              /\ gone' = gone \ {st} /\ acked' = acked \ {st}
              /\ overtaken' = overtaken \ {st} /\ UNCHANGED registered
              /\ task[c].op = "create_table" /\ Granted(c, task[c].schema)
              /\ task'[c] = [task[c] EXCEPT !.pc = "asleep"]
          BY <2>1, <2>4, <3>2 DEF CreateInEngine, To, Request, Anew
        <4>2. \A d \in Callers \ {c} :
                task[d].op = "drop_table" /\ task[d].pc = "catalog"
                  => task[d].schema # task[c].schema
          <5> SUFFICES ASSUME NEW d \in Callers \ {c},
                              task[d].op = "drop_table", task[d].pc = "catalog",
                              task[d].schema = task[c].schema
                       PROVE  FALSE
            OBVIOUS
          <5>1. Holder(queue[task[c].schema], d) /\ task[c].schema \in Locks
            BY <2>1 DEF QueueInv, WaitOK, Locks
          <5> QED
            BY <4>1, <5>1, NoneBeside
        <4>3. DdlOK(c)'
          BY <2>1, <4>1 DEF DdlOK, Request, CatalogTyped
        <4>4. \A d \in Callers \ {c} : DdlOK(d)'
          BY <2>0, <2>1, <4>1, <4>2 DEF DdlOK, Request, CatalogTyped
        <4>5. AckedVisible'
          BY <2>1, <4>1 DEF AckedVisible, CatalogTyped
        <4>6. DroppedGone'
          BY <2>1, <4>1 DEF DroppedGone, CatalogTyped
        <4> QED
          BY <4>3, <4>4, <4>5, <4>6
      <3> QED
        BY <3>1, <3>2
    <2>5. CASE Register(c)
      <3>1. /\ task'[c] = Idle /\ UNCHANGED <<tables, gone, overtaken>>
            /\ registered \subseteq registered'
            /\ registered' \subseteq registered \cup {st}
            /\ task[c].schema \in plain => st \in registered'
            /\ acked' = acked \cup {st}
            /\ task[c].table \in tables[task[c].schema] \/ st \in overtaken
        BY <2>1, <2>5 DEF Register, Registrations, Ended, DdlOK
      <3>2. \A d \in Callers : DdlOK(d)'
        BY <2>0, <2>1, <3>1 DEF DdlOK, Idle
      <3>3. AckedVisible'
        BY <2>1, <3>1 DEF AckedVisible
      <3>4. DroppedGone'
        BY <2>1, <3>1 DEF DroppedGone
      <3> QED
        BY <3>2, <3>3, <3>4
    <2>6. CASE DropInEngine(c)
      <3>1. /\ tables' = [tables EXCEPT ![task[c].schema] = @ \ {task[c].table}]
            /\ acked' = acked \ {st} /\ UNCHANGED <<registered, gone>>
            /\ overtaken' = IF Halfway(st) THEN overtaken \cup {st} ELSE overtaken
            /\ task[c].op = "drop_table"
            /\ task'[c] = [task[c] EXCEPT !.pc = "catalog"]
        BY <2>1, <2>6 DEF DropInEngine, To, Request
      <3>2. DdlOK(c)'
        BY <2>1, <3>1 DEF DdlOK, Request, CatalogTyped
      <3>3. ASSUME NEW d \in Callers \ {c}
            PROVE  DdlOK(d)'
        <4>1. CASE <<task[d].schema, task[d].table>> = st
          BY <2>0, <2>1, <3>1, <4>1 DEF DdlOK, Halfway, Request, CatalogTyped
        <4>2. CASE <<task[d].schema, task[d].table>> # st
          BY <2>0, <2>1, <3>1, <4>2 DEF DdlOK, Request, CatalogTyped
        <4> QED
          BY <4>1, <4>2
      <3>4. AckedVisible'
        BY <2>1, <3>1 DEF AckedVisible, CatalogTyped
      <3>5. DroppedGone'
        BY <2>1, <3>1 DEF DroppedGone, CatalogTyped
      <3> QED
        BY <3>2, <3>3, <3>4, <3>5
    <2>7. CASE Deregister(c)
      <3>1. /\ task'[c] = Idle /\ UNCHANGED <<tables, acked>>
            /\ registered' = registered \ {st}
            /\ gone' \subseteq gone \cup {st}
            /\ \/ overtaken' = overtaken
               \/ ~Halfway(st) /\ st \notin acked /\ overtaken' = overtaken \ {st}
            /\ task[c].table \notin tables[task[c].schema]
            /\ task[c].op = "drop_table"
        BY <2>1, <2>7 DEF Deregister, Answered, Ended, DdlOK
      <3>2. DdlOK(c)'
        BY <3>1 DEF DdlOK, Idle
      <3>3. ASSUME NEW d \in Callers \ {c}
            PROVE  DdlOK(d)'
        <4>1. CASE <<task[d].schema, task[d].table>> = st
          BY <2>0, <2>1, <3>1, <4>1 DEF DdlOK, Halfway
        <4>2. CASE <<task[d].schema, task[d].table>> # st
          BY <2>0, <2>1, <3>1, <4>2 DEF DdlOK
        <4> QED
          BY <4>1, <4>2
      <3>4. AckedVisible'
        <4>1. st \in acked => st \in overtaken
          BY <2>1, <3>1 DEF AckedVisible
        <4>2. ASSUME NEW e \in acked, e \notin overtaken'
              PROVE  e \notin overtaken /\ e # st
          BY <3>1, <4>1, <4>2
        <4> QED
          BY <2>1, <3>1, <4>2 DEF AckedVisible
      <3>5. DroppedGone'
        BY <2>1, <3>1 DEF DroppedGone
      <3> QED
        BY <3>2, <3>3, <3>4, <3>5
    <2>8. CASE Refresh(c)
      <3>1. /\ UNCHANGED <<tables, acked, gone, overtaken>> /\ registered \subseteq registered'
            /\ \A e \in registered' \ registered : e[2] \in tables[e[1]]
        BY <2>8 DEF Refresh, history
      <3>2. DdlOK(c)'
        BY <2>1, <2>8 DEF Refresh, Found, Ended, Idle, DdlOK, Request
      <3>3. \A d \in Callers : DdlOK(d)'
        BY <2>0, <2>1, <3>1, <3>2 DEF DdlOK
      <3>4. AckedVisible'
        BY <2>1, <3>1 DEF AckedVisible
      <3>5. DroppedGone'
        BY <2>1, <3>1 DEF DroppedGone
      <3> QED
        BY <3>3, <3>4, <3>5
    <2>10. CASE SqlExecute(c)
      <3>1. /\ UNCHANGED <<tables, overtaken>> /\ registered' \subseteq registered
            /\ acked' \subseteq acked /\ gone' \subseteq gone
            /\ \A e \in acked' : e \in registered => e \in registered'
            /\ task'[c] = Idle
        <4>1. task'[c] = Idle /\ tables' = tables
          BY <2>1, <2>10 DEF SqlExecute, Ended
        <4>2. CASE UNCHANGED <<registered, history>>
          BY <4>1, <4>2 DEF history
        <4>3. ASSUME NEW names, SqlDrops(names)
              PROVE  /\ overtaken' = overtaken /\ registered' \subseteq registered
                     /\ acked' \subseteq acked /\ gone' \subseteq gone
                     /\ \A e \in acked' : e \in registered => e \in registered'
          BY <4>3 DEF SqlDrops
        <4>4. ASSUME NEW one, SqlReplaces(one)
              PROVE  /\ overtaken' = overtaken /\ registered' \subseteq registered
                     /\ acked' \subseteq acked /\ gone' \subseteq gone
                     /\ \A e \in acked' : e \in registered => e \in registered'
          BY <4>4 DEF SqlReplaces
        <4> QED
          BY <2>10, <4>1, <4>2, <4>3, <4>4 DEF SqlExecute
      <3>2. \A d \in Callers : DdlOK(d)'
        BY <2>0, <2>1, <3>1 DEF DdlOK, Idle
      <3>3. AckedVisible'
        BY <2>1, <3>1 DEF AckedVisible
      <3>4. DroppedGone'
        BY <2>1, <3>1 DEF DroppedGone
      <3> QED
        BY <3>2, <3>3, <3>4
    <2>9. ASSUME \/ Start(c) \/ Cancel(c) \/ Lookup(c) \/ CheckSchema(c)
                 \/ InsertEngine(c) \/ DeclareSchema(c) \/ DropSchema(c)
                 \/ Wake(c) \/ Verify(c) \/ UseEngine(c) \/ SqlBegin(c)
                 \/ SqlNextSchema(c) \/ SqlListTables(c)
                 \/ RefreshList(c)
          PROVE  /\ \A d \in Callers : DdlOK(d)'
                 /\ AckedVisible' /\ DroppedGone'
      <3>1. UNCHANGED <<tables, registered, acked, gone, overtaken>>
        BY <2>9 DEF Start, Cancel, Lookup, CheckSchema, InsertEngine,
              DeclareSchema, DropSchema, Wake, Verify, UseEngine, SqlBegin,
              SqlNextSchema, SqlListTables, RefreshList, catalog,
              history
      <3>2. DdlOK(c)'
        <4> USE <2>1, <3>1 DEF DdlOK, TaskOK, Idle, Ended, To, Found, Request
        <4>1. CASE Start(c) \/ Cancel(c)
          BY <4>1 DEF Start, Cancel
        <4>2. CASE Lookup(c) \/ CheckSchema(c)
          BY <4>2 DEF Lookup, CheckSchema
        <4>3. CASE InsertEngine(c)
          BY <4>3 DEF InsertEngine
        <4>4. CASE DeclareSchema(c) \/ DropSchema(c)
          BY <4>4 DEF DeclareSchema, DropSchema
        <4>5. CASE Wake(c) \/ Verify(c) \/ UseEngine(c)
          BY <4>5 DEF Wake, Verify, UseEngine
        <4>6. CASE SqlBegin(c) \/ SqlListTables(c)
          BY <4>6 DEF SqlBegin, SqlListTables
        <4>7. CASE SqlNextSchema(c)
          BY <4>7 DEF SqlNextSchema
        <4>8. CASE RefreshList(c)
          BY <4>8 DEF RefreshList
        <4> QED
          BY <2>9, <4>1, <4>2, <4>3, <4>4, <4>5, <4>6, <4>7, <4>8
      <3> QED
        BY <2>2, <3>1, <3>2
    <2> QED
      BY <1>2, <2>3, <2>4, <2>5, <2>6, <2>7, <2>8, <2>9, <2>10 DEF Step
  <1> QED
    BY <1>1, <1>2 DEF Next

-----------------------------------------------------------------------------
\* The inductive invariant.
THEOREM SchemaInvariant == Spec => []IInv
  <1>1. IInv /\ [Next]_vars => IInv'
    <2> SUFFICES ASSUME IInv, [Next]_vars PROVE IInv'
      OBVIOUS
    <2>1. CASE Next
      BY <2>1, BasicStep, ExclusiveStep, QueueStep, DdlStep DEF IInv
    <2>2. CASE UNCHANGED vars
      <3>1. Basic' /\ Exclusive'
        BY <2>2 DEF vars, catalog, history, IInv, Basic, Typed, CatalogTyped,
           TaskOK, Exclusive
      <3>2. QueueInv' /\ DdlInv'
        BY <2>2 DEF vars, catalog, history, IInv, QueueInv, WaitOK, DdlInv, DdlOK,
           AckedVisible, DroppedGone
      <3> QED
        BY <3>1, <3>2 DEF IInv
    <2> QED
      BY <2>1, <2>2
  <1> QED
    BY <1>1, InitInv, PTL DEF Spec

\* What CREATE TABLE answered: until a DROP reaches the engine the table is
\* there, and until SQL text takes it out SQL sees it, if it reads the schema's
\* name as it is written; for any requests side by side, except that nothing is
\* said of a table dropped between the two halves of a CREATE (create_table
\* and drop_table in src/service/mod.rs).
THEOREM CreatedTablesVisible == Spec => []AckedVisible
  <1>1. IInv => AckedVisible
    BY DEF IInv, DdlInv
  <1> QED
    BY <1>1, SchemaInvariant, PTL

\* What DROP TABLE answered: no request that was under way brings the table
\* back, with the same exception.
THEOREM DroppedTablesGone == Spec => []DroppedGone
  <1>1. IInv => DroppedGone
    BY DEF IInv, DdlInv
  <1> QED
    BY <1>1, SchemaInvariant, PTL

\* The race of get_schema_engine and create_schema between the check of the
\* map and the insertion: RocksDB's lock on the directory decides it, so that
\* an insertion never replaces a loaded engine.
THEOREM EnginesNotReplaced == Spec => []NoEngineReplaced
  <1>1. IInv => NoEngineReplaced
    BY DEF IInv, Basic, TaskOK, Exclusive, NoEngineReplaced
  <1> QED
    BY <1>1, SchemaInvariant, PTL
=============================================================================
