----------------------------- MODULE Index_proofs -----------------------------
(***************************************************************************)
(* Proofs about the two indexes that requests read and write step by step: *)
(* EmbeddingIndex and EmbeddingReads for any ids, callers, requests, modes *)
(* and queries (the graph and RocksDB agree on every id nothing disturbs,  *)
(* and the reads tell what the requests answered), and Tags for any        *)
(* callers, tags, items and page size (a tag at rest is there and counted  *)
(* right, and a deletion nobody disturbed leaves nothing of the tag).      *)
(***************************************************************************)
EXTENDS EmbeddingReads, Tags, FiniteSetTheorems, FunctionTheorems, TLAPS

TaskRec == [op: AllOps, id: Vecs, step: Steps, seen: SUBSET Vecs,
            met: SUBSET Vecs, mixed: BOOLEAN]

Files == [meta: {"none", "empty", "whole"}, ids: SUBSET Vecs, nodes: SUBSET Vecs]

Typed ==
  /\ up \in BOOLEAN /\ stored \subseteq Vecs /\ graph \subseteq Vecs
  /\ torn \subseteq Vecs /\ task \in [Tasks -> TaskRec]
  /\ files \in Files
  /\ dirty \subseteq Vecs

\* Which steps a request has.
StepsOf(op) ==
  CASE op = "none" -> {"none"}
    [] op = "insert" -> {"stored", "node", "unfit"}
    [] op = "delete" -> {"stored", "node"}
    [] op = "entry_both" -> {"stored", "node"}
    [] op = "entry_stored" -> {"stored"}
    [] op = "entry_node" -> {"node"}
    [] op \in {"save", "quit"} -> {"meta", "ids", "create", "nodes"}
    [] op = "load" -> {"read", "load", "swap"}
    [] op = "rebuild" -> {"scan", "swap", "meta", "ids", "create", "nodes"}
    [] op = "boot" -> {"flag", "scan", "swap", "meta", "ids", "create", "nodes"}

Shape ==
  /\ \A t \in Tasks : task[t].step \in StepsOf(task[t].op)
  /\ ~up => \A t \in Tasks : task[t].op = "none"

\* Two tasks that change an id have met.
Meets ==
  \A t, u \in Tasks : t # u => Scope(task[t]) \cap Scope(task[u]) \subseteq task[t].met

\* What an undisturbed task has done so far still holds.
Halfway(k) ==
  /\ k.op = "insert" /\ k.step \in {"node", "unfit"} /\ k.id \notin k.met =>
       k.id \in stored
  /\ k.op = "insert" /\ k.step = "unfit" /\ k.id \notin k.met => k.id \in unfit
  /\ k.op = "delete" /\ k.step = "stored" /\ k.id \notin k.met => k.id \notin graph
  /\ k.op = "entry_both" /\ k.step = "node" /\ k.id \notin k.met => k.id \notin stored
  /\ k.op \in {"rebuild", "boot"} /\ k.step = "swap" =>
       \A i \in Vecs \ k.met : i \in k.seen <=> i \in stored \ unfit

OnIt(i) == \E t \in Tasks : task[t].op \in Single /\ task[t].id = i

Booting == task[Boot].op = "boot" /\ task[Boot].step \in {"flag", "scan", "swap"}

\* A request for the whole graph that ends early has not disturbed anything.
Agree ==
  up /\ ~Booting =>
    \A i \in Vecs \ torn : ~OnIt(i) => Matched(i)

IInv ==
  Typed /\ Shape /\ Meets /\ (\A t \in Tasks : Halfway(task[t])) /\ Agree

USE DEF disk
-----------------------------------------------------------------------------
LEMMA FreeTask ==
  /\ Free \in TaskRec /\ Free.op = "none" /\ Free.step = "none"
  /\ Free.met = {} /\ Scope(Free) = {} /\ Free.step \in StepsOf(Free.op)
  BY EmbeddingAssumption DEF Free, TaskRec, Scope, AllOps, Steps, Single, StepsOf

LEMMA InitInv == Init => IInv
  <1> SUFFICES ASSUME Init PROVE IInv
    OBVIOUS
  <1>1. \A t \in Tasks : task[t] = Free
    BY DEF Init
  <1>2. Typed
    BY FreeTask DEF Init, Typed, Files
  <1>3. Shape
    BY <1>1, FreeTask DEF Shape, StepsOf
  <1>4. Meets
    BY <1>1, FreeTask DEF Meets
  <1>5. \A t \in Tasks : Halfway(task[t])
    BY <1>1, FreeTask DEF Halfway
  <1>6. Agree
    BY DEF Init, Agree
  <1> QED
    BY <1>2, <1>3, <1>4, <1>5, <1>6 DEF IInv

\* One task moves on, keeping whom it met and changing no more ids than before.
LEMMA MeetsKept ==
  ASSUME Meets, NEW t \in Tasks,
         \A u \in Tasks \ {t} : task'[u] = task[u],
         Scope(task'[t]) \subseteq Scope(task[t]),
         Scope(task'[t]) = {} \/ task'[t].met = task[t].met
  PROVE  Meets'
  <1> SUFFICES ASSUME NEW a \in Tasks, NEW b \in Tasks, a # b,
                      NEW i \in Scope(task'[a]) \cap Scope(task'[b])
               PROVE  i \in task'[a].met
    BY DEF Meets
  <1>1. Scope(task'[a]) \subseteq Scope(task[a]) /\ Scope(task'[b]) \subseteq Scope(task[b])
    BY DEF Meets
  <1>2. i \in task[a].met
    BY <1>1 DEF Meets
  <1> QED
    BY <1>2

\* A task ends, having torn what it must.
LEMMA TaskEnds ==
  ASSUME IInv, NEW t \in Tasks, task' = [task EXCEPT ![t] = Free]
  PROVE  /\ task' \in [Tasks -> TaskRec] /\ Meets'
         /\ \A u \in Tasks : task'[u].step \in StepsOf(task'[u].op)
         /\ \A u \in Tasks : task[u].op = "none" => task'[u].op = "none"
         /\ \A u \in Tasks \ {t} : task'[u] = task[u]
         /\ task'[t] = Free
  <1>1. task'[t] = Free /\ \A u \in Tasks \ {t} : task'[u] = task[u]
    BY DEF IInv, Typed
  <1>2. Meets'
    BY <1>1, FreeTask, MeetsKept DEF IInv
  <1>3. task' \in [Tasks -> TaskRec]
    BY FreeTask DEF IInv, Typed
  <1>4. \A u \in Tasks : task'[u].step \in StepsOf(task'[u].op)
    BY <1>1, FreeTask DEF IInv, Shape
  <1> QED
    BY <1>1, <1>2, <1>3, <1>4, FreeTask

\* A task takes its next step.
Move(t, s, sn) ==
  /\ s \in Steps /\ s \in StepsOf(task[t].op) /\ task[t].op # "none"
  /\ \/ task[t].op \in Single
     \/ task[t].step \in {"flag", "scan", "swap", "read", "load"}
     \/ s \in {"meta", "ids", "create", "nodes"}
  /\ task' = [task EXCEPT ![t] = [task[t] EXCEPT !.step = s, !.seen = sn]]

LEMMA Moves ==
  ASSUME IInv, NEW t \in Tasks, NEW s, NEW sn \in SUBSET Vecs, Move(t, s, sn)
  PROVE  /\ task' \in [Tasks -> TaskRec] /\ Meets'
         /\ \A u \in Tasks : task'[u].step \in StepsOf(task'[u].op)
         /\ \A u \in Tasks : task'[u].op = task[u].op /\ task'[u].id = task[u].id
                               /\ task'[u].met = task[u].met
         /\ \A u \in Tasks \ {t} : task'[u] = task[u]
         /\ task'[t].step = s /\ task'[t].seen = sn
  <1>0. task[t] \in TaskRec /\ task \in [Tasks -> TaskRec]
    BY DEF IInv, Typed
  <1> DEFINE k == [task[t] EXCEPT !.step = s, !.seen = sn]
  <1>1. /\ k \in TaskRec /\ k.op = task[t].op /\ k.id = task[t].id
        /\ k.met = task[t].met /\ k.step = s /\ k.seen = sn
    BY <1>0 DEF TaskRec, Move
  <1> HIDE DEF k
  <1>2. task' = [task EXCEPT ![t] = k]
    BY DEF k, Move
  <1>3. task'[t] = k /\ \A u \in Tasks \ {t} : task'[u] = task[u]
    BY <1>0, <1>2
  <1>4. Scope(k) \subseteq Scope(task[t])
    BY <1>1 DEF Scope, Move
  <1>5. Meets'
    BY <1>1, <1>3, <1>4, MeetsKept DEF IInv
  <1>6. task' \in [Tasks -> TaskRec]
    BY <1>0, <1>1, <1>2
  <1>7. \A u \in Tasks : task'[u].step \in StepsOf(task'[u].op)
    BY <1>1, <1>3 DEF IInv, Shape, Move
  <1> QED
    BY <1>1, <1>3, <1>5, <1>6, <1>7

\* A task begins.
LEMMA Begins ==
  ASSUME IInv, NEW t \in Tasks, NEW k \in TaskRec, task[t].op = "none",
         k.met = {}, k.step \in StepsOf(k.op), task' = Joined(t, k)
  PROVE  /\ task' \in [Tasks -> TaskRec] /\ Meets'
         /\ \A u \in Tasks : task'[u].step \in StepsOf(task'[u].op)
         /\ \A u \in Tasks \ {t} :
              /\ task'[u].op = task[u].op /\ task'[u].id = task[u].id
              /\ task'[u].step = task[u].step /\ task'[u].seen = task[u].seen
              /\ task[u].met \subseteq task'[u].met
         /\ task'[t].op = k.op /\ task'[t].id = k.id /\ task'[t].step = k.step
  <1>0. task \in [Tasks -> TaskRec] /\ k \in TaskRec
    BY DEF IInv, Typed
  <1>1. \A x \in TaskRec : Scope(x) \subseteq Vecs
    BY DEF Scope, TaskRec
  <1> DEFINE ms == UNION {Scope(task[v]) \cap Scope(k) : v \in Tasks}
             mx == \E v \in Tasks : task[v].op \in Single /\ k.op \in Single
                                    /\ task[v].id = k.id
             mo(u) == task[u].met \cup (Scope(task[u]) \cap Scope(k))
             xo(u) == task[u].mixed \/ (/\ task[u].op \in Single /\ k.op \in Single
                                        /\ task[u].id = k.id)
  <1>2. task'[t] = [k EXCEPT !.met = ms, !.mixed = mx]
        /\ \A u \in Tasks \ {t} :
             task'[u] = [task[u] EXCEPT !.met = mo(u), !.mixed = xo(u)]
    BY Zenon DEF Joined
  <1>3. ms \in SUBSET Vecs /\ \A u \in Tasks : mo(u) \in SUBSET Vecs
    BY <1>0, <1>1 DEF TaskRec
  <1>4. mx \in BOOLEAN /\ \A u \in Tasks : xo(u) \in BOOLEAN
    BY Zenon
  <1>5. \A v \in Tasks : Scope(task[v]) \cap Scope(k) \subseteq ms
    OBVIOUS
  <1>6. \A u \in Tasks : task[u].met \subseteq mo(u)
                         /\ Scope(task[u]) \cap Scope(k) \subseteq mo(u)
    OBVIOUS
  <1> HIDE DEF ms, mx, mo, xo
  <1>7. /\ task'[t] \in TaskRec
        /\ task'[t].op = k.op /\ task'[t].id = k.id /\ task'[t].step = k.step
        /\ task'[t].met = ms
    BY <1>0, <1>2, <1>3, <1>4 DEF TaskRec
  <1>8. \A u \in Tasks \ {t} :
          /\ task'[u] \in TaskRec
          /\ task'[u].op = task[u].op /\ task'[u].id = task[u].id
          /\ task'[u].step = task[u].step /\ task'[u].seen = task[u].seen
          /\ task'[u].met = mo(u)
    <2> TAKE u \in Tasks \ {t}
    <2>1. task[u] \in TaskRec /\ mo(u) \in SUBSET Vecs /\ xo(u) \in BOOLEAN
      BY <1>0, <1>3, <1>4
    <2>2. task'[u] = [task[u] EXCEPT !.met = mo(u), !.mixed = xo(u)]
      BY <1>2
    <2> QED
      BY <2>1, <2>2 DEF TaskRec
  <1>9. Scope(task'[t]) = Scope(k) /\ \A u \in Tasks \ {t} : Scope(task'[u]) = Scope(task[u])
    BY <1>7, <1>8 DEF Scope
  <1>10. task' \in [Tasks -> TaskRec]
    <2>1. \A u \in Tasks : task'[u] \in TaskRec
      BY <1>7, <1>8
    <2>2. task' = [u \in Tasks |-> task'[u]]
      BY Zenon DEF Joined
    <2> QED
      BY <2>1, <2>2
  <1>11. Meets'
    <2> SUFFICES ASSUME NEW a \in Tasks, NEW b \in Tasks, a # b
                 PROVE  Scope(task'[a]) \cap Scope(task'[b]) \subseteq task'[a].met
      BY DEF Meets
    <2>1. CASE a = t
      BY <2>1, <1>5, <1>7, <1>9
    <2>2. CASE b = t
      BY <2>2, <1>6, <1>8, <1>9
    <2>3. CASE a # t /\ b # t
      BY <2>3, <1>6, <1>8, <1>9 DEF IInv, Meets
    <2> QED
      BY <2>1, <2>2, <2>3
  <1>12. \A u \in Tasks : task'[u].step \in StepsOf(task'[u].op)
    BY <1>7, <1>8 DEF IInv, Shape
  <1> QED
    BY <1>6, <1>7, <1>8, <1>10, <1>11, <1>12

Untouched(i) ==
  /\ i \in stored' <=> i \in stored
  /\ i \in unfit' <=> i \in unfit
  /\ i \in graph' <=> i \in graph

\* A request on one id leaves alone what undisturbed others have done.
LEMMA OthersKept ==
  ASSUME IInv, NEW t \in Tasks, task[t].op \in Single,
         \A i \in Vecs \ {task[t].id} :
           Untouched(i)
  PROVE  \A u \in Tasks \ {t} : task'[u] = task[u] => Halfway(task[u])'
  <1> TAKE u \in Tasks \ {t}
  <1>1. task[u] \in TaskRec /\ task[t] \in TaskRec
    BY DEF IInv, Typed
  <1>2. Halfway(task[u])
    BY DEF IInv
  <1>3. Scope(task[u]) \cap {task[t].id} \subseteq task[u].met
    BY DEF IInv, Meets, Scope
  <1>4. task[u].op \in Single /\ task[u].id \notin task[u].met => task[u].id # task[t].id
    BY <1>3 DEF Scope
  <1>5. task[u].op \in {"rebuild", "boot"} /\ task[u].step = "swap" =>
          task[t].id \in task[u].met
    BY <1>1, <1>3 DEF Scope, Single, TaskRec
  <1> QED
    BY <1>1, <1>2, <1>4, <1>5 DEF Halfway, Single, TaskRec, Untouched

\* A task that keeps its step keeps what it has done while RocksDB and the graph
\* stay as they are.
LEMMA StaysHalfway ==
  ASSUME IInv, NEW u \in Tasks, task[u].met \subseteq task'[u].met,
         task'[u].op = task[u].op, task'[u].id = task[u].id,
         task'[u].step = task[u].step, task'[u].seen = task[u].seen,
         stored' = stored, unfit' = unfit, graph' = graph
  PROVE  Halfway(task[u])'
  BY DEF IInv, Halfway

LEMMA NewTask ==
  ASSUME NEW op \in Single \cup Whole \cup {"boot"}, NEW i \in Vecs
  PROVE  LET k == New(op, i) IN
         /\ k \in TaskRec /\ k.op = op /\ k.id = i /\ k.met = {}
         /\ k.step = FirstStep(op) /\ k.step \in StepsOf(k.op)
  <1>1. FirstStep(op) \in Steps /\ FirstStep(op) \in StepsOf(op)
    BY DEF FirstStep, Steps, StepsOf, Single, Whole
  <1>2. op \in AllOps
    BY DEF AllOps
  <1> QED
    BY <1>1, <1>2, FreeTask DEF New, TaskRec

LEMMA OneStep ==
  ASSUME IInv, NEW t \in Tasks, NEW s, StepTo(t, s)
  PROVE  task' = [task EXCEPT ![t] = [task[t] EXCEPT !.step = s, !.seen = task[t].seen]]
  <1>1. task[t] \in TaskRec /\ task \in [Tasks -> TaskRec]
    BY DEF IInv, Typed
  <1>2. [task[t] EXCEPT !.step = s] = [task[t] EXCEPT !.step = s, !.seen = task[t].seen]
    BY <1>1 DEF TaskRec
  <1> QED
    BY <1>1, <1>2 DEF StepTo

LEMMA CallInv ==
  ASSUME IInv, NEW t \in Callers, NEW r \in Requests, Call(t, r[1], r[2])
  PROVE  IInv'
  <1> DEFINE op == r[1]  i == r[2]  k == New(op, i)
  <1>1. op \in Single \cup Whole /\ i \in Vecs /\ t \in Tasks /\ t # Boot
    BY EmbeddingAssumption DEF Requests, Tasks
  <1>2. /\ up /\ task[t].op = "none" /\ task' = Joined(t, k)
        /\ UNCHANGED <<up, stored, unfit, graph, dirty, files, torn>>
    BY DEF Call
  <1>3. /\ k \in TaskRec /\ k.op = op /\ k.id = i /\ k.met = {}
        /\ k.step = FirstStep(op) /\ k.step \in StepsOf(k.op)
    BY <1>1, NewTask
  <1>4. /\ task' \in [Tasks -> TaskRec] /\ Meets'
        /\ \A u \in Tasks : task'[u].step \in StepsOf(task'[u].op)
        /\ \A u \in Tasks \ {t} :
             /\ task'[u].op = task[u].op /\ task'[u].id = task[u].id
             /\ task'[u].step = task[u].step /\ task'[u].seen = task[u].seen
             /\ task[u].met \subseteq task'[u].met
        /\ task'[t].op = k.op /\ task'[t].id = k.id /\ task'[t].step = k.step
    BY <1>1, <1>2, <1>3, Begins
  <1> HIDE DEF op, i, k
  <1>5. Typed' /\ Shape'
    BY <1>2, <1>4 DEF IInv, Typed, Shape
  <1>6. \A u \in Tasks \ {t} : Halfway(task[u])'
    BY <1>2, <1>4, StaysHalfway
  <1>7. Halfway(task[t])'
    BY <1>1, <1>3, <1>4 DEF Halfway, FirstStep, Single, Whole
  <1>8. Agree'
    <2>1. ~Booting' => ~Booting
      BY <1>1, <1>4 DEF Booting, Tasks
    <2>2. \A j : OnIt(j) => OnIt(j)'
      BY <1>2, <1>4 DEF OnIt, Single
    <2> QED
      BY <1>2, <2>1, <2>2 DEF IInv, Agree, Matched
  <1> QED
    BY <1>4, <1>5, <1>6, <1>7, <1>8 DEF IInv

LEMMA StartInv ==
  ASSUME IInv, Start
  PROVE  IInv'
  <1>1. /\ ~up /\ up' = TRUE /\ dirty' = {} /\ UNCHANGED <<stored, files>>
        /\ \A u \in Tasks : task[u].op = "none"
    BY DEF Start, IInv, Shape
  <1>2. CASE graph' = Loaded /\ torn' = Vecs /\ UNCHANGED task
    <2>1. Typed'
      BY <1>1, <1>2 DEF IInv, Typed, Loaded, Files
    <2>2. Shape' /\ Meets'
      BY <1>1, <1>2 DEF IInv, Shape, Meets
    <2>3. \A u \in Tasks : Halfway(task[u])'
      BY <1>1, <1>2 DEF Halfway
    <2>4. Agree'
      BY <1>2 DEF Agree
    <2> QED
      BY <2>1, <2>2, <2>3, <2>4 DEF IInv
  <1>3. CASE graph' = {} /\ task' = Joined(Boot, New("boot", Free.id)) /\ torn' = torn
    <2> DEFINE k == New("boot", Free.id)
    <2>1. Boot \in Tasks /\ Free.id \in Vecs
      BY FreeTask DEF Tasks, TaskRec
    <2>2. /\ k \in TaskRec /\ k.op = "boot" /\ k.met = {}
          /\ k.step = "flag" /\ k.step \in StepsOf(k.op)
      <3>1. FirstStep("boot") = "flag"
        BY DEF FirstStep, Single, Whole
      <3> QED
        BY <2>1, <3>1, NewTask
    <2>3. /\ task' \in [Tasks -> TaskRec] /\ Meets'
          /\ \A u \in Tasks : task'[u].step \in StepsOf(task'[u].op)
          /\ \A u \in Tasks \ {Boot} : task'[u].op = task[u].op
          /\ task'[Boot].op = "boot" /\ task'[Boot].step = "flag"
      BY <1>1, <1>3, <2>1, <2>2, Begins
    <2>4. Typed' /\ Shape' /\ Agree'
      BY <1>1, <1>3, <2>3 DEF IInv, Typed, Shape, Agree, Booting
    <2>5. \A u \in Tasks : Halfway(task[u])'
      BY <1>1, <2>3 DEF Halfway
    <2> QED
      BY <2>3, <2>4, <2>5 DEF IInv
  <1> QED
    BY <1>2, <1>3 DEF Start

LEMMA StopInv ==
  ASSUME IInv, up' = FALSE, torn' \in SUBSET Vecs, task' = [u \in Tasks |-> Free],
         UNCHANGED <<stored, unfit, graph, dirty, files>>
  PROVE  IInv'
  <1>1. \A u \in Tasks : task'[u] = Free
    OBVIOUS
  <1>2. Typed'
    BY FreeTask DEF IInv, Typed
  <1>3. Shape' /\ Meets' /\ Agree'
    BY <1>1, FreeTask DEF Shape, Meets, Agree
  <1>4. \A u \in Tasks : Halfway(task[u])'
    BY <1>1, FreeTask DEF Halfway
  <1> QED
    BY <1>2, <1>3, <1>4 DEF IInv

\* A request is cut off.
LEMMA CutInv ==
  ASSUME IInv, NEW t \in Tasks, t # Boot \/ task[t].op # "boot",
         task' = [task EXCEPT ![t] = Free],
         torn' = IF task[t].op \in Single THEN torn \cup {task[t].id} ELSE torn,
         UNCHANGED <<up, stored, unfit, graph, dirty, files>>
  PROVE  IInv'
  <1>3. /\ task' \in [Tasks -> TaskRec] /\ Meets'
        /\ \A u \in Tasks : task'[u].step \in StepsOf(task'[u].op)
        /\ \A u \in Tasks : task[u].op = "none" => task'[u].op = "none"
        /\ \A u \in Tasks \ {t} : task'[u] = task[u]
        /\ task'[t] = Free
    BY TaskEnds
  <1>4. task[t] \in TaskRec
    BY DEF IInv, Typed
  <1>5. Typed' /\ Shape'
    BY <1>3, <1>4 DEF IInv, Typed, Shape, TaskRec
  <1>6. \A u \in Tasks : Halfway(task[u])'
    BY <1>3, FreeTask DEF IInv, Halfway
  <1>7. ~Booting' => ~Booting
    BY <1>3 DEF Booting, Tasks
  <1>8. \A j \in Vecs \ torn' : OnIt(j) => OnIt(j)'
    BY <1>3 DEF OnIt
  <1>9. torn \subseteq torn'
    OBVIOUS
  <1>10. Agree'
    BY <1>7, <1>8, <1>9 DEF IInv, Agree, Matched
  <1> QED
    BY <1>3, <1>5, <1>6, <1>10 DEF IInv

LEMMA CancelInv ==
  ASSUME IInv, NEW t \in Callers, Cancel(t)
  PROVE  IInv'
  <1>1. t \in Tasks /\ t # Boot
    BY EmbeddingAssumption DEF Tasks
  <1> QED
    BY <1>1, CutInv DEF Cancel

\* The two sides match on an id after the step.
Rematched(i) ==
  /\ i \in graph' => i \in stored'
  /\ i \in stored' \ unfit' => i \in graph'

\* A request on one id ends.
EndsTask(t) ==
  /\ task' = [task EXCEPT ![t] = Free]
  /\ torn' = IF task[t].op \in {"entry_stored", "entry_node"}
             THEN torn \cup {task[t].id}
             ELSE (torn \ {task[t].id}) \cup task[t].met

LEMMA AnsweredEnds ==
  ASSUME NEW t \in Tasks, Answered(t)
  PROVE  EndsTask(t)
  BY DEF Answered, EndsTask

LEMMA AnswerInv ==
  ASSUME IInv, NEW t \in Tasks, task[t].op \in Single, EndsTask(t), up' = up,
         files' = files, dirty' \subseteq Vecs,
         stored' \subseteq Vecs, graph' \subseteq Vecs,
         \A i \in Vecs \ {task[t].id} :
           Untouched(i),
         task[t].id \notin task[t].met /\ task[t].op \notin {"entry_stored", "entry_node"} =>
           Rematched(task[t].id)
  PROVE  IInv'
  <1>1. /\ task' = [task EXCEPT ![t] = Free]
        /\ torn' = IF task[t].op \in {"entry_stored", "entry_node"}
                   THEN torn \cup {task[t].id}
                   ELSE (torn \ {task[t].id}) \cup task[t].met
    BY DEF EndsTask
  <1>2. /\ task' \in [Tasks -> TaskRec] /\ Meets'
        /\ \A u \in Tasks : task'[u].step \in StepsOf(task'[u].op)
        /\ \A u \in Tasks : task[u].op = "none" => task'[u].op = "none"
        /\ \A u \in Tasks \ {t} : task'[u] = task[u]
        /\ task'[t] = Free
    BY <1>1, TaskEnds
  <1>3. task[t] \in TaskRec
    BY DEF IInv, Typed
  <1>4. Typed' /\ Shape'
    BY <1>1, <1>2, <1>3 DEF IInv, Typed, Shape, TaskRec
  <1>5. \A u \in Tasks \ {t} : Halfway(task[u])'
    BY <1>2, OthersKept
  <1>6. Halfway(task[t])'
    BY <1>2, FreeTask DEF Halfway
  <1>7. ~Booting' => ~Booting
    BY <1>2 DEF Booting, Single, Tasks
  <1>8. \A j \in Vecs \ {task[t].id} : OnIt(j) => OnIt(j)'
    BY <1>2 DEF OnIt
  <1>9. \A j \in Vecs \ torn' : j = task[t].id \/ j \notin torn
    BY <1>1
  <1>10. task[t].id \notin torn' =>
           task[t].id \notin task[t].met /\ task[t].op \notin {"entry_stored", "entry_node"}
    BY <1>1
  <1>11. \A j \in Vecs \ {task[t].id} : Matched(j) => Matched(j)'
    BY DEF Matched, Untouched
  <1>12. Rematched(task[t].id) => \A j : j = task[t].id => Matched(j)'
    BY DEF Matched, Rematched
  <1>13. Agree'
    <2> SUFFICES ASSUME up', ~Booting', NEW j \in Vecs \ torn', ~OnIt(j)'
                 PROVE  Matched(j)'
      BY DEF Agree
    <2>1. CASE j = task[t].id
      BY <1>10, <1>12, <2>1
    <2>2. CASE j # task[t].id
      <3>1. j \notin torn /\ ~OnIt(j) /\ ~Booting /\ up
        BY <1>7, <1>8, <1>9, <2>2
      <3> QED
        BY <1>11, <2>2, <3>1 DEF IInv, Agree
    <2> QED
      BY <2>1, <2>2
  <1> QED
    BY <1>2, <1>4, <1>5, <1>6, <1>13 DEF IInv

\* A task moves on without touching what the properties speak of.
LEMMA MoveInv ==
  ASSUME IInv, NEW t \in Tasks, NEW s, NEW sn \in SUBSET Vecs, Move(t, s, sn),
         \/ task[t].op # "boot"
         \/ s \in {"scan", "swap"}
         \/ task[t].step \notin {"flag", "scan", "swap"},
         Halfway(task[t])',
         files' \in Files, dirty' \subseteq Vecs,
         UNCHANGED <<up, torn>>, stored' \subseteq Vecs, graph' \subseteq Vecs,
         \/ UNCHANGED <<stored, unfit, graph>>
         \/ /\ task[t].op \in Single
            /\ \A i \in Vecs \ {task[t].id} :
                 Untouched(i)
  PROVE  IInv'
  <1>1. /\ task' \in [Tasks -> TaskRec] /\ Meets'
        /\ \A u \in Tasks : task'[u].step \in StepsOf(task'[u].op)
        /\ \A u \in Tasks : task'[u].op = task[u].op /\ task'[u].id = task[u].id
                              /\ task'[u].met = task[u].met
        /\ \A u \in Tasks \ {t} : task'[u] = task[u]
        /\ task'[t].step = s /\ task'[t].seen = sn
    BY Moves
  <1>2. Typed' /\ Shape'
    BY <1>1 DEF IInv, Typed, Shape, Move
  <1>3. \A u \in Tasks \ {t} : Halfway(task[u])'
    BY <1>1, OthersKept DEF IInv, Halfway
  <1>4. ~Booting' => ~Booting
    BY <1>1 DEF Booting, Tasks, Move
  <1>5. \A j : OnIt(j) <=> OnIt(j)'
    BY <1>1 DEF OnIt
  <1>6. task[t].op \in Single => OnIt(task[t].id)
    BY DEF OnIt
  <1>7. Agree'
    BY <1>4, <1>5, <1>6 DEF IInv, Agree, Matched, Untouched
  <1> QED
    BY <1>1, <1>2, <1>3, <1>7 DEF IInv

-----------------------------------------------------------------------------
LEMMA SingleInv ==
  ASSUME IInv, NEW t \in Tasks,
         \/ PutStored(t) \/ InsertNode(t) \/ RefuseNode(t)
         \/ RemoveNode(t) \/ DeleteStored(t) \/ StorageFails(t)
  PROVE  IInv'
  <1>0. /\ task[t] \in TaskRec /\ task \in [Tasks -> TaskRec]
        /\ stored \subseteq Vecs /\ graph \subseteq Vecs /\ dirty \subseteq Vecs
        /\ files \in Files
        /\ task[t].id \in Vecs /\ task[t].seen \in SUBSET Vecs
        /\ Halfway(task[t])
    BY DEF IInv, Typed, TaskRec
  <1>1. CASE PutStored(t)
    <2>1. PICK s \in {"node", "unfit"} :
            /\ unfit' = IF s = "node" THEN unfit \ {task[t].id}
                        ELSE unfit \cup {task[t].id}
            /\ StepTo(t, s)
      BY <1>1 DEF PutStored
    <2>2. /\ task[t].op = "insert" /\ stored' = stored \cup {task[t].id}
          /\ UNCHANGED <<up, graph, dirty, files, torn>>
      BY <1>1 DEF PutStored
    <2>3. Move(t, s, task[t].seen)
      BY <1>0, <2>1, <2>2, OneStep DEF Move, Steps, StepsOf, Single
    <2>4. Halfway(task[t])'
      <3>1. /\ task'[t].op = "insert" /\ task'[t].id = task[t].id
            /\ task'[t].step = s
        BY <1>0, <2>1, <2>2, <2>3, Moves
      <3> QED
        BY <2>1, <2>2, <3>1 DEF Halfway
    <2>5. \A i \in Vecs \ {task[t].id} : Untouched(i)
      BY <2>1, <2>2 DEF Untouched
    <2>6. s \notin {"scan", "swap"} /\ task[t].op \in Single /\ task[t].op # "boot"
      BY <2>2 DEF Single
    <2>7. stored' \subseteq Vecs /\ graph' \subseteq Vecs /\ dirty' \subseteq Vecs
      BY <1>0, <2>2
    <2> QED
      BY <1>0, <2>2, <2>3, <2>4, <2>5, <2>6, <2>7, MoveInv
  <1>2. CASE InsertNode(t)
    <2>1. /\ task[t].op = "insert" /\ task[t].step \in {"node", "unfit"} /\ EndsTask(t)
          /\ graph' = graph \cup {task[t].id} /\ dirty' \subseteq Vecs
          /\ UNCHANGED <<up, stored, unfit, files>>
      BY <1>0, <1>2, AnsweredEnds DEF InsertNode
    <2>2. task[t].id \notin task[t].met => Rematched(task[t].id)
      BY <1>0, <2>1 DEF Halfway, Rematched
    <2> QED
      BY <1>0, <2>1, <2>2, AnswerInv DEF Single, Untouched
  <1>7. CASE RefuseNode(t)
    <2>1. /\ task[t].op = "insert" /\ EndsTask(t)
          /\ task[t].step = "unfit" \/ (task[t].step = "node" /\ task[t].id \in graph)
          /\ UNCHANGED <<up, stored, unfit, graph, dirty, files>>
      BY <1>7 DEF RefuseNode, EndsTask
    <2>2. task[t].id \notin task[t].met => Rematched(task[t].id)
      BY <1>0, <2>1 DEF Halfway, Rematched
    <2> QED
      BY <1>0, <2>1, <2>2, AnswerInv DEF Single, Untouched
  <1>8. CASE StorageFails(t)
    <2>1. task[t].op \in Single /\ task[t].op # "boot"
      BY <1>8 DEF StorageFails, Single
    <2> QED
      BY <1>8, <2>1, CutInv DEF StorageFails
  <1>3. CASE RemoveNode(t) /\ task[t].op = "delete"
    <2>1. /\ task[t].op = "delete" /\ graph' = graph \ {task[t].id}
          /\ StepTo(t, "stored") /\ dirty' \subseteq Vecs
          /\ UNCHANGED <<up, stored, unfit, files, torn>>
      BY <1>0, <1>3 DEF RemoveNode
    <2>2. Move(t, "stored", task[t].seen)
      BY <1>0, <2>1, OneStep DEF Move, Steps, StepsOf, Single
    <2>3. Halfway(task[t])'
      <3>1. task'[t].op = "delete" /\ task'[t].id = task[t].id
        BY <1>0, <2>1, <2>2, Moves
      <3> QED
        BY <2>1, <3>1 DEF Halfway
    <2> QED
      BY <1>0, <2>1, <2>2, <2>3, MoveInv DEF Single, Untouched
  <1>4. CASE RemoveNode(t) /\ task[t].op # "delete"
    <2>1. /\ task[t].op \in {"entry_node", "entry_both"} /\ task[t].step = "node"
          /\ graph' = graph \ {task[t].id} /\ EndsTask(t) /\ dirty' \subseteq Vecs
          /\ UNCHANGED <<up, stored, unfit, files>>
      BY <1>0, <1>4, AnsweredEnds DEF RemoveNode
    <2>2. task[t].id \notin task[t].met /\ task[t].op = "entry_both" =>
            task[t].id \notin stored
      BY <1>0, <2>1 DEF Halfway
    <2> QED
      BY <1>0, <2>1, <2>2, AnswerInv DEF Single, Rematched, Untouched
  <1>5. CASE DeleteStored(t) /\ task[t].op = "entry_both"
    <2>1. /\ task[t].op = "entry_both" /\ stored' = stored \ {task[t].id}
          /\ unfit' = unfit \ {task[t].id} /\ StepTo(t, "node") /\ UNCHANGED <<up, graph, dirty, files, torn>>
      BY <1>5 DEF DeleteStored
    <2>2. Move(t, "node", task[t].seen)
      BY <1>0, <2>1, OneStep DEF Move, Steps, StepsOf, Single
    <2>3. Halfway(task[t])'
      <3>1. task'[t].op = "entry_both" /\ task'[t].id = task[t].id
        BY <1>0, <2>1, <2>2, Moves
      <3> QED
        BY <2>1, <3>1 DEF Halfway
    <2> QED
      BY <1>0, <2>1, <2>2, <2>3, MoveInv DEF Single, Untouched
  <1>6. CASE DeleteStored(t) /\ task[t].op # "entry_both"
    <2>1. /\ task[t].op \in {"delete", "entry_stored"} /\ task[t].step = "stored"
          /\ stored' = stored \ {task[t].id} /\ unfit' = unfit \ {task[t].id}
          /\ EndsTask(t) /\ UNCHANGED <<up, graph, dirty, files>>
      BY <1>6, AnsweredEnds DEF DeleteStored
    <2>2. task[t].id \notin task[t].met /\ task[t].op = "delete" =>
            task[t].id \notin graph
      BY <1>0, <2>1 DEF Halfway
    <2> QED
      BY <1>0, <2>1, <2>2, AnswerInv DEF Single, Rematched, Untouched
  <1> QED
    BY <1>1, <1>2, <1>3, <1>4, <1>5, <1>6, <1>7, <1>8

\* A task that changes no single id ends without having touched the two sides.
LEMMA EndInv ==
  ASSUME IInv, NEW t \in Tasks, task' = [task EXCEPT ![t] = Free],
         task[t].op \notin Single \cup {"boot"},
         UNCHANGED <<up, stored, unfit, graph, dirty, files, torn>>
  PROVE  IInv'
  <1>1. /\ task' \in [Tasks -> TaskRec] /\ Meets'
        /\ \A u \in Tasks : task'[u].step \in StepsOf(task'[u].op)
        /\ \A u \in Tasks : task[u].op = "none" => task'[u].op = "none"
        /\ \A u \in Tasks \ {t} : task'[u] = task[u]
        /\ task'[t] = Free
    BY TaskEnds
  <1>2. Typed' /\ Shape'
    BY <1>1 DEF IInv, Typed, Shape
  <1>3. \A u \in Tasks : Halfway(task[u])'
    BY <1>1, FreeTask DEF IInv, Halfway
  <1>4. ~Booting' => ~Booting
    BY <1>1 DEF Booting, Tasks
  <1>5. \A j : OnIt(j) => OnIt(j)'
    BY <1>1 DEF OnIt
  <1>6. Agree'
    BY <1>4, <1>5 DEF IInv, Agree, Matched
  <1> QED
    BY <1>1, <1>2, <1>3, <1>6 DEF IInv

\* Saving and reading move on without touching the two sides.
LEMMA AsideInv ==
  ASSUME IInv, NEW t \in Tasks, NEW s, NEW sn \in SUBSET Vecs, Move(t, s, sn),
         \/ s \in {"meta", "ids", "create", "nodes", "load"}
            /\ task[t].step \notin {"flag", "scan", "swap"}
         \/ s = "scan"
         \/ s = "swap" /\ task[t].op = "load"
         \/ s = "swap" /\ sn = stored \ unfit,
         task[t].op \notin Single,
         files' \in Files, dirty' \subseteq Vecs,
         UNCHANGED <<up, torn, stored, unfit, graph>>
  PROVE  IInv'
  <1>1. task'[t].step = s /\ task'[t].seen = sn /\ task'[t].op = task[t].op
    BY Moves
  <1>2. Halfway(task[t])'
    BY <1>1 DEF Halfway, Single
  <1>3. stored' \subseteq Vecs /\ graph' \subseteq Vecs
    BY DEF IInv, Typed
  <1> QED
    BY <1>2, <1>3, MoveInv

LEMMA SaveInv ==
  ASSUME IInv, NEW t \in Tasks,
         SaveMeta(t) \/ SaveIds(t) \/ CreateNodesFile(t) \/ SaveNode(t)
  PROVE  IInv'
  <1>0. /\ task[t] \in TaskRec /\ task \in [Tasks -> TaskRec]
        /\ graph \subseteq Vecs /\ dirty \subseteq Vecs /\ files \in Files
        /\ task[t].seen \in SUBSET Vecs
    BY DEF IInv, Typed, TaskRec
  <1>1. task[t].step \in {"meta", "ids", "create", "nodes"}
    BY DEF SaveMeta, SaveIds, CreateNodesFile, SaveNode
  <1>2. /\ task[t].op \in {"save", "quit", "rebuild", "boot"}
        /\ {"meta", "ids", "create", "nodes"} \subseteq StepsOf(task[t].op)
    BY <1>0, <1>1 DEF IInv, Shape, StepsOf, TaskRec, AllOps, Single, Whole
  <1>3. /\ files' \in Files /\ dirty' \subseteq Vecs
        /\ UNCHANGED <<up, torn, stored, unfit, graph>>
    <2>1. CASE SaveMeta(t)
      BY <1>0, <2>1 DEF SaveMeta, Files
    <2>2. CASE SaveIds(t)
      BY <1>0, <2>2 DEF SaveIds, Files
    <2>3. CASE CreateNodesFile(t)
      BY <1>0, <2>3 DEF CreateNodesFile, Files
    <2>4. CASE SaveNode(t)
      BY <1>0, <2>4 DEF SaveNode, Files
    <2> QED
      BY <2>1, <2>2, <2>3, <2>4
  <1>4. \E s \in {"ids", "create", "nodes"}, sn \in SUBSET Vecs :
          task' = [task EXCEPT ![t] = [task[t] EXCEPT !.step = s, !.seen = sn]]
    <2>1. CASE SaveMeta(t)
      BY <1>0, <2>1, OneStep DEF SaveMeta
    <2>2. CASE SaveIds(t)
      BY <1>0, <2>2, OneStep DEF SaveIds
    <2>3. CASE CreateNodesFile(t)
      BY <1>0, <2>3 DEF CreateNodesFile, Files
    <2>4. CASE SaveNode(t)
      <3>1. PICK i \in task[t].seen :
              task[t].step = "nodes" /\ task' = [task EXCEPT ![t].seen = @ \ {i}]
        BY <2>4 DEF SaveNode
      <3>2. [task[t] EXCEPT !.seen = @ \ {i}]
              = [task[t] EXCEPT !.step = "nodes", !.seen = task[t].seen \ {i}]
        BY <1>0, <3>1 DEF TaskRec
      <3> QED
        BY <1>0, <3>1, <3>2
    <2> QED
      BY <2>1, <2>2, <2>3, <2>4
  <1>5. PICK s \in {"ids", "create", "nodes"}, sn \in SUBSET Vecs :
          task' = [task EXCEPT ![t] = [task[t] EXCEPT !.step = s, !.seen = sn]]
    BY <1>4
  <1>6. Move(t, s, sn)
    BY <1>2, <1>5 DEF Move, Steps
  <1>7. task[t].op \notin Single
    BY <1>2 DEF Single
  <1> QED
    BY <1>1, <1>3, <1>6, <1>7, AsideInv

\* The rebuild of the start is over, done or failed, and the graph is saved.
LEMMA BootInv ==
  ASSUME IInv, NEW t \in Tasks, task[t].op = "boot",
         task' = [task EXCEPT ![t] = New("save", Free.id)],
         \/ torn' = torn /\ task[t].step = "nodes"
         \/ torn' = Vecs,
         UNCHANGED <<up, stored, unfit, graph, dirty, files>>
  PROVE  IInv'
  <1>0. task[t] \in TaskRec /\ task \in [Tasks -> TaskRec]
    BY DEF IInv, Typed
  <1> DEFINE k == New("save", Free.id)
  <1>1. task' = [task EXCEPT ![t] = k]
    OBVIOUS
  <1>2. k \in TaskRec /\ k.op = "save" /\ k.step = "meta" /\ k.step \in StepsOf(k.op)
    <2>1. FirstStep("save") = "meta"
      BY DEF FirstStep, Single
    <2> QED
      BY <2>1, FreeTask, NewTask DEF Whole, TaskRec
  <1>3. Scope(k) = {}
    BY <1>2 DEF Scope, Single
  <1> HIDE DEF k
  <1>4. task'[t] = k /\ \A u \in Tasks \ {t} : task'[u] = task[u]
    BY <1>0, <1>1
  <1>5. Meets'
    BY <1>3, <1>4, MeetsKept DEF IInv
  <1>6. up
    BY DEF IInv, Shape, Typed
  <1>7. Typed' /\ Shape'
    BY <1>0, <1>1, <1>2, <1>4, <1>6 DEF IInv, Typed, Shape
  <1>8. \A u \in Tasks : Halfway(task[u])'
    BY <1>2, <1>4 DEF IInv, Halfway
  <1>9. task[t].step = "nodes" /\ ~Booting' => ~Booting
    BY <1>4 DEF Booting, Tasks
  <1>10. \A j : OnIt(j) => OnIt(j)'
    BY <1>4 DEF OnIt, Single
  <1>11. Agree'
    BY <1>9, <1>10 DEF IInv, Agree, Matched
  <1> QED
    BY <1>5, <1>7, <1>8, <1>11 DEF IInv

LEMMA SavedInv ==
  ASSUME IInv, NEW t \in Tasks, Saved(t)
  PROVE  IInv'
  <1>0. task[t] \in TaskRec /\ task \in [Tasks -> TaskRec]
    BY DEF IInv, Typed
  <1>1. task[t].step = "nodes" /\ UNCHANGED <<stored, unfit, graph, dirty, files>>
    BY DEF Saved
  <1>2. task[t].op \in {"save", "quit", "rebuild", "boot"}
    BY <1>0, <1>1 DEF IInv, Shape, StepsOf, TaskRec, AllOps, Single, Whole
  <1>3. CASE task[t].op = "quit"
    <2>1. up' = FALSE /\ task' = [u \in Tasks |-> Free]
          /\ torn' = torn \cup UNION {Scope(task[u]) : u \in Tasks}
      BY <1>3 DEF Saved
    <2>2. torn' \in SUBSET Vecs
      BY <1>0, <2>1 DEF IInv, Typed, Scope, TaskRec
    <2> QED
      BY <1>1, <2>1, <2>2, StopInv
  <1>4. CASE task[t].op \in {"save", "rebuild"}
    BY <1>1, <1>4, EndInv DEF Saved, Single
  <1>5. CASE task[t].op = "boot"
    BY <1>1, <1>5, BootInv DEF Saved
  <1> QED
    BY <1>2, <1>3, <1>4, <1>5

LEMMA LoadInv ==
  ASSUME IInv, NEW t \in Tasks, ReadNodes(t) \/ LoadIds(t) \/ SetBuilding(t) \/ Scan(t)
  PROVE  IInv'
  <1>0. /\ task[t] \in TaskRec /\ task \in [Tasks -> TaskRec]
        /\ stored \subseteq Vecs /\ dirty \subseteq Vecs /\ files \in Files
        /\ task[t].seen \in SUBSET Vecs
    BY DEF IInv, Typed, TaskRec
  <1>1. UNCHANGED <<up, torn, stored, unfit, graph, dirty, files>>
    BY DEF ReadNodes, LoadIds, SetBuilding, Scan
  <1>2. task[t].step \in {"read", "load"} => task[t].op = "load"
    BY <1>0 DEF IInv, Shape, StepsOf, TaskRec, AllOps, Single, Whole
  <1>3. task[t].step = "flag" => task[t].op = "boot"
    BY <1>0 DEF IInv, Shape, StepsOf, TaskRec, AllOps, Single, Whole
  <1>4. task[t].step = "scan" => task[t].op \in {"rebuild", "boot"}
    BY <1>0 DEF IInv, Shape, StepsOf, TaskRec, AllOps, Single, Whole
  <1>5. CASE /\ ReadNodes(t) \/ LoadIds(t)
             /\ task' = [task EXCEPT ![t] = Free]
    BY <1>1, <1>2, <1>5, EndInv DEF ReadNodes, LoadIds, Single
  <1>6. CASE /\ ReadNodes(t) /\ files.nodes \subseteq Vecs
             /\ task' = [task EXCEPT ![t].step = "load", ![t].seen = files.nodes]
    <2>1. task[t].step = "read" /\ task[t].op = "load"
      BY <1>2, <1>6 DEF ReadNodes
    <2>2. Move(t, "load", files.nodes)
      BY <1>0, <1>6, <2>1 DEF Move, Steps, StepsOf
    <2> QED
      BY <1>0, <1>1, <1>6, <2>1, <2>2, AsideInv DEF Single
  <1>7. CASE /\ LoadIds(t)
             /\ task' = [task EXCEPT ![t].step = "swap", ![t].seen = @ \cap files.ids]
    <2>1. task[t].step = "load" /\ task[t].op = "load"
      BY <1>2, <1>7 DEF LoadIds
    <2>2. Move(t, "swap", task[t].seen \cap files.ids)
      BY <1>0, <1>7, <2>1 DEF Move, Steps, StepsOf
    <2> QED
      BY <1>0, <1>1, <2>1, <2>2, AsideInv DEF Single
  <1>8. CASE SetBuilding(t)
    <2>1. task[t].op = "boot" /\ StepTo(t, "scan")
      BY <1>3, <1>8 DEF SetBuilding
    <2>2. Move(t, "scan", task[t].seen)
      BY <1>0, <1>8, <2>1, OneStep DEF Move, Steps, StepsOf, SetBuilding
    <2> QED
      BY <1>0, <1>1, <2>1, <2>2, AsideInv DEF Single
  <1>9. CASE Scan(t)
    <2>1. /\ task[t].step = "scan" /\ task[t].op \in {"rebuild", "boot"}
          /\ task' = [task EXCEPT ![t].step = "swap", ![t].seen = stored \ unfit]
      BY <1>4, <1>9 DEF Scan
    <2>2. Move(t, "swap", stored \ unfit)
      BY <1>0, <2>1 DEF Move, Steps, StepsOf
    <2> QED
      BY <1>0, <1>1, <2>1, <2>2, AsideInv DEF Single
  <1>10. files.nodes \subseteq Vecs
    BY <1>0 DEF Files
  <1> QED
    BY <1>5, <1>6, <1>7, <1>8, <1>9, <1>10 DEF ReadNodes, LoadIds

\* Putting another graph in place disturbs every request under way.
LEMMA SwapInv ==
  ASSUME IInv, NEW t \in Tasks, SwapLoaded(t) \/ SwapRebuilt(t)
  PROVE  IInv'
  <1>0. /\ task[t] \in TaskRec /\ task \in [Tasks -> TaskRec]
        /\ task[t].seen \subseteq Vecs /\ task[t].met \subseteq Vecs
        /\ Halfway(task[t])
    BY DEF IInv, Typed, TaskRec
  <1>1. /\ task[t].op \in {"load", "rebuild", "boot"} /\ task[t].step = "swap"
        /\ graph' = task[t].seen /\ dirty' \in {{}, task[t].seen}
        /\ UNCHANGED <<up, stored, unfit, files>>
    BY DEF SwapLoaded, SwapRebuilt
  <1>2. Scope(task[t]) = Vecs
    BY <1>1 DEF Scope, Single
  <1>3. \A u \in Tasks \ {t} : task[u].op \in Single => task[u].id \in task[u].met
    <2> SUFFICES ASSUME NEW u \in Tasks \ {t}, task[u].op \in Single
                 PROVE  task[u].id \in task[u].met
      OBVIOUS
    <2>1. Scope(task[u]) = {task[u].id} /\ task[u].id \in Vecs
      BY DEF Scope, IInv, Typed, TaskRec
    <2> QED
      BY <1>2, <2>1 DEF IInv, Meets
  <1>4. /\ task' \in [Tasks -> TaskRec] /\ Meets'
        /\ \A u \in Tasks : task'[u].step \in StepsOf(task'[u].op)
        /\ \A u \in Tasks \ {t} : task'[u] = task[u]
        /\ \A u \in Tasks : task[u].op = "none" => task'[u].op = "none"
        /\ task'[t].step \in {"none", "meta"}
    <2>1. CASE SwapLoaded(t)
      BY <2>1, TaskEnds, FreeTask DEF SwapLoaded
    <2>2. CASE SwapRebuilt(t)
      <3>1. /\ task' = [task EXCEPT ![t].step = "meta", ![t].seen = {}]
            /\ task[t].op \in {"rebuild", "boot"}
        BY <2>2 DEF SwapRebuilt
      <3>2. Move(t, "meta", {})
        BY <1>0, <1>1, <3>1 DEF Move, Steps, StepsOf
      <3>3. {} \in SUBSET Vecs
        OBVIOUS
      <3>4. /\ task' \in [Tasks -> TaskRec] /\ Meets'
            /\ \A u \in Tasks : task'[u].step \in StepsOf(task'[u].op)
            /\ \A u \in Tasks : task'[u].op = task[u].op
            /\ \A u \in Tasks \ {t} : task'[u] = task[u]
            /\ task'[t].step = "meta"
        BY <3>2, <3>3, Moves
      <3> QED
        BY <3>4
    <2> QED
      BY <2>1, <2>2
  <1>5. torn' \subseteq Vecs
    BY <1>0 DEF SwapLoaded, SwapRebuilt
  <1>6. Typed' /\ Shape'
    BY <1>0, <1>1, <1>4, <1>5 DEF IInv, Typed, Shape
  <1>7. \A u \in Tasks \ {t} : Halfway(task[u])'
    <2> SUFFICES ASSUME NEW u \in Tasks \ {t}
                 PROVE  Halfway(task[u])'
      OBVIOUS
    <2>1. Halfway(task[u]) /\ task'[u] = task[u] /\ stored' = stored /\ unfit' = unfit
      BY <1>1, <1>4 DEF IInv
    <2>2. task[u].op = "delete" => task[u].id \in task[u].met
      BY <1>3 DEF Single
    <2> QED
      BY <2>1, <2>2 DEF Halfway
  <1>8. Halfway(task[t])'
    BY <1>4 DEF Halfway
  <1>9. Agree'
    <2>1. CASE SwapLoaded(t)
      BY <2>1 DEF SwapLoaded, Agree
    <2>2. CASE SwapRebuilt(t)
      <3>1. torn' = task[t].met /\ task[t].op \in {"rebuild", "boot"}
        BY <2>2 DEF SwapRebuilt
      <3>2. \A i \in Vecs \ task[t].met : i \in task[t].seen <=> i \in stored \ unfit
        BY <1>0, <1>1, <3>1 DEF Halfway
      <3> QED
        BY <1>1, <3>1, <3>2 DEF Agree, Matched
    <2> QED
      BY <2>1, <2>2
  <1> QED
    BY <1>4, <1>6, <1>7, <1>8, <1>9 DEF IInv

LEMMA RebuildFailsInv ==
  ASSUME IInv, NEW t \in Tasks, RebuildFails(t)
  PROVE  IInv'
  <1>1. /\ task[t].op \in {"rebuild", "boot"}
        /\ UNCHANGED <<up, stored, unfit, graph, dirty, files>>
    BY DEF RebuildFails
  <1>2. CASE task[t].op = "boot"
    BY <1>1, <1>2, BootInv DEF RebuildFails
  <1>3. CASE task[t].op = "rebuild"
    BY <1>1, <1>3, EndInv DEF RebuildFails, Single
  <1> QED
    BY <1>1, <1>2, <1>3

LEMMA NextInv ==
  ASSUME IInv, [Next]_vars
  PROVE  IInv'
  <1>1. CASE Start
    BY <1>1, StartInv
  <1>2. CASE Crash
    <2>1. /\ up' = FALSE /\ task' = [u \in Tasks |-> Free]
          /\ torn' = torn \cup UNION {Scope(task[u]) : u \in Tasks}
          /\ UNCHANGED <<stored, unfit, graph, dirty, files>>
      BY <1>2 DEF Crash
    <2>2. torn' \in SUBSET Vecs
      BY <2>1 DEF IInv, Typed, Scope, TaskRec
    <2> QED
      BY <2>1, <2>2, StopInv
  <1>3. ASSUME NEW t \in Callers, NEW r \in Requests, Call(t, r[1], r[2])
        PROVE  IInv'
    BY <1>3, CallInv
  <1>4. ASSUME NEW t \in Callers, Cancel(t)
        PROVE  IInv'
    BY <1>4, CancelInv
  <1>5. ASSUME NEW t \in Tasks, Work(t)
        PROVE  IInv'
    BY <1>5, SingleInv, SaveInv, SavedInv, LoadInv, SwapInv, RebuildFailsInv DEF Work
  <1>6. CASE UNCHANGED vars
    BY <1>6 DEF vars, IInv, Typed, Shape, Meets, Halfway, Agree, Matched, OnIt, Booting
  <1> QED
    BY <1>1, <1>2, <1>3, <1>4, <1>5, <1>6 DEF Next

\* The graph and RocksDB match on every id that nothing disturbs, for any ids,
\* number of concurrent requests, refused and unfit vectors, failing storage
\* calls, crashes, rebuilds and loaded snapshots: none is in the graph alone, and
\* in RocksDB alone only one whose vector is unfit (insert_embedding, delete_embedding, rebuild_index_from_rocks_db and
\* load_snapshot_internal in laoflchdb_embedding_service/src/lib.rs).
THEOREM SidesAgree == Spec => []AgreeUnlessTorn
  <1>1. IInv => AgreeUnlessTorn
    <2> SUFFICES ASSUME IInv, up, NEW i \in Vecs \ torn,
                        \A t \in Tasks : i \notin Scope(task[t])
                 PROVE  Matched(i)
      BY DEF AgreeUnlessTorn
    <2>1. ~OnIt(i)
      BY DEF OnIt, Scope
    <2>2. ~Booting
      BY DEF Booting, Scope, Single, Tasks
    <2> QED
      BY <2>1, <2>2 DEF IInv, Agree
  <1> QED
    BY <1>1, InitInv, NextInv, PTL DEF Spec

-----------------------------------------------------------------------------
(* What the requests answered: looking an id up tells it.                    *)

Mixed(k) == k.mixed = TRUE

\* Two requests on one id know of each other.
Aware ==
  \A t, u \in Tasks :
    t # u /\ task[t].op \in Single /\ task[u].op \in Single /\ task[t].id = task[u].id
      => Mixed(task[t])

\* While a request is under way, nothing has been said of its id.
Unsaid == \A t \in Tasks : task[t].op \in Single => said[task[t].id] = "nothing"

\* What a request that met no other on its id has done to RocksDB still holds.
Written(k) ==
  /\ k.op = "insert" /\ k.step \in {"node", "unfit"} /\ ~Mixed(k) => k.id \in stored
  /\ k.op = "entry_both" /\ k.step = "node" /\ ~Mixed(k) => k.id \notin stored

LookedUp == \A i \in Vecs : /\ said[i] = "inserted" => i \in stored
                            /\ said[i] = "deleted" => i \notin stored

SaidInv ==
  /\ said \in [Vecs -> {"nothing", "inserted", "deleted"}]
  /\ Aware /\ Unsaid /\ (\A t \in Tasks : Written(task[t])) /\ LookedUp

\* The requests on single ids go on as they were, or end.
LEMMA SaidAside ==
  ASSUME SaidInv, UNCHANGED <<stored, said>>,
         \A u \in Tasks : task'[u].op \in Single =>
           /\ task'[u].op = task[u].op /\ task'[u].id = task[u].id
           /\ task'[u].step = task[u].step
           /\ Mixed(task[u]) => Mixed(task'[u])
  PROVE  SaidInv'
  <1>1. \A u \in Tasks : Mixed(task[u])' <=> Mixed(task'[u])
    BY DEF Mixed
  <1>2. Aware'
    BY <1>1 DEF SaidInv, Aware
  <1>3. Unsaid'
    BY DEF SaidInv, Unsaid
  <1>4. \A u \in Tasks : Written(task[u])'
    <2> TAKE u \in Tasks
    <2>1. Written(task[u]) /\ (Mixed(task[u])' <=> Mixed(task'[u]))
      BY <1>1 DEF SaidInv
    <2> QED
      BY <2>1 DEF Written, Single
  <1>5. LookedUp'
    BY DEF SaidInv, LookedUp
  <1> QED
    BY <1>2, <1>3, <1>4, <1>5 DEF SaidInv

\* A request on one id leaves alone what others that met none on theirs have done.
LEMMA OthersWritten ==
  ASSUME SaidInv, NEW t \in Tasks, task[t].op \in Single,
         \A i \in Vecs \ {task[t].id} : i \in stored' <=> i \in stored,
         NEW u \in Tasks \ {t}, task'[u] = task[u], task[u].id \in Vecs
  PROVE  Written(task[u])'
  <1>1. Written(task[u]) /\ (Mixed(task[u])' <=> Mixed(task[u]))
    BY DEF SaidInv, Mixed
  <1>2. task[u].op \in Single /\ task[u].id = task[t].id => Mixed(task[u])
    BY DEF SaidInv, Aware
  <1> QED
    BY <1>1, <1>2 DEF Written, Single

LEMMA SaidStep ==
  ASSUME IInv, SaidInv, NEW t \in Tasks, task[t].op \in Single, NEW s, StepTo(t, s),
         said' = said,
         \A i \in Vecs \ {task[t].id} : i \in stored' <=> i \in stored,
         task[t].op = "insert" /\ s \in {"node", "unfit"} => task[t].id \in stored',
         task[t].op = "entry_both" /\ s = "node" => task[t].id \notin stored'
  PROVE  SaidInv'
  <1>1. /\ task[t] \in TaskRec /\ task \in [Tasks -> TaskRec]
        /\ \A u \in Tasks : task[u].id \in Vecs
    BY DEF IInv, Typed, TaskRec
  <1>2. \A u \in Tasks \ {t} : task'[u] = task[u]
    BY <1>1 DEF StepTo
  <1>3. /\ task'[t].op = task[t].op /\ task'[t].id = task[t].id
        /\ task'[t].step = s /\ (Mixed(task[t])' <=> Mixed(task[t]))
    BY <1>1 DEF StepTo, TaskRec, Mixed
  <1>4. \A u \in Tasks : /\ task'[u].op = task[u].op /\ task'[u].id = task[u].id
                         /\ Mixed(task[u])' <=> Mixed(task[u])
    BY <1>2, <1>3 DEF Mixed
  <1>5. Aware' /\ Unsaid'
    BY <1>4 DEF SaidInv, Aware, Unsaid
  <1>6. \A u \in Tasks : Written(task[u])'
    <2> TAKE u \in Tasks
    <2>1. CASE u = t
      BY <1>3, <2>1 DEF Written
    <2>2. CASE u # t
      BY <1>1, <1>2, <2>2, OthersWritten
    <2> QED
      BY <2>1, <2>2
  <1>7. LookedUp'
    BY DEF SaidInv, LookedUp, Unsaid
  <1> QED
    BY <1>5, <1>6, <1>7 DEF SaidInv

LEMMA SaidAnswer ==
  ASSUME IInv, SaidInv, NEW t \in Tasks, task[t].op \in Single, Answered(t),
         \A i \in Vecs \ {task[t].id} : i \in stored' <=> i \in stored,
         task[t].op = "insert" /\ ~Mixed(task[t]) => task[t].id \in stored',
         task[t].op \notin {"insert", "entry_node"} /\ ~Mixed(task[t]) =>
           task[t].id \notin stored'
  PROVE  SaidInv'
  <1>1. /\ task[t] \in TaskRec /\ task \in [Tasks -> TaskRec]
        /\ \A u \in Tasks : task[u].id \in Vecs
        /\ task[t].mixed \in BOOLEAN
        /\ said \in [Vecs -> {"nothing", "inserted", "deleted"}]
    BY DEF IInv, Typed, TaskRec, SaidInv
  <1> DEFINE i == task[t].id
             what == IF task[t].mixed \/ task[t].op = "entry_node" THEN said[i]
                     ELSE IF task[t].op = "insert" THEN "inserted" ELSE "deleted"
  <1>2. task' = [task EXCEPT ![t] = Free] /\ said' = [said EXCEPT ![i] = what]
    BY DEF Answered
  <1>3. said[i] = "nothing"
    BY DEF SaidInv, Unsaid
  <1>4. /\ Mixed(task[t]) \/ task[t].op = "entry_node" => what = "nothing"
        /\ ~Mixed(task[t]) /\ task[t].op = "insert" => what = "inserted"
        /\ ~Mixed(task[t]) /\ task[t].op \notin {"insert", "entry_node"} => what = "deleted"
    <2> DEFINE alone == ~(task[t].mixed \/ task[t].op = "entry_node")
    <2>1. alone <=> ~Mixed(task[t]) /\ task[t].op # "entry_node"
      BY <1>1, Zenon DEF Mixed
    <2>2. what = IF ~alone THEN said[i]
                 ELSE IF task[t].op = "insert" THEN "inserted" ELSE "deleted"
      BY Zenon
    <2> HIDE DEF alone, what
    <2> QED
      BY <1>3, <2>1, <2>2
  <1>5. /\ what \in {"nothing", "inserted", "deleted"}
        /\ what = "inserted" => i \in stored'
        /\ what = "deleted" => i \notin stored'
        /\ Mixed(task[t]) => what = "nothing"
    BY <1>4
  <1> HIDE DEF what
  <1>6. task'[t].op = "none" /\ \A u \in Tasks \ {t} : task'[u] = task[u]
    BY <1>1, <1>2, FreeTask
  <1>7. said'[i] = what /\ \A j \in Vecs \ {i} : said'[j] = said[j]
    BY <1>1, <1>2
  <1>8. \A u \in Tasks : task'[u].op \in Single => u # t
    BY <1>6 DEF Single
  <1>9. Aware'
    BY <1>6, <1>8 DEF SaidInv, Aware, Mixed
  <1>10. Unsaid'
    <2> SUFFICES ASSUME NEW u \in Tasks, u # t, task[u].op \in Single
                 PROVE  said'[task[u].id] = "nothing"
      BY <1>6, <1>8 DEF Unsaid
    <2>1. said[task[u].id] = "nothing"
      BY DEF SaidInv, Unsaid
    <2>2. task[u].id = i => Mixed(task[t])
      BY DEF SaidInv, Aware
    <2> QED
      BY <1>1, <1>5, <1>7, <2>1, <2>2
  <1>11. \A u \in Tasks : Written(task[u])'
    <2> TAKE u \in Tasks
    <2>1. CASE u = t
      BY <1>6, <2>1 DEF Written
    <2>2. CASE u # t
      BY <1>1, <1>6, <2>2, OthersWritten
    <2> QED
      BY <2>1, <2>2
  <1>12. LookedUp'
    BY <1>5, <1>7 DEF SaidInv, LookedUp
  <1>13. said' \in [Vecs -> {"nothing", "inserted", "deleted"}]
    BY <1>1, <1>2, <1>5
  <1> QED
    BY <1>9, <1>10, <1>11, <1>12, <1>13 DEF SaidInv

LEMMA SaidInit == Init => SaidInv
  <1> SUFFICES ASSUME Init PROVE SaidInv
    OBVIOUS
  <1>1. \A t \in Tasks : task[t].op = "none"
    BY FreeTask DEF Init
  <1> QED
    BY <1>1 DEF Init, SaidInv, Aware, Unsaid, Written, LookedUp, Single

\* A request begins, on an id of which nothing has been said since.
LEMMA SaidCall ==
  ASSUME IInv, SaidInv, NEW t \in Callers, NEW r \in Requests, Call(t, r[1], r[2])
  PROVE  SaidInv'
  <1> DEFINE op == r[1]  i == r[2]  k == New(op, i)
  <1>1. op \in Single \cup Whole /\ i \in Vecs /\ t \in Tasks
    BY EmbeddingAssumption DEF Requests, Tasks
  <1>2. /\ task[t].op = "none" /\ task' = Joined(t, k) /\ stored' = stored
        /\ said' = IF op \in Single THEN [said EXCEPT ![i] = "nothing"] ELSE said
    BY DEF Call
  <1>3. /\ k \in TaskRec /\ k.op = op /\ k.id = i /\ k.met = {}
        /\ k.step = FirstStep(op) /\ k.step \in StepsOf(k.op)
    BY <1>1, NewTask
  <1>4. /\ task' \in [Tasks -> TaskRec]
        /\ \A u \in Tasks \ {t} :
             /\ task'[u].op = task[u].op /\ task'[u].id = task[u].id
             /\ task'[u].step = task[u].step
        /\ task'[t].op = op /\ task'[t].id = i /\ task'[t].step = FirstStep(op)
    BY <1>1, <1>2, <1>3, Begins
  <1>5. /\ task \in [Tasks -> TaskRec]
        /\ said \in [Vecs -> {"nothing", "inserted", "deleted"}]
    BY DEF IInv, Typed, SaidInv
  <1> HIDE DEF op, i, k
  <1>6. \A u \in Tasks \ {t} :
          /\ Mixed(task[u]) => Mixed(task'[u])
          /\ task[u].op \in Single /\ op \in Single /\ task[u].id = i =>
               Mixed(task'[u]) /\ Mixed(task'[t])
    <2> TAKE u \in Tasks \ {t}
    <2> DEFINE ms == UNION {Scope(task[v]) \cap Scope(k) : v \in Tasks}
               mx == \E v \in Tasks : task[v].op \in Single /\ k.op \in Single
                                      /\ task[v].id = k.id
               mo == task[u].met \cup (Scope(task[u]) \cap Scope(k))
               same == task[u].op \in Single /\ k.op \in Single /\ task[u].id = k.id
               xo == task[u].mixed \/ same
    <2>1. /\ task'[t] = [k EXCEPT !.met = ms, !.mixed = mx]
          /\ task'[u] = [task[u] EXCEPT !.met = mo, !.mixed = xo]
      BY <1>1, <1>2, Zenon DEF Joined
    <2>2. /\ task[u].mixed = TRUE => xo = TRUE
          /\ same => xo = TRUE
          /\ same => mx = TRUE
      BY Zenon
    <2>3. same <=> task[u].op \in Single /\ op \in Single /\ task[u].id = i
      BY <1>3
    <2> HIDE DEF ms, mx, mo, xo, same
    <2>4. task'[t].mixed = mx
      BY ONLY <1>3, <2>1 DEF TaskRec
    <2>5. task'[u].mixed = xo
      BY ONLY <1>5, <2>1 DEF TaskRec
    <2> QED
      BY <2>2, <2>3, <2>4, <2>5, Zenon DEF Mixed
  <1>7. \A u \in Tasks : Mixed(task[u])' <=> Mixed(task'[u])
    BY DEF Mixed
  <1>8. Aware'
    <2> SUFFICES ASSUME NEW a \in Tasks, NEW b \in Tasks, a # b, task'[a].op \in Single,
                        task'[b].op \in Single, task'[a].id = task'[b].id
                 PROVE  Mixed(task'[a])
      BY <1>7 DEF Aware
    <2>1. CASE a = t
      BY <1>4, <1>6, <2>1
    <2>2. CASE b = t
      BY <1>4, <1>6, <2>2
    <2>3. CASE a # t /\ b # t
      BY <1>4, <1>6, <2>3 DEF SaidInv, Aware
    <2> QED
      BY <2>1, <2>2, <2>3
  <1>9. /\ said' \in [Vecs -> {"nothing", "inserted", "deleted"}]
        /\ \A j \in Vecs : said'[j] \in {said[j], "nothing"}
        /\ op \in Single => said'[i] = "nothing"
    BY <1>1, <1>2, <1>5
  <1>10. Unsaid'
    <2> SUFFICES ASSUME NEW u \in Tasks, task'[u].op \in Single
                 PROVE  said'[task'[u].id] = "nothing"
      BY DEF Unsaid
    <2>1. CASE u = t
      BY <1>4, <1>9, <2>1
    <2>2. CASE u # t
      <3>1. task[u].id \in Vecs /\ said[task[u].id] = "nothing"
        BY <1>4, <1>5, <2>2 DEF SaidInv, Unsaid, TaskRec
      <3> QED
        BY <1>4, <1>9, <2>2, <3>1
    <2> QED
      BY <2>1, <2>2
  <1>11. \A u \in Tasks : Written(task[u])'
    <2> TAKE u \in Tasks
    <2>1. CASE u = t
      BY <1>4, <2>1 DEF Written, FirstStep
    <2>2. CASE u # t
      <3>1. Written(task[u]) /\ (Mixed(task[u])' <=> Mixed(task'[u]))
        BY <1>7 DEF SaidInv
      <3> QED
        BY <1>2, <1>4, <1>6, <2>2, <3>1 DEF Written
    <2> QED
      BY <2>1, <2>2
  <1>12. LookedUp'
    BY <1>2, <1>9 DEF SaidInv, LookedUp
  <1> QED
    BY <1>8, <1>9, <1>10, <1>11, <1>12 DEF SaidInv

LEMMA SaidStart ==
  ASSUME IInv, SaidInv, Start
  PROVE  SaidInv'
  <1>1. UNCHANGED <<stored, said>> /\ \A u \in Tasks : task[u].op = "none"
    BY DEF Start, IInv, Shape
  <1>2. CASE UNCHANGED task
    <2>1. \A u \in Tasks : task'[u].op \notin Single
      BY <1>1, <1>2 DEF Single
    <2> QED
      BY <1>1, <2>1, SaidAside
  <1>3. CASE task' = Joined(Boot, New("boot", Free.id))
    <2> DEFINE k == New("boot", Free.id)
    <2>1. Boot \in Tasks /\ Free.id \in Vecs
      BY FreeTask DEF Tasks, TaskRec
    <2>2. k \in TaskRec /\ k.op = "boot" /\ k.met = {} /\ k.step \in StepsOf(k.op)
      BY <2>1, NewTask
    <2>3. /\ \A u \in Tasks \ {Boot} : task'[u].op = task[u].op
          /\ task'[Boot].op = "boot"
      BY <1>1, <1>3, <2>1, <2>2, Begins
    <2>4. \A u \in Tasks : task'[u].op \notin Single
      BY <1>1, <2>3 DEF Single
    <2> QED
      BY <1>1, <2>4, SaidAside
  <1> QED
    BY <1>2, <1>3 DEF Start

\* A task ends or goes on; the others stay as they are.
LEMMA SaidOther ==
  ASSUME IInv, SaidInv, UNCHANGED <<stored, said>>, NEW t \in Tasks, NEW k,
         task' = [task EXCEPT ![t] = k], k.op \notin Single
  PROVE  SaidInv'
  <1>1. task'[t] = k /\ \A u \in Tasks \ {t} : task'[u] = task[u]
    BY DEF IInv, Typed
  <1>2. \A u \in Tasks : task'[u].op \in Single =>
          /\ task'[u].op = task[u].op /\ task'[u].id = task[u].id
          /\ task'[u].step = task[u].step
          /\ Mixed(task[u]) => Mixed(task'[u])
    BY <1>1 DEF Mixed
  <1> QED
    BY <1>2, SaidAside

LEMMA SaidSingle ==
  ASSUME IInv, SaidInv, NEW t \in Tasks,
         \/ PutStored(t) \/ InsertNode(t) \/ RefuseNode(t)
         \/ RemoveNode(t) \/ DeleteStored(t) \/ StorageFails(t)
  PROVE  SaidInv'
  <1>0. Written(task[t])
    BY DEF SaidInv
  <1>1. CASE PutStored(t)
    <2>1. PICK s \in {"node", "unfit"} : StepTo(t, s)
      BY <1>1 DEF PutStored
    <2>2. /\ task[t].op = "insert" /\ stored' = stored \cup {task[t].id}
          /\ said' = said
      BY <1>1 DEF PutStored
    <2> QED
      BY <2>1, <2>2, SaidStep DEF Single
  <1>2. CASE InsertNode(t)
    <2>1. /\ task[t].op = "insert" /\ task[t].step \in {"node", "unfit"} /\ Answered(t)
          /\ stored' = stored
      BY <1>2 DEF InsertNode
    <2>2. ~Mixed(task[t]) => task[t].id \in stored
      BY <1>0, <2>1 DEF Written
    <2> QED
      BY <2>1, <2>2, SaidAnswer DEF Single
  <1>3. CASE RemoveNode(t) /\ task[t].op = "delete"
    <2>1. StepTo(t, "stored") /\ UNCHANGED <<stored, said>>
      BY <1>3 DEF RemoveNode
    <2> QED
      BY <1>3, <2>1, SaidStep DEF Single
  <1>4. CASE RemoveNode(t) /\ task[t].op # "delete"
    <2>1. /\ task[t].op \in {"entry_node", "entry_both"} /\ task[t].step = "node"
          /\ Answered(t) /\ stored' = stored
      BY <1>4 DEF RemoveNode
    <2>2. task[t].op = "entry_both" /\ ~Mixed(task[t]) => task[t].id \notin stored
      BY <1>0, <2>1 DEF Written
    <2> QED
      BY <2>1, <2>2, SaidAnswer DEF Single
  <1>5. CASE DeleteStored(t) /\ task[t].op = "entry_both"
    <2>1. StepTo(t, "node") /\ said' = said /\ stored' = stored \ {task[t].id}
      BY <1>5 DEF DeleteStored
    <2> QED
      BY <1>5, <2>1, SaidStep DEF Single
  <1>6. CASE DeleteStored(t) /\ task[t].op # "entry_both"
    <2>1. /\ task[t].op \in {"delete", "entry_stored"}
          /\ stored' = stored \ {task[t].id} /\ Answered(t)
      BY <1>6 DEF DeleteStored
    <2> QED
      BY <2>1, SaidAnswer DEF Single
  <1>7. CASE RefuseNode(t) \/ StorageFails(t)
    BY <1>7, SaidOther, FreeTask DEF RefuseNode, StorageFails, Single
  <1> QED
    BY <1>1, <1>2, <1>3, <1>4, <1>5, <1>6, <1>7

LEMMA SaidFree ==
  ASSUME IInv, SaidInv, UNCHANGED <<stored, said>>, task' = [u \in Tasks |-> Free]
  PROVE  SaidInv'
  <1>1. \A u \in Tasks : task'[u].op \notin Single
    BY FreeTask DEF Single
  <1> QED
    BY <1>1, SaidAside

\* Everything that concerns the whole index leaves RocksDB alone.
LEMMA SaidWhole ==
  ASSUME IInv, SaidInv, NEW t \in Tasks,
         \/ SaveMeta(t) \/ SaveIds(t) \/ CreateNodesFile(t) \/ SaveNode(t) \/ Saved(t)
         \/ ReadNodes(t) \/ LoadIds(t) \/ SwapLoaded(t)
         \/ SetBuilding(t) \/ Scan(t) \/ SwapRebuilt(t) \/ RebuildFails(t)
  PROVE  SaidInv'
  <1>1. UNCHANGED <<stored, said>>
    BY DEF SaveMeta, SaveIds, CreateNodesFile, SaveNode, Saved, ReadNodes, LoadIds,
           SwapLoaded, SetBuilding, Scan, SwapRebuilt, RebuildFails
  <1>2. task[t] \in TaskRec /\ task \in [Tasks -> TaskRec]
    BY DEF IInv, Typed
  <1>3. task[t].op \notin Single
    <2>1. task[t].step \in {"meta", "ids", "create", "nodes", "read", "load", "swap",
                            "flag", "scan"}
      BY DEF SaveMeta, SaveIds, CreateNodesFile, SaveNode, Saved, ReadNodes, LoadIds,
             SwapLoaded, SetBuilding, Scan, SwapRebuilt, RebuildFails
    <2> QED
      BY <1>2, <2>1 DEF IInv, Shape, StepsOf, Single
  <1>4. CASE task' = [u \in Tasks |-> Free]
    BY <1>1, <1>4, SaidFree
  <1>5. CASE \E k : task' = [task EXCEPT ![t] = k] /\ k.op \notin Single
    BY <1>1, <1>5, SaidOther
  <1>6. \/ task' = [u \in Tasks |-> Free]
        \/ \E k : task' = [task EXCEPT ![t] = k] /\ k.op \notin Single
    <2>1. \A s, sn : /\ [task[t] EXCEPT !.step = s].op = task[t].op
                     /\ [task[t] EXCEPT !.seen = sn].op = task[t].op
                     /\ [task[t] EXCEPT !.step = s, !.seen = sn].op = task[t].op
      BY <1>2 DEF TaskRec
    <2>2. CASE SaveMeta(t) \/ SaveIds(t) \/ SetBuilding(t)
      <3>1. PICK s \in Steps : StepTo(t, s)
        BY <2>2 DEF SaveMeta, SaveIds, SetBuilding, Steps
      <3> QED
        BY <1>3, <2>1, <3>1 DEF StepTo
    <2>3. CASE CreateNodesFile(t) \/ LoadIds(t) \/ ReadNodes(t) \/ Scan(t) \/ SwapRebuilt(t)
      <3>1. \/ task' = [task EXCEPT ![t] = Free]
            \/ \E s, sn : task' = [task EXCEPT ![t].step = s, ![t].seen = sn]
        BY <2>3, Zenon DEF CreateNodesFile, LoadIds, ReadNodes, Scan, SwapRebuilt
      <3>2. CASE task' = [task EXCEPT ![t] = Free]
        BY <3>2, FreeTask DEF Single
      <3>3. CASE \E s, sn : task' = [task EXCEPT ![t].step = s, ![t].seen = sn]
        <4>1. PICK s, sn : task' = [task EXCEPT ![t].step = s, ![t].seen = sn]
          BY <3>3
        <4>2. task' = [task EXCEPT ![t] = [task[t] EXCEPT !.step = s, !.seen = sn]]
          BY <1>2, <4>1 DEF TaskRec
        <4>3. [task[t] EXCEPT !.step = s, !.seen = sn].op \notin Single
          BY <1>2, <1>3 DEF TaskRec
        <4> QED
          BY <4>2, <4>3, Zenon
      <3> QED
        BY <3>1, <3>2, <3>3
    <2>4. CASE SaveNode(t)
      <3>1. PICK i \in task[t].seen : task' = [task EXCEPT ![t].seen = @ \ {i}]
        BY <2>4 DEF SaveNode
      <3> QED
        BY <1>3, <2>1, <3>1
    <2>5. CASE SwapLoaded(t)
      BY <2>5, FreeTask DEF SwapLoaded, Single
    <2>6. CASE Saved(t)
      <3>1. New("save", Free.id).op = "save"
        BY FreeTask, NewTask DEF Whole, TaskRec
      <3>2. \/ task' = [u \in Tasks |-> Free]
            \/ task' = [task EXCEPT ![t] = New("save", Free.id)]
            \/ task' = [task EXCEPT ![t] = Free]
        BY <2>6 DEF Saved
      <3> QED
        BY <3>1, <3>2, FreeTask DEF Single
    <2>7. CASE RebuildFails(t)
      <3>1. New("save", Free.id).op = "save"
        BY FreeTask, NewTask DEF Whole, TaskRec
      <3>2. \/ task' = [task EXCEPT ![t] = New("save", Free.id)]
            \/ task' = [task EXCEPT ![t] = Free]
        BY <2>7 DEF RebuildFails
      <3> QED
        BY <3>1, <3>2, FreeTask DEF Single
    <2> QED
      BY <2>2, <2>3, <2>4, <2>5, <2>6, <2>7
  <1> QED
    BY <1>4, <1>5, <1>6

LEMMA SaidNext ==
  ASSUME IInv, SaidInv, [Next]_vars
  PROVE  SaidInv'
  <1>1. CASE Start
    BY <1>1, SaidStart
  <1>2. CASE Crash
    BY <1>2, SaidFree DEF Crash
  <1>3. ASSUME NEW t \in Callers, NEW r \in Requests, Call(t, r[1], r[2])
        PROVE  SaidInv'
    BY <1>3, SaidCall
  <1>4. ASSUME NEW t \in Callers, Cancel(t)
        PROVE  SaidInv'
    BY <1>4, SaidOther, FreeTask DEF Cancel, Tasks, Single
  <1>5. ASSUME NEW t \in Tasks, Work(t)
        PROVE  SaidInv'
    BY <1>5, SaidSingle, SaidWhole DEF Work
  <1>6. CASE UNCHANGED vars
    BY <1>6, SaidAside DEF vars
  <1> QED
    BY <1>1, <1>2, <1>3, <1>4, <1>5, <1>6 DEF Next

-----------------------------------------------------------------------------
(* The operators of the reads.                                               *)

\* A search that doubles its candidates has looked at n of them after n rounds.
LEMMA PowerGrows ==
  ASSUME NEW n \in Nat \ {0}
  PROVE  2 ^ (n - 1) \in Nat /\ n <= 2 ^ (n - 1)
  <1> DEFINE S == 1 .. n - 1
             f == [k \in 1 .. n |-> 1 .. k - 1]
  <1>1. IsFiniteSet(S) /\ Cardinality(S) = n - 1
    BY FS_Interval
  <1>2. IsFiniteSet(SUBSET S) /\ Cardinality(SUBSET S) = 2 ^ (n - 1)
    BY <1>1, FS_SUBSET
  <1>3. f \in Injection(1 .. n, SUBSET S)
    <2>1. \A k \in 1 .. n : 1 .. k - 1 \in SUBSET S
      OBVIOUS
    <2>2. \A a, b \in 1 .. n : a < b => a \in f[b] /\ a \notin f[a]
      OBVIOUS
    <2>3. f \in [1 .. n -> SUBSET S]
      BY <2>1
    <2> HIDE DEF f
    <2>4. \A a, b \in 1 .. n : a = b \/ a < b \/ b < a
      OBVIOUS
    <2>5. \A a, b \in 1 .. n : f[a] = f[b] => a = b
      BY <2>2, <2>4
    <2> QED
      BY <2>3, <2>5 DEF Injection, IsInjective
  <1>4. Cardinality(1 .. n) = n
    BY FS_Interval
  <1> HIDE DEF f
  <1>5. Cardinality(1 .. n) <= Cardinality(SUBSET S)
    BY <1>2, <1>3, FS_Injection
  <1>6. Cardinality(SUBSET S) \in Nat
    BY <1>2, FS_CardinalityType
  <1> QED
    BY <1>2, <1>4, <1>5, <1>6

\* Looking at as many places as there are is looking at them all.
LEMMA FirstOfAll ==
  ASSUME NEW places \in SUBSET Int, IsFiniteSet(places), NEW n \in Int,
         Cardinality(places) <= n
  PROVE  FirstOf(places, n) = places
  <1>1. ASSUME NEW p \in places
        PROVE  Cardinality({q \in places : q < p}) < n
    <2> DEFINE before == {q \in places : q < p}
    <2>1. IsFiniteSet(places \ {p}) /\ Cardinality(places \ {p}) = Cardinality(places) - 1
      BY FS_RemoveElement
    <2>2. before \in SUBSET (places \ {p})
      OBVIOUS
    <2>3. IsFiniteSet(before) /\ Cardinality(before) <= Cardinality(places \ {p})
      BY <2>1, <2>2, FS_Subset
    <2>4. Cardinality(before) \in Nat /\ Cardinality(places) \in Nat
      BY <2>3, FS_CardinalityType
    <2> QED
      BY <2>1, <2>3, <2>4
  <1> QED
    BY <1>1 DEF FirstOf

\* Listing a finite set names each member once.
LEMMA SetAsSequence ==
  ASSUME NEW S, IsFiniteSet(S)
  PROVE  /\ SetToSeq(S) \in [1 .. Cardinality(S) -> S]
         /\ Len(SetToSeq(S)) = Cardinality(S)
         /\ \A x \in S : \E n \in 1 .. Cardinality(S) : SetToSeq(S)[n] = x
  <1> DEFINE m == Cardinality(S)
             s == SetToSeq(S)
  <1>1. m \in Nat /\ IsFiniteSet(1 .. m) /\ Cardinality(1 .. m) = m
    <2>1. m \in Nat
      BY FS_CardinalityType
    <2> QED
      BY <2>1, FS_Interval
  <1>2. \E f \in [1 .. m -> S] : IsInjective(f)
    BY FS_CardinalityType DEF ExistsBijection, Bijection, Injection
  <1>3. s \in [1 .. m -> S] /\ IsInjective(s)
    BY <1>2 DEF SetToSeq
  <1> HIDE DEF s, m
  <1>4. s \in Injection(1 .. m, S)
    BY <1>3 DEF Injection
  <1>5. s \in Surjection(1 .. m, S)
    BY <1>1, <1>4, FS_Injection DEF m
  <1>6. Len(s) = m
    BY <1>1, <1>3
  <1> QED
    BY <1>3, <1>5, <1>6 DEF s, m, Surjection

LEMMA Numbers ==
  /\ IsFiniteSet(Vecs) /\ Cardinality(Vecs) \in Nat \ {0}
  /\ Multiplier \in Nat \ {0}
  /\ \A S \in SUBSET Vecs : IsFiniteSet(S) /\ Cardinality(S) \in Nat
                            /\ Cardinality(S) <= Cardinality(Vecs)
  <1>1. IsFiniteSet(Vecs) /\ Vecs # {} /\ Multiplier \in Nat \ {0}
    BY EmbeddingAssumption, ReadsAssumption
  <1>2. Cardinality(Vecs) \in Nat /\ Cardinality(Vecs) # 0
    BY <1>1, FS_CardinalityType, FS_EmptySet
  <1>3. \A S \in SUBSET Vecs : IsFiniteSet(S) /\ Cardinality(S) \in Nat
                               /\ Cardinality(S) <= Cardinality(Vecs)
    BY <1>1, FS_Subset, FS_CardinalityType
  <1> QED
    BY <1>1, <1>2, <1>3

\* A query has no more places than there are ids.
LEMMA QueryPlaces ==
  ASSUME NEW query \in Queries
  PROVE  /\ DOMAIN query \in SUBSET Int /\ query \in [DOMAIN query -> Vecs]
         /\ IsInjective(query)
         /\ \A places \in SUBSET DOMAIN query :
              /\ places \in SUBSET Int /\ IsFiniteSet(places)
              /\ Cardinality(places) \in Nat
              /\ Cardinality(places) <= Cardinality(Vecs)
  <1>1. query \in Seq(Vecs) /\ IsInjective(query)
    BY ReadsAssumption
  <1>2. DOMAIN query = 1 .. Len(query) /\ query \in [DOMAIN query -> Vecs]
        /\ Len(query) \in Nat
    BY <1>1
  <1>3. query \in Injection(DOMAIN query, Vecs)
    BY <1>1, <1>2 DEF Injection
  <1>4. IsFiniteSet(DOMAIN query) /\ Cardinality(DOMAIN query) <= Cardinality(Vecs)
    BY <1>3, Numbers, FS_Injection
  <1>5. ASSUME NEW places \in SUBSET DOMAIN query
        PROVE  /\ places \in SUBSET Int /\ IsFiniteSet(places)
               /\ Cardinality(places) \in Nat
               /\ Cardinality(places) <= Cardinality(Vecs)
    <2>1. IsFiniteSet(places) /\ Cardinality(places) <= Cardinality(DOMAIN query)
      BY <1>4, FS_Subset
    <2>2. Cardinality(places) \in Nat /\ Cardinality(DOMAIN query) \in Nat
      BY <1>4, <2>1, FS_CardinalityType
    <2> QED
      BY <1>2, <1>4, <2>1, <2>2, Numbers
  <1> QED
    BY <1>1, <1>2, <1>5

LEMMA NearestAll ==
  ASSUME NEW query \in Queries, NEW n \in Int, Cardinality(Vecs) <= n
  PROVE  Nearest(query, n) = {p \in DOMAIN query : query[p] \in graph}
  <1> DEFINE places == {p \in DOMAIN query : query[p] \in graph}
  <1>1. places \in SUBSET DOMAIN query
    OBVIOUS
  <1>2. /\ places \in SUBSET Int /\ IsFiniteSet(places)
        /\ Cardinality(places) \in Nat /\ Cardinality(places) <= Cardinality(Vecs)
    BY <1>1, QueryPlaces
  <1> HIDE DEF places
  <1>3. FirstOf(places, n) = places
    BY <1>2, Numbers, FirstOfAll
  <1> QED
    BY <1>3 DEF Nearest, places

LEMMA SameHit ==
  ASSUME NEW i, NEW v, NEW there
  PROVE  ([id |-> i, vector |-> TRUE] = [id |-> v, vector |-> there])
           <=> v = i /\ there = TRUE
  <1>1. ASSUME [id |-> i, vector |-> TRUE] = [id |-> v, vector |-> there]
        PROVE  v = i /\ there = TRUE
    <2>1. /\ [id |-> i, vector |-> TRUE].id = [id |-> v, vector |-> there].id
          /\ [id |-> i, vector |-> TRUE].vector = [id |-> v, vector |-> there].vector
      BY <1>1, Zenon
    <2>2. /\ [id |-> i, vector |-> TRUE].id = i /\ [id |-> v, vector |-> there].id = v
          /\ [id |-> i, vector |-> TRUE].vector = TRUE
          /\ [id |-> v, vector |-> there].vector = there
      BY ONLY TRUE, Zenon
    <2> QED
      BY <2>1, <2>2, Zenon
  <1>2. ASSUME v = i, there = TRUE
        PROVE  [id |-> i, vector |-> TRUE] = [id |-> v, vector |-> there]
    BY <1>2, Zenon
  <1> QED
    BY <1>1, <1>2, Zenon

\* A search that looks at every node finds, with its vector, what is in both.
LEMMA SearchAll ==
  ASSUME NEW query \in Queries, NEW i \in ToSet(query)
  PROVE  [id |-> i, vector |-> TRUE] \in Search(query, Cardinality(Vecs))
           <=> i \in graph /\ i \in stored
  <1>1. PICK p \in DOMAIN query : query[p] = i
    BY DEF ToSet
  <1>2. Nearest(query, Cardinality(Vecs)) = {q \in DOMAIN query : query[q] \in graph}
    BY Numbers, NearestAll
  <1>3. [id |-> i, vector |-> TRUE] \in Search(query, Cardinality(Vecs))
          <=> \E q \in DOMAIN query :
                query[q] \in graph
                  /\ [id |-> i, vector |-> TRUE]
                       = [id |-> query[q], vector |-> query[q] \in stored]
    BY <1>2, Zenon DEF Search
  <1>4. \A v : ([id |-> i, vector |-> TRUE] = [id |-> v, vector |-> v \in stored])
                 <=> v = i /\ v \in stored
    <2> TAKE v
    <2>1. (v \in stored) \in BOOLEAN
      OBVIOUS
    <2>2. ([id |-> i, vector |-> TRUE] = [id |-> v, vector |-> v \in stored])
            <=> v = i /\ (v \in stored) = TRUE
      BY ONLY <2>1, SameHit, Zenon
    <2> QED
      BY ONLY <2>1, <2>2, Zenon
  <1> QED
    BY <1>1, <1>3, <1>4

LEMMA FilteredAll ==
  ASSUME NEW query \in Queries, NEW i \in ToSet(query)
  PROVE  FilteredSearch(query, {i}, 1, Cardinality(Vecs)) = {i}
           <=> i \in graph /\ i \in stored
  <1> DEFINE all == Cardinality(Vecs)
             n == Candidates(1, all)
             kept == {p \in Nearest(query, n) : query[p] \in stored \cap {i}}
  <1>1. n \in Int /\ all <= n
    <2>1. all \in Nat \ {0} /\ Multiplier \in Nat \ {0}
      BY Numbers
    <2>2. 2 ^ (all - 1) \in Nat /\ all <= 2 ^ (all - 1)
      BY <2>1, PowerGrows
    <2> DEFINE w == 2 ^ (all - 1)
    <2>3. n = 1 * Multiplier * w
      BY DEF Candidates
    <2> HIDE DEF w, n, all
    <2>4. \A a \in Nat, b \in Nat, c \in Nat \ {0} : a <= b => a <= c * b /\ c * b \in Nat
      OBVIOUS
    <2>5. 1 * Multiplier * w = Multiplier * w
      BY <2>1, <2>2 DEF w
    <2> QED
      BY <2>1, <2>2, <2>3, <2>4, <2>5 DEF w
  <1> HIDE DEF n
  <1>2. Nearest(query, n) = {p \in DOMAIN query : query[p] \in graph}
    BY <1>1, NearestAll
  <1>3. PICK p \in DOMAIN query : query[p] = i
    BY DEF ToSet
  <1>4. \A q \in DOMAIN query : query[q] = i => q = p
    BY <1>3, QueryPlaces DEF IsInjective
  <1>5. kept = IF i \in graph /\ i \in stored THEN {p} ELSE {}
    BY <1>2, <1>3, <1>4
  <1> HIDE DEF kept, all
  <1>6. kept \in SUBSET Int /\ IsFiniteSet(kept) /\ Cardinality(kept) <= 1
        /\ Cardinality(kept) \in Nat
    <2>1. CASE kept = {p}
      <3>1. p \in Int
        BY <1>3, QueryPlaces
      <3>2. {p} \in SUBSET Int
        BY <3>1
      <3>3. IsFiniteSet({p}) /\ Cardinality({p}) = 1
        BY FS_Singleton, Zenon
      <3> QED
        BY ONLY <2>1, <3>2, <3>3
    <2>2. CASE kept = {}
      BY <2>2, FS_EmptySet
    <2> QED
      BY ONLY <1>5, <2>1, <2>2
  <1>7. FilteredSearch(query, {i}, 1, all) = {query[q] : q \in FirstOf(kept, 1)}
    BY DEF FilteredSearch, n, kept
  <1>8. FirstOf(kept, 1) = kept
    BY <1>6, FirstOfAll
  <1> QED
    BY <1>3, <1>5, <1>7, <1>8 DEF all

LEMMA ListAll ==
  ASSUME stored \subseteq Vecs
  PROVE  /\ ListEmbeddings(0, Cardinality(Vecs)).entries = stored
         /\ ListEmbeddings(0, 1).total = Cardinality(stored)
  <1> DEFINE all == SetToSeq(stored)  m == Cardinality(stored)
  <1>1. IsFiniteSet(stored) /\ m \in Nat /\ m <= Cardinality(Vecs)
    BY Numbers
  <1>2. /\ all \in [1 .. m -> stored] /\ Len(all) = m
        /\ \A x \in stored : \E n \in 1 .. m : all[n] = x
    BY <1>1, SetAsSequence
  <1>3. ListEmbeddings(0, 1).total = m
    BY <1>2 DEF ListEmbeddings
  <1>4. ListEmbeddings(0, Cardinality(Vecs)).entries
          = {all[n] : n \in FirstOf(0 + 1 .. m, Cardinality(Vecs))}
    BY <1>2 DEF ListEmbeddings
  <1> HIDE DEF all, m
  <1>5. FirstOf(0 + 1 .. m, Cardinality(Vecs)) = 1 .. m
    <2>1. 0 + 1 .. m = 1 .. m
      OBVIOUS
    <2>2. 1 .. m \in SUBSET Int /\ IsFiniteSet(1 .. m) /\ Cardinality(1 .. m) = m
      BY <1>1, FS_Interval
    <2>3. FirstOf(1 .. m, Cardinality(Vecs)) = 1 .. m
      BY <1>1, <2>2, Numbers, FirstOfAll
    <2> QED
      BY <2>1, <2>3
  <1>6. {all[n] : n \in 1 .. m} = stored
    BY <1>2
  <1> QED
    BY <1>3, <1>4, <1>5, <1>6 DEF m

-----------------------------------------------------------------------------
LEMMA ReadsFollow ==
  ASSUME IInv, SaidInv
  PROVE  ReadsAsAnswered
  <1>1. \A i \in Vecs : /\ said[i] = "inserted" => GetEmbeddingById(i).exists
                        /\ said[i] = "deleted" => ~GetEmbeddingById(i).exists
    BY DEF SaidInv, LookedUp, GetEmbeddingById
  <1>2. stored \subseteq Vecs /\ graph \subseteq Vecs
    BY DEF IInv, Typed
  <1>3. ASSUME Served, NEW i \in Settled \ unfit
        PROVE  i \in stored <=> i \in graph
    <2>1. up /\ i \in Vecs \ torn /\ \A t \in Tasks : i \notin Scope(task[t])
      BY <1>3 DEF Served, Settled
    <2>2. ~OnIt(i) /\ ~Booting
      BY <2>1 DEF OnIt, Booting, Scope, Single, Tasks
    <2> QED
      BY <1>3, <2>1, <2>2 DEF IInv, Agree, Matched
  <1>4. ASSUME Served, NEW i \in Settled \ unfit, NEW query \in Queries
        PROVE  LET exists == GetEmbeddingById(i).exists
                   all == Cardinality(Vecs)
               IN  /\ GetEmbeddingById(i).inHnsw = exists
                   /\ i \notin AnalyzeConsistency.onlyInHnsw
                                 \cup AnalyzeConsistency.onlyInRocksdb
                   /\ exists <=> i \in ListEmbeddings(0, all).entries
                   /\ i \in ToSet(query) =>
                        /\ exists <=> [id |-> i, vector |-> TRUE] \in Search(query, all)
                        /\ exists <=> FilteredSearch(query, {i}, 1, all) = {i}
    <2>1. GetEmbeddingById(i).exists = (i \in stored)
          /\ GetEmbeddingById(i).inHnsw = (i \in graph)
      BY Zenon DEF GetEmbeddingById
    <2>2. (i \in stored) = (i \in graph)
      <3>1. i \in stored <=> i \in graph
        BY <1>3, <1>4
      <3>2. (i \in stored) \in BOOLEAN /\ (i \in graph) \in BOOLEAN
        OBVIOUS
      <3> QED
        BY ONLY <3>1, <3>2
    <2>3. i \notin AnalyzeConsistency.onlyInHnsw \cup AnalyzeConsistency.onlyInRocksdb
      BY <1>3, <1>4 DEF AnalyzeConsistency
    <2>4. ListEmbeddings(0, Cardinality(Vecs)).entries = stored
      BY <1>2, ListAll
    <2>5. i \in ToSet(query) =>
            /\ (i \in stored) <=> [id |-> i, vector |-> TRUE] \in Search(query, Cardinality(Vecs))
            /\ (i \in stored) <=> FilteredSearch(query, {i}, 1, Cardinality(Vecs)) = {i}
      BY <1>3, <1>4, SearchAll, FilteredAll
    <2> QED
      BY ONLY <2>1, <2>2, <2>3, <2>4, <2>5, Zenon
  <1>5. ASSUME Served, Settled = Vecs, unfit = {}
        PROVE  GetIndexInfo = ListEmbeddings(0, 1).total
    <2>1. stored = graph
      BY <1>2, <1>3, <1>5
    <2> QED
      BY <1>2, <2>1, ListAll DEF GetIndexInfo
  <1> QED
    BY ONLY <1>1, <1>4, <1>5, Zenon DEF ReadsAsAnswered

\* Whatever requests ran side by side, and after crashes, rebuilds and loaded
\* snapshots, looking an id up tells what the last request on it that was neither
\* disturbed nor hit by a failing storage call has done; and for a settled id
\* whose vector is not unfit the lookup, the listing, the analysis, a search
\* within its distance and a filtered one in enough rounds tell the same, for
\* any ids and queries (search, search_with_filters, list_embeddings,
\* get_embedding_by_id, get_index_info and analyze_consistency in
\* laoflchdb_embedding_service/src/lib.rs).
THEOREM ReadsTellAnswers == Spec => []ReadsAsAnswered
  <1>1. Init => IInv /\ SaidInv
    BY InitInv, SaidInit
  <1>2. IInv /\ SaidInv /\ [Next]_vars => (IInv /\ SaidInv)'
    BY NextInv, SaidNext
  <1>3. IInv /\ SaidInv => ReadsAsAnswered
    BY ReadsFollow
  <1> QED
    BY <1>1, <1>2, <1>3, PTL DEF Spec

HIDE DEF disk
--------------------------------------------------------------------------------
(* Tags: the places of a sequence in order, and what they select.           *)

\* The numbers of a finite set, put in order.
LEMMA PlacesInOrder ==
  ASSUME NEW S, S \subseteq Int, IsFiniteSet(S)
  PROVE  LET n == Cardinality(S)
             nth == [m \in 1 .. n |-> CHOOSE x \in S : Cardinality({j \in S : j <= x}) = m]
         IN  /\ n \in Nat /\ \A m \in 1 .. n : nth[m] \in S
             /\ \A m \in 1 .. n : Cardinality({j \in S : j <= nth[m]}) = m
             /\ \A i, j \in 1 .. n : i < j => nth[i] < nth[j]
             /\ \A x \in S : \E i \in 1 .. n : nth[i] = x
  <1> DEFINE n == Cardinality(S)
             R(x) == {j \in S : j <= x}
             rank == [x \in S |-> Cardinality(R(x))]
             nth == [m \in 1 .. n |-> CHOOSE x \in S : Cardinality({j \in S : j <= x}) = m]
  <1>1. n \in Nat
    BY FS_CardinalityType
  <1>2. \A x \in S : IsFiniteSet(R(x)) /\ Cardinality(R(x)) \in Nat
    <2> TAKE x \in S
    <2>1. R(x) \in SUBSET S
      OBVIOUS
    <2>2. IsFiniteSet(R(x))
      BY ONLY <2>1, FS_Subset, IsFiniteSet(S)
    <2> QED
      BY <2>2, FS_CardinalityType
  <1>3. ASSUME NEW x \in S
        PROVE  rank[x] \in 1 .. n
    <2>1. R(x) \in SUBSET S /\ x \in R(x)
      OBVIOUS
    <2>2. Cardinality(R(x)) <= n
      BY ONLY <2>1, FS_Subset, IsFiniteSet(S)
    <2>3. Cardinality(R(x)) # 0
      BY ONLY <1>2, <2>1, FS_EmptySet, x \in S
    <2> QED
      BY <1>1, <1>2, <2>2, <2>3
  <1>4. ASSUME NEW x \in S, NEW y \in S, x < y
        PROVE  rank[x] < rank[y]
    <2> PICK A, B : A = {j \in S : j <= x} /\ B = {j \in S : j <= y}
      OBVIOUS
    <2>1. A \in SUBSET B /\ A # B
      <3>1. x \in Int /\ y \in Int /\ \A l \in A : l \in S /\ l \in Int /\ l <= x
        OBVIOUS
      <3>2. \A l \in A : l \in B
        BY ONLY <1>4, <3>1, B = {j \in S : j <= y}
      <3>3. y \in B /\ y \notin A
        BY ONLY <1>4, <3>1, A = {j \in S : j <= x}, B = {j \in S : j <= y}, y \in S
      <3> QED
        BY ONLY <3>2, <3>3
    <2>2. IsFiniteSet(B)
      BY <1>2
    <2>3. Cardinality(A) <= Cardinality(B) /\ Cardinality(A) # Cardinality(B)
      BY ONLY <2>1, <2>2, FS_Subset
    <2> QED
      BY <1>2, <2>3
  <1>5. \A x, y \in S : x = y \/ x < y \/ y < x
    OBVIOUS
  <1> HIDE DEF R
  <1>6. rank \in Injection(S, 1 .. n)
    <2>1. rank \in [S -> 1 .. n]
      BY <1>3
    <2>2. \A x, y \in S : rank[x] = rank[y] => x = y
      BY <1>3, <1>4, <1>5
    <2> QED
      BY <2>1, <2>2 DEF Injection, IsInjective
  <1>7. \A i \in 1 .. n : \E x \in S : rank[x] = i
    <2>1. IsFiniteSet(1 .. n) /\ Cardinality(1 .. n) = n
      BY <1>1, FS_Interval
    <2>2. rank \in Surjection(S, 1 .. n)
      BY ONLY <1>6, <2>1, FS_Injection
    <2> QED
      BY ONLY <2>2 DEF Surjection
  <1>8. \A i \in 1 .. n : \E x \in S : Cardinality({j \in S : j <= x}) = i
    BY <1>7 DEF R
  <1>9. \A x \in S : rank[x] = Cardinality({j \in S : j <= x})
    BY DEF R
  <1> HIDE DEF rank, n
  <1>a. \A i \in 1 .. n : nth[i] \in S /\ Cardinality({j \in S : j <= nth[i]}) = i
    BY ONLY <1>8
  <1> HIDE DEF nth
  <1>10. \A i \in 1 .. n : nth[i] \in S /\ rank[nth[i]] = i
    BY ONLY <1>9, <1>a
  <1>11. \A i, j \in 1 .. n : i < j => nth[i] < nth[j]
    <2> TAKE i, j \in 1 .. n
    <2> HAVE i < j
    <2>1. nth[i] \in S /\ nth[j] \in S /\ rank[nth[i]] = i /\ rank[nth[j]] = j
      BY <1>10
    <2> QED
      BY ONLY <1>1, <1>4, <1>5, <2>1, i < j, i \in 1 .. n, j \in 1 .. n
  <1>12. \A x \in S : \E i \in 1 .. n : nth[i] = x
    <2> TAKE x \in S
    <2>1. rank[x] \in 1 .. n
      BY <1>3
    <2>2. nth[rank[x]] \in S /\ rank[nth[rank[x]]] = rank[x]
      BY <1>10, <2>1
    <2>3. nth[rank[x]] = x
      BY ONLY <1>1, <1>3, <1>4, <1>5, <2>2, x \in S
    <2> QED
      BY <2>1, <2>3
  <1>13. \A m \in 1 .. n : Cardinality({j \in S : j <= nth[m]}) = m
    BY ONLY <1>9, <1>10
  <1> QED
    BY <1>1, <1>10, <1>11, <1>12, <1>13 DEF n, nth

\* What is selected keeps its order, and repeats nothing.
LEMMA Filtered ==
  ASSUME NEW T, NEW s \in Seq(T), NEW places, places \subseteq DOMAIN s
  PROVE  LET left == AtPlaces(s, places)
         IN  /\ left \in Seq(T) /\ Range(left) = {s[i] : i \in places}
             /\ Len(left) = Cardinality(places)
             /\ left = <<>> <=> places = {}
             /\ IsInjective(s) => IsInjective(left)
             /\ places = DOMAIN s => left = s
  <1> DEFINE n == Cardinality(places)
             nth == [m \in 1 .. n |-> CHOOSE x \in places : Cardinality({j \in places : j <= x}) = m]
             left == AtPlaces(s, places)
  <1>1. places \subseteq Int /\ IsFiniteSet(places) /\ DOMAIN s = 1 .. Len(s) /\ Len(s) \in Nat
    <2>1. IsFiniteSet(1 .. Len(s)) /\ DOMAIN s = 1 .. Len(s) /\ Len(s) \in Nat
      BY FS_Interval
    <2> QED
      BY <2>1, FS_Subset
  <1>2. /\ n \in Nat /\ \A m \in 1 .. n : nth[m] \in places
        /\ \A m \in 1 .. n : Cardinality({j \in places : j <= nth[m]}) = m
        /\ \A i, j \in 1 .. n : i < j => nth[i] < nth[j]
        /\ \A x \in places : \E i \in 1 .. n : nth[i] = x
    BY ONLY <1>1, PlacesInOrder
  <1>3. left = [m \in 1 .. n |-> s[nth[m]]]
    BY DEF AtPlaces
  <1> HIDE DEF nth, left
  <1>4. left \in Seq(T) /\ Len(left) = n /\ DOMAIN left = 1 .. n
    BY <1>1, <1>2, <1>3
  <1>5. Range(left) = {s[i] : i \in places}
    <2>1. \A m \in 1 .. n : left[m] = s[nth[m]]
      BY <1>3
    <2>2. Range(left) = {left[m] : m \in 1 .. n}
      BY <1>4 DEF Range
    <2>3. \A y \in {left[m] : m \in 1 .. n} : y \in {s[i] : i \in places}
      BY ONLY <1>2, <2>1
    <2>4. ASSUME NEW x \in places
          PROVE  s[x] \in {left[m] : m \in 1 .. n}
      <3>1. PICK m \in 1 .. n : nth[m] = x
        BY <1>2
      <3> QED
        BY ONLY <2>1, <3>1
    <2> QED
      BY ONLY <2>2, <2>3, <2>4
  <1>6. n = 0 <=> places = {}
    BY <1>1, FS_EmptySet
  <1>7. ASSUME IsInjective(s)
        PROVE  IsInjective(left)
    BY <1>1, <1>2, <1>3, <1>4, <1>7 DEF IsInjective
  <1>8. ASSUME places = DOMAIN s
        PROVE  left = s
    <2>1. \A m \in 1 .. n : nth[m] = m
      <3> TAKE m \in 1 .. n
      <3>1. nth[m] \in 1 .. Len(s) /\ {j \in places : j <= nth[m]} = 1 .. nth[m]
        BY <1>1, <1>2, <1>8
      <3>2. Cardinality(1 .. nth[m]) = nth[m]
        BY <3>1, FS_Interval
      <3> QED
        BY <1>2, <3>1, <3>2
    <2>2. n = Len(s)
      BY <1>1, <1>8, FS_Interval
    <2> QED
      BY <1>1, <1>3, <2>1, <2>2
  <1> QED
    BY <1>4, <1>5, <1>6, <1>7, <1>8 DEF left

--------------------------------------------------------------------------------
(* Tags: the types of what is stored and asked.                             *)

TagOps == {"create", "update", "delete", "add", "remove", "drop class"}
TagStepNames == {"tag", "ids", "look", "drop", "put", "check", "count", "scan"}
TagDocs(s) == [item : Items(s), ids : SUBSET made]

TagRecord ==
  [side : Sides, op : TagOps, tag : TagIds \cup {Missing},
   item : Images \cup Classes \cup {Missing}, step : TagStepNames,
   doc : {"tag", "count", "map"}, ids : SUBSET TagIds, seen : SUBSET TagIds, n : Nat,
   offset : Nat, todo : Seq([item : Images \cup Classes, ids : SUBSET TagIds]),
   more : BOOLEAN, moved : BOOLEAN, clash : BOOLEAN]

Clashes(r) == r.clash = TRUE
More(r) == r.more = TRUE
HasMoved(r) == r.moved = TRUE

\* What a request has in hand at each of its steps.
Phase(r) ==
  /\ r.op # "drop class" => r.tag \in made
  /\ r.ids \subseteq r.seen \cup {r.tag} /\ r.ids \subseteq made /\ r.seen \subseteq made
  /\ r.todo \in Seq(TagDocs(r.side))
  /\ r.step \in {"tag", "ids"} => r.ids = {} /\ r.seen = {}
  /\ r.op \in {"create", "update"} =>
       r.doc = "tag" /\ r.step \in {"tag", "look", "drop", "put"}
  /\ r.op = "create" => r.step # "tag"
  /\ r.op = "delete" =>
       /\ <<r.side, r.tag>> \in removed
       /\ r.step \in {"look", "drop", "put", "scan"}
       /\ r.step = "scan" => r.doc # "tag"
       /\ r.doc = "map" /\ r.step # "scan" => r.item \in Items(r.side)
  /\ r.op \in {"add", "remove"} =>
       /\ r.item \in Items(r.side) /\ r.doc # "tag" /\ r.step # "scan"
       /\ r.step \in {"tag", "ids", "check", "count"} => r.doc = "map"
  /\ r.op = "remove" => r.step # "tag"
  /\ r.op = "drop class" =>
       /\ r.side = "class" /\ r.item \in Classes /\ r.doc # "tag"
       /\ r.step \notin {"tag", "scan"} /\ r.ids \subseteq r.seen
       /\ r.step = "ids" => r.doc = "map"
       /\ r.step = "look" => r.doc = "count"
       /\ r.tag = Missing \/ r.tag \in r.seen
       /\ r.tag \notin r.ids
       /\ r.step \in {"check", "count"} \/ r.doc = "count" => r.tag \in r.seen
       /\ r.doc = "map" /\ r.step \in {"ids", "drop", "put"} => r.tag = Missing

TagTyped ==
  /\ tags \subseteq made /\ made \subseteq TagIds
  /\ counts \in [Sides -> [TagIds -> Nat \cup {Missing}]]
  /\ maps = [s \in Sides |-> maps[s]]
  /\ \A s \in Sides :
       /\ maps[s] \in Seq(TagDocs(s)) /\ IsInjective(maps[s])
       /\ \A d, e \in Range(maps[s]) : d.item = e.item => d = e
  /\ requests \in [TagClients -> TagRecord \cup {NoRequest}]
  /\ \A c \in TagClients, r \in TagRecord : requests[c] = r => Phase(r)
  /\ \A t \in TagIds \ made, s \in Sides : counts[s][t] = Missing
  /\ loose \subseteq made \cup {Missing} /\ removed \subseteq Sides \X made

\* What a step of a request does not change.
Alike(r, q) == q.op = r.op /\ q.side = r.side /\ (Clashes(q) <=> Clashes(r))
Steady4(r, q) ==
  /\ q.n = r.n /\ q.offset = r.offset /\ q.todo = r.todo
  /\ (More(q) <=> More(r)) /\ (HasMoved(q) <=> HasMoved(r))
Stepped(r, q) ==
  /\ Alike(r, q) /\ Steady4(r, q)
  /\ q.tag = r.tag /\ q.item = r.item /\ q.ids = r.ids /\ q.seen = r.seen

Turns(c, q) == q \in TagRecord /\ Phase(q) /\ Goes(c, q)

\* A sequence over a set is one over any larger set.
LEMMA LargerSeq ==
  ASSUME NEW A, NEW B, A \subseteq B, NEW s \in Seq(A)
  PROVE  s \in Seq(B)
  OBVIOUS

LEMMA NoRequestIsNone ==
  NoRequest \notin TagRecord
  <1>1. NoRequest.op = "none"
    BY DEF NoRequest
  <1> QED
    BY <1>1 DEF TagRecord, TagOps

\* A client that runs has a record of its request, and only such a client.
LEMMA NotRunning ==
  ASSUME TagTyped
  PROVE  /\ \A c \in TagClients : ~Running(c) => requests[c] = NoRequest
         /\ \A c \in TagClients : Running(c) => requests[c] \in TagRecord
         /\ \A c \in TagClients : Running(c) <=> requests[c] \in TagRecord
         /\ NoRequest \notin TagRecord
  BY NoRequestIsNone DEF Running, TagTyped

LEMMA SteppedBy ==
  ASSUME NEW r \in TagRecord, NEW step \in TagStepNames, NEW doc \in {"tag", "count", "map"}
  PROVE  LET q == [r EXCEPT !.step = step, !.doc = doc]
         IN  q \in TagRecord /\ Stepped(r, q) /\ q.step = step /\ q.doc = doc
  <1> DEFINE q == [r EXCEPT !.step = step, !.doc = doc]
  <1>1. q \in TagRecord
    BY DEF TagRecord
  <1>2. q.step = step /\ q.doc = doc
    BY DEF TagRecord
  <1>3. Steady4(r, q)
    BY DEF TagRecord, Steady4, More, HasMoved
  <1>4. Alike(r, q)
    BY DEF TagRecord, Alike, Clashes
  <1>5. q.tag = r.tag /\ q.item = r.item /\ q.ids = r.ids /\ q.seen = r.seen
    BY DEF TagRecord
  <1> QED
    BY <1>1, <1>2, <1>3, <1>4, <1>5 DEF Stepped

LEMMA SteppedOn ==
  ASSUME NEW r \in TagRecord, NEW step \in TagStepNames
  PROVE  LET q == [r EXCEPT !.step = step]
         IN  q \in TagRecord /\ Stepped(r, q) /\ q.step = step /\ q.doc = r.doc
  <1> DEFINE q == [r EXCEPT !.step = step]
  <1>1. q \in TagRecord
    BY DEF TagRecord
  <1>2. q.step = step /\ q.doc = r.doc
    BY DEF TagRecord
  <1>3. Steady4(r, q)
    BY DEF TagRecord, Steady4, More, HasMoved
  <1>4. Alike(r, q)
    BY DEF TagRecord, Alike, Clashes
  <1>5. q.tag = r.tag /\ q.item = r.item /\ q.ids = r.ids /\ q.seen = r.seen
    BY DEF TagRecord
  <1> QED
    BY <1>1, <1>2, <1>3, <1>4, <1>5 DEF Stepped

\* The documents of an item, as a set.
Holds(s, i, u) == \E d \in Range(maps[s]) : d.item = i /\ u \in d.ids

\* The documents of a side are its sequence read as a set, one for an item.
LEMMA MapsTyped ==
  ASSUME TagTyped, NEW s \in Sides
  PROVE  /\ maps[s] \in Seq(TagDocs(s)) /\ DOMAIN maps[s] = 1 .. Len(maps[s]) /\ Len(maps[s]) \in Nat
         /\ \A d : d \in Range(maps[s]) <=> \E p \in DOMAIN maps[s] : maps[s][p] = d
         /\ \A d \in Range(maps[s]) : d \in TagDocs(s)
         /\ \A d, e \in Range(maps[s]) : d.item = e.item => d = e
         /\ IsInjective(maps[s])
  BY DEF TagTyped, Range

\* What the reads return, said of the documents.
LEMMA ReadsOf ==
  ASSUME TagTyped, NEW s \in Sides, NEW i
  PROVE  /\ Place(s, i) \subseteq DOMAIN maps[s] /\ IdsOf(s, i) \subseteq made
         /\ \A u : u \in IdsOf(s, i) <=> Holds(s, i, u)
         /\ Place(s, i) # {} <=> \E d \in Range(maps[s]) : d.item = i
  <1>1. \A p \in DOMAIN maps[s] : maps[s][p] \in TagDocs(s)
    BY MapsTyped
  <1>2. \A u : u \in IdsOf(s, i) <=>
              \E p \in DOMAIN maps[s] : maps[s][p].item = i /\ u \in maps[s][p].ids
    BY DEF IdsOf, Place
  <1>3. \A d : d \in Range(maps[s]) <=> \E p \in DOMAIN maps[s] : maps[s][p] = d
    BY MapsTyped
  <1>4. Place(s, i) # {} <=> \E d \in Range(maps[s]) : d.item = i
    BY <1>3 DEF Place
  <1>5. IdsOf(s, i) \subseteq made
    BY <1>1, <1>2 DEF TagDocs
  <1>6. \A u : u \in IdsOf(s, i) <=> Holds(s, i, u)
    BY ONLY <1>2, <1>3 DEF Holds
  <1> QED
    BY <1>4, <1>5, <1>6 DEF Place

\* A request that ends.
LEMMA Ended ==
  ASSUME NEW c \in TagClients, NEW r, requests[c] = r, Ends(c, TRUE) \/ Ends(c, FALSE)
  PROVE  /\ requests' = [requests EXCEPT ![c] = NoRequest]
         /\ (Clashes(r) => loose' = loose \cup Touched(r))
         /\ loose \subseteq loose' /\ loose' \subseteq loose \cup Touched(r)
         /\ made' = made /\ removed' = removed /\ gone \subseteq gone'
         /\ \A g \in gone' : \/ g \in gone
                             \/ /\ g = <<r.side, r.tag>> /\ Ends(c, TRUE) /\ r.op = "delete"
                                /\ r.clash # TRUE /\ r.moved # TRUE
  <1>1. /\ requests' = [requests EXCEPT ![c] = NoRequest]
        /\ loose' = IF r.clash THEN loose \cup Touched(r) ELSE loose
        /\ made' = made /\ removed' = removed
    BY DEF Ends
  <1>2. Clashes(r) => loose' = loose \cup Touched(r)
    BY <1>1 DEF Clashes
  <1>3. loose \subseteq loose' /\ loose' \subseteq loose \cup Touched(r)
    <2>1. loose' = loose \/ loose' = loose \cup Touched(r)
      BY <1>1, Zenon
    <2> QED
      BY <2>1
  <1>4. \/ gone' = gone
        \/ /\ gone' = gone \cup {<<r.side, r.tag>>} /\ Ends(c, TRUE) /\ r.op = "delete"
           /\ r.clash # TRUE /\ r.moved # TRUE
    <2>1. CASE Ends(c, TRUE)
      <3>1. gone' = IF r.op = "delete" /\ ~r.clash /\ ~r.moved
                    THEN gone \cup {<<r.side, r.tag>>} ELSE gone
        BY <2>1 DEF Ends
      <3>2. CASE r.op = "delete" /\ ~r.clash /\ ~r.moved
        <4>1. gone' = gone \cup {<<r.side, r.tag>>}
          BY ONLY <3>1, <3>2, Zenon
        <4>2. r.clash # TRUE
          BY ONLY <3>2, Zenon
        <4>3. r.moved # TRUE
          BY ONLY <3>2, Zenon
        <4> QED
          BY <2>1, <3>2, <4>1, <4>2, <4>3
      <3>3. CASE ~(r.op = "delete" /\ ~r.clash /\ ~r.moved)
        BY ONLY <3>1, <3>3, Zenon
      <3> QED
        BY <3>2, <3>3
    <2>2. CASE Ends(c, FALSE)
      BY <2>2 DEF Ends
    <2> QED
      BY <2>1, <2>2
  <1> QED
    BY <1>1, <1>2, <1>3, <1>4

--------------------------------------------------------------------------------
(* What each step makes of its request.                                     *)

\* add and update: refused without a document, else they go on.
LEMMA TagDocumentRead ==
  ASSUME TagTyped, NEW c \in TagClients, NEW r \in TagRecord, requests[c] = r, ReadTagDocument(c)
  PROVE  /\ Reads /\ r.step = "tag" /\ r.op \in {"add", "update"}
         /\ \/ r.tag \notin tags /\ Ends(c, TRUE)
            \/ /\ r.tag \in tags
               /\ \E q : /\ Turns(c, q) /\ Stepped(r, q) /\ q.doc = r.doc
                         /\ q.step = IF r.op = "add" THEN "ids" ELSE "look"
  <1> DEFINE step == IF r.op = "add" THEN "ids" ELSE "look"
             q == [r EXCEPT !.step = step]
  <1>1. Reads /\ r.step = "tag"
    BY DEF ReadTagDocument, At
  <1>2. Phase(r)
    BY DEF TagTyped
  <1>3. r.op \in {"add", "update"}
    BY <1>1, <1>2 DEF Phase, TagRecord, TagOps
  <1>4. \/ r.tag \notin tags /\ Ends(c, TRUE)
        \/ r.tag \in tags /\ Goes(c, q)
    BY DEF ReadTagDocument
  <1>5. step \in TagStepNames
    BY DEF TagStepNames
  <1>6. q \in TagRecord /\ Stepped(r, q) /\ q.step = step /\ q.doc = r.doc
    BY <1>5, SteppedOn
  <1> HIDE DEF q
  <1>7. Phase(q)
    BY <1>1, <1>2, <1>3, <1>6 DEF Phase, Stepped, Alike, Steady4
  <1> QED
    BY <1>1, <1>3, <1>4, <1>6, <1>7 DEF Turns

\* The request now holds the tags it will write.
Informed(r, q) ==
  /\ Alike(r, q) /\ Steady4(r, q) /\ q.tag = r.tag /\ q.item = r.item /\ q.doc = r.doc
  /\ \A u : u \in q.seen <=> Holds(r.side, r.item, u)
  /\ \A u : u \in q.ids <=> \/ r.op = "add" /\ u = r.tag
                            \/ Holds(r.side, r.item, u) /\ (r.op = "remove" => u # r.tag)
  /\ q.step = IF r.op = "drop class" THEN "drop" ELSE "look"

\* add, remove and drop class: nothing to do, or the tags to write in hand.
LEMMA IdsRead ==
  ASSUME TagTyped, NEW c \in TagClients, NEW r \in TagRecord, requests[c] = r, ReadImageTagIds(c)
  PROVE  /\ Reads /\ r.step = "ids" /\ r.op \in {"add", "remove", "drop class"} /\ r.doc = "map"
         /\ \/ Ends(c, TRUE)
            \/ /\ r.op = "add" => ~Holds(r.side, r.item, r.tag)
               /\ r.op = "remove" => Holds(r.side, r.item, r.tag)
               /\ \E q : Turns(c, q) /\ Informed(r, q)
  <1> DEFINE ids == IdsOf(r.side, r.item)
             new == CASE r.op = "add" -> ids \cup {r.tag}
                      [] r.op = "remove" -> ids \ {r.tag}
                      [] r.op = "drop class" -> ids
             step == IF r.op = "drop class" THEN "drop" ELSE "look"
             q == [r EXCEPT !.ids = new, !.seen = ids, !.step = step]
  <1>1. Reads /\ r.step = "ids"
    BY DEF ReadImageTagIds, At
  <1>2. Phase(r)
    BY DEF TagTyped
  <1>3. r.op \in {"add", "remove", "drop class"} /\ r.doc = "map" /\ r.side \in Sides
    BY <1>1, <1>2 DEF Phase, TagRecord, TagOps
  <1>4. \/ Ends(c, TRUE)
        \/ ~NothingToDo(r, ids) /\ Goes(c, q)
    BY DEF ReadImageTagIds
  <1>5. ids \subseteq made /\ made \subseteq TagIds /\ \A u : u \in ids <=> Holds(r.side, r.item, u)
    BY <1>3, ReadsOf DEF TagTyped
  <1> HIDE DEF ids
  <1>6. /\ r.op = "add" => new = ids \cup {r.tag}
        /\ r.op = "remove" => new = ids \ {r.tag}
        /\ r.op = "drop class" => new = ids
    BY <1>3
  <1>7. r.op \in {"add", "remove"} => r.tag \in made
    BY <1>2 DEF Phase
  <1>8. new \subseteq ids \cup {r.tag} /\ new \subseteq made /\ (r.op = "drop class" => new = ids)
    BY <1>3, <1>5, <1>6, <1>7
  <1> HIDE DEF new
  <1>9. step \in TagStepNames /\ new \in SUBSET TagIds /\ ids \in SUBSET TagIds
    BY <1>5, <1>8 DEF TagStepNames
  <1> HIDE DEF step
  <1>10. q \in TagRecord
    BY <1>9 DEF TagRecord
  <1>11. q.step = step /\ q.ids = new /\ q.seen = ids /\ q.tag = r.tag /\ q.item = r.item
         /\ q.doc = r.doc
    BY DEF TagRecord
  <1>12. Steady4(r, q)
    BY DEF TagRecord, Steady4, More, HasMoved
  <1>13. Alike(r, q)
    BY DEF TagRecord, Alike, Clashes
  <1> HIDE DEF q
  <1>14. step \in {"drop", "look"} /\ (r.op = "drop class" <=> step = "drop")
    BY DEF step
  <1>15. r.op = "drop class" => r.tag = Missing
    BY <1>1, <1>2, <1>3 DEF Phase
  <1>16. Missing \notin made
    BY <1>5, TagsAssumption
  <1>17. Phase(q)
    BY <1>2, <1>3, <1>5, <1>8, <1>11, <1>12, <1>13, <1>14, <1>15, <1>16 DEF Phase, Alike, Steady4
  <1>18. Informed(r, q)
    <2>1. \A u : u \in q.ids <=> \/ r.op = "add" /\ u = r.tag
                                 \/ Holds(r.side, r.item, u) /\ (r.op = "remove" => u # r.tag)
      BY <1>3, <1>5, <1>6, <1>11
    <2>2. \A u : u \in q.seen <=> Holds(r.side, r.item, u)
      BY <1>5, <1>11
    <2> QED
      BY <2>1, <2>2, <1>11, <1>12, <1>13 DEF Informed, step
  <1>19. ~NothingToDo(r, ids) =>
           /\ r.op = "add" => ~Holds(r.side, r.item, r.tag)
           /\ r.op = "remove" => Holds(r.side, r.item, r.tag)
    BY <1>5 DEF NothingToDo
  <1>20. Goes(c, q) => Turns(c, q)
    BY <1>10, <1>17, Zenon DEF Turns
  <1>21. CASE Ends(c, TRUE)
    BY ONLY <1>1, <1>3, <1>21
  <1>22. CASE ~NothingToDo(r, ids) /\ Goes(c, q)
    <2>1. \E k : Turns(c, k) /\ Informed(r, k)
      BY ONLY <1>18, <1>20, <1>22, Zenon
    <2>2. /\ r.op = "add" => ~Holds(r.side, r.item, r.tag)
          /\ r.op = "remove" => Holds(r.side, r.item, r.tag)
      BY ONLY <1>19, <1>22, Zenon
    <2> QED
      BY ONLY <1>1, <1>3, <2>1, <2>2, Zenon
  <1> QED
    BY ONLY <1>4, <1>21, <1>22

\* A document that is there is to be deleted, else it is to be put.
LEMMA DocumentLookedFor ==
  ASSUME TagTyped, NEW c \in TagClients, NEW r \in TagRecord, requests[c] = r, LookForDocument(c)
  PROVE  /\ Reads /\ r.step = "look"
         /\ \E q : /\ Turns(c, q) /\ Stepped(r, q) /\ q.doc = r.doc
                   /\ \/ Exists(r) /\ q.step = "drop"
                      \/ ~Exists(r) /\ q.step = "put"
  <1> DEFINE step == IF Exists(r) THEN "drop" ELSE "put"
             q == [r EXCEPT !.step = step]
  <1>1. Reads /\ r.step = "look" /\ Goes(c, q)
    BY DEF LookForDocument, At
  <1>2. Phase(r)
    BY DEF TagTyped
  <1>3. step \in TagStepNames /\ step \in {"drop", "put"}
    BY DEF TagStepNames
  <1>4. \/ Exists(r) /\ step = "drop"
        \/ ~Exists(r) /\ step = "put"
    <2>1. CASE Exists(r)
      BY <2>1
    <2>2. CASE ~Exists(r)
      BY <2>2
    <2> QED
      BY <2>1, <2>2
  <1> HIDE DEF step
  <1>5. q \in TagRecord /\ Stepped(r, q) /\ q.step = step /\ q.doc = r.doc
    BY <1>3, SteppedOn
  <1> HIDE DEF q
  <1>6. Phase(q)
    BY <1>1, <1>2, <1>3, <1>5 DEF Phase, Stepped, Alike, Steady4
  <1> QED
    BY <1>1, <1>4, <1>5, <1>6 DEF Turns

\* The document is gone, and is to be put again.
LEMMA DocumentDeleted ==
  ASSUME TagTyped, NEW c \in TagClients, NEW r \in TagRecord, requests[c] = r, DeleteDocument(c)
  PROVE  /\ r.step = "drop"
         /\ \E q : Turns(c, q) /\ Stepped(r, q) /\ q.doc = r.doc /\ q.step = "put"
         /\ tags' = IF r.doc = "tag" THEN tags \ {r.tag} ELSE tags
         /\ counts' = IF r.doc = "count" THEN [counts EXCEPT ![r.side][r.tag] = Missing] ELSE counts
         /\ maps' = IF r.doc = "map"
                   THEN [maps EXCEPT ![r.side] = AtPlaces(@, DOMAIN @ \ Place(r.side, r.item))]
                   ELSE maps
  <1> DEFINE q == [r EXCEPT !.step = "put"]
  <1>1. r.step = "drop" /\ Goes(c, q)
    BY DEF DeleteDocument, At
  <1>2. Phase(r)
    BY DEF TagTyped
  <1>3. "put" \in TagStepNames
    BY DEF TagStepNames
  <1>4. q \in TagRecord /\ Stepped(r, q) /\ q.step = "put" /\ q.doc = r.doc
    BY <1>3, SteppedOn
  <1>5. /\ tags' = IF r.doc = "tag" THEN tags \ {r.tag} ELSE tags
        /\ counts' = IF r.doc = "count" THEN [counts EXCEPT ![r.side][r.tag] = Missing] ELSE counts
        /\ maps' = IF r.doc = "map"
                   THEN [maps EXCEPT ![r.side] = AtPlaces(@, DOMAIN @ \ Place(r.side, r.item))]
                   ELSE maps
    BY DEF DeleteDocument
  <1> HIDE DEF q
  <1>6. Phase(q)
    BY <1>1, <1>2, <1>4 DEF Phase, Stepped, Alike, Steady4
  <1>7. Turns(c, q)
    BY <1>1, <1>4, <1>6 DEF Turns
  <1> QED
    BY <1>1, <1>4, <1>5, <1>7

\* The documents that carry the tag, in their order.
LEMMA CarriersOf ==
  ASSUME NEW r, NEW T, r.todo \in Seq(T)
  PROVE  LET left == Carriers(r)
         IN  /\ left \in Seq(T)
             /\ \A d : d \in Range(left) <=> d \in Range(r.todo) /\ r.tag \in d.ids
             /\ left = <<>> <=> \A d \in Range(r.todo) : r.tag \notin d.ids
             /\ left # <<>> =>
                  /\ Head(left) \in T /\ Tail(left) \in Seq(T)
                  /\ \A d : d \in Range(left) <=> d = Head(left) \/ d \in Range(Tail(left))
  <1> DEFINE places == {n \in DOMAIN r.todo : r.tag \in r.todo[n].ids}
             left == Carriers(r)
  <1>1. PICK todo \in Seq(T) : todo = r.todo
    OBVIOUS
  <1>2. places \subseteq DOMAIN todo /\ \A n : n \in places <=> n \in DOMAIN todo /\ r.tag \in todo[n].ids
    BY <1>1
  <1>3. left = AtPlaces(todo, places)
    BY <1>1 DEF Carriers
  <1> HIDE DEF places, left
  <1>4. left \in Seq(T) /\ Range(left) = {todo[n] : n \in places} /\ (left = <<>> <=> places = {})
    BY ONLY <1>2, <1>3, Filtered
  <1>5. \A d : d \in Range(todo) <=> \E n \in DOMAIN todo : d = todo[n]
    BY DEF Range
  <1>6. \A d : d \in Range(left) <=> d \in Range(todo) /\ r.tag \in d.ids
    <2>1. \A d : d \in Range(left) <=> \E n \in places : d = todo[n]
      BY ONLY <1>4
    <2> QED
      BY ONLY <1>2, <1>5, <2>1
  <1>7. places = {} <=> \A d \in Range(todo) : r.tag \notin d.ids
    BY ONLY <1>2, <1>5
  <1>8. ASSUME left # <<>>
        PROVE  /\ Head(left) \in T /\ Tail(left) \in Seq(T)
               /\ \A d : d \in Range(left) <=> d = Head(left) \/ d \in Range(Tail(left))
    <2>1. Len(left) \in Nat \ {0} /\ DOMAIN left = 1 .. Len(left) /\ Head(left) = left[1]
          /\ \A n \in 1 .. Len(left) : left[n] \in T
      BY ONLY <1>4, <1>8
    <2>2. /\ Tail(left) \in Seq(T) /\ DOMAIN Tail(left) = 1 .. Len(left) - 1
          /\ \A n \in 1 .. Len(left) - 1 : Tail(left)[n] = left[n + 1]
      BY ONLY <1>4, <1>8, <2>1
    <2>3. \A d : d \in Range(left) <=> \E n \in 1 .. Len(left) : d = left[n]
      BY <2>1 DEF Range
    <2>4. \A d : d \in Range(Tail(left)) <=> \E n \in 1 .. Len(left) - 1 : d = left[n + 1]
      BY <2>2 DEF Range
    <2>5. ASSUME NEW d, d \in Range(left)
          PROVE  d = Head(left) \/ d \in Range(Tail(left))
      <3>1. PICK n \in 1 .. Len(left) : d = left[n]
        BY <2>3, <2>5
      <3>2. n = 1 \/ (n - 1 \in 1 .. Len(left) - 1 /\ (n - 1) + 1 = n)
        BY <2>1
      <3> QED
        BY <2>1, <2>4, <3>1, <3>2
    <2>6. ASSUME NEW d, d = Head(left) \/ d \in Range(Tail(left))
          PROVE  d \in Range(left)
      <3>1. 1 \in 1 .. Len(left)
        BY <2>1
      <3>2. CASE d = Head(left)
        BY <2>1, <2>3, <3>1, <3>2
      <3>3. CASE d \in Range(Tail(left))
        <4>1. PICK n \in 1 .. Len(left) - 1 : d = left[n + 1]
          BY <2>4, <3>3
        <4>2. n + 1 \in 1 .. Len(left)
          BY <2>1
        <4> QED
          BY <2>3, <4>1, <4>2
      <3> QED
        BY <2>6, <3>2, <3>3
    <2>7. Head(left) \in T
      BY <2>1
    <2>8. \A d : d \in Range(left) <=> d = Head(left) \/ d \in Range(Tail(left))
      BY ONLY <2>5, <2>6
    <2> QED
      BY ONLY <2>2, <2>7, <2>8
  <1> QED
    BY <1>1, <1>4, <1>6, <1>7, <1>8 DEF left

\* What a deletion does next: another document, the next page, or nothing.
NextOne(r, q) ==
  /\ Alike(r, q) /\ q.tag = r.tag /\ q.n = r.n /\ q.offset = r.offset /\ (More(q) <=> More(r))
  /\ (HasMoved(q) <=> HasMoved(r) \/ More(r)) /\ q.step = "look" /\ q.doc = "map"
  /\ \E h \in Range(r.todo) :
       /\ r.tag \in h.ids /\ q.item = h.item /\ q.ids = h.ids \ {r.tag}
       /\ q.seen = r.seen \cup h.ids
       /\ Range(q.todo) \subseteq Range(r.todo)
       /\ \A d \in Range(r.todo) : r.tag \in d.ids => d = h \/ d \in Range(q.todo)
WentOn(c, r) ==
  \/ \E q : Turns(c, q) /\ NextOne(r, q)
  \/ /\ \A d \in Range(r.todo) : r.tag \notin d.ids
     /\ \/ More(r) /\ \E q : Turns(c, q) /\ Stepped(r, q) /\ q.doc = r.doc /\ q.step = "scan"
        \/ ~More(r) /\ Ends(c, TRUE)

\* What GoesOn makes of a deletion.
LEMMA WentOnHow ==
  ASSUME TagTyped, NEW c \in TagClients, NEW r \in TagRecord, Phase(r), r.op = "delete",
         r.doc # "tag", GoesOn(c, r)
  PROVE  WentOn(c, r)
  <1> DEFINE docs == Carriers(r)
             moved == r.moved \/ r.more
             q == [r EXCEPT !.step = "look", !.doc = "map", !.item = Head(docs).item,
                            !.ids = Head(docs).ids \ {r.tag}, !.seen = @ \cup Head(docs).ids,
                            !.todo = Tail(docs), !.moved = @ \/ r.more]
  <1>1. r.todo \in Seq(TagDocs(r.side)) /\ r.side \in Sides
    BY DEF Phase, TagRecord
  <1>2. /\ docs \in Seq(TagDocs(r.side))
        /\ \A d : d \in Range(docs) <=> d \in Range(r.todo) /\ r.tag \in d.ids
        /\ docs = <<>> <=> \A d \in Range(r.todo) : r.tag \notin d.ids
        /\ docs # <<>> =>
             /\ Head(docs) \in TagDocs(r.side) /\ Tail(docs) \in Seq(TagDocs(r.side))
             /\ \A d : d \in Range(docs) <=> d = Head(docs) \/ d \in Range(Tail(docs))
    BY <1>1, CarriersOf
  <1>3. CASE docs # <<>>
    <2>1. Goes(c, q)
      BY <1>3, Zenon DEF GoesOn
    <2>2. PICK h, tl : h = Head(docs) /\ tl = Tail(docs)
      OBVIOUS
    <2>3. q = [r EXCEPT !.step = "look", !.doc = "map", !.item = h.item,
                        !.ids = h.ids \ {r.tag}, !.seen = r.seen \cup h.ids,
                        !.todo = tl, !.moved = moved]
      BY ONLY <2>2, Zenon DEF moved, q
    <2>4. /\ h \in TagDocs(r.side) /\ tl \in Seq(TagDocs(r.side))
          /\ \A d : d = h \/ d \in Range(tl) <=> d \in Range(r.todo) /\ r.tag \in d.ids
      BY <1>2, <1>3, <2>2
    <2>5. moved \in BOOLEAN
      BY DEF TagRecord
    <2>6. (moved = TRUE) <=> HasMoved(r) \/ More(r)
      BY DEF TagRecord, HasMoved, More
    <2> HIDE DEF moved, docs, q
    <2>7. h.item \in Items(r.side) /\ h.ids \subseteq made /\ made \subseteq TagIds
          /\ Items(r.side) \subseteq Images \cup Classes
      BY <2>4 DEF TagDocs, Items, TagTyped
    <2>8. tl \in Seq([item : Images \cup Classes, ids : SUBSET TagIds])
      <3>1. TagDocs(r.side) \subseteq [item : Images \cup Classes, ids : SUBSET TagIds]
        BY <2>7 DEF TagDocs
      <3> QED
        BY ONLY <2>4, <3>1, LargerSeq
    <2>9. q \in TagRecord
      BY ONLY <2>3, <2>5, <2>7, <2>8, r \in TagRecord DEF TagRecord, TagStepNames
    <2>10. /\ q.op = r.op /\ q.side = r.side /\ q.tag = r.tag /\ q.n = r.n /\ q.offset = r.offset
           /\ q.step = "look" /\ q.doc = "map" /\ q.item = h.item
           /\ q.ids = h.ids \ {r.tag} /\ q.seen = r.seen \cup h.ids /\ q.todo = tl
      BY ONLY <2>3, r \in TagRecord DEF TagRecord
    <2>11. (Clashes(q) <=> Clashes(r)) /\ (More(q) <=> More(r))
      BY ONLY <2>3, r \in TagRecord DEF TagRecord, Clashes, More
    <2>12. HasMoved(q) <=> HasMoved(r) \/ More(r)
      <3>1. q.moved = moved
        BY ONLY <2>3, r \in TagRecord DEF TagRecord
      <3> QED
        BY ONLY <2>6, <3>1 DEF HasMoved
    <2>13. Phase(q)
      BY ONLY <2>4, <2>7, <2>10, Phase(r), r.op = "delete" DEF Phase
    <2>14. NextOne(r, q)
      <3>1. Alike(r, q)
        BY ONLY <2>10, <2>11 DEF Alike
      <3>2. h \in Range(r.todo) /\ r.tag \in h.ids /\ Range(q.todo) \subseteq Range(r.todo)
            /\ \A d \in Range(r.todo) : r.tag \in d.ids => d = h \/ d \in Range(q.todo)
        BY ONLY <2>4, <2>10
      <3> QED
        BY ONLY <2>10, <2>11, <2>12, <3>1, <3>2 DEF NextOne
    <2>15. Turns(c, q)
      BY ONLY <2>1, <2>9, <2>13 DEF Turns
    <2> QED
      BY ONLY <2>14, <2>15 DEF WentOn
  <1>4. CASE docs = <<>>
    <2>1. \A d \in Range(r.todo) : r.tag \notin d.ids
      BY <1>2, <1>4
    <2>2. CASE More(r)
      <3> DEFINE k == [r EXCEPT !.step = "scan"]
      <3>1. r.more = TRUE
        BY <2>2 DEF More
      <3>2. Goes(c, k)
        BY <1>4, <3>1, Zenon DEF GoesOn
      <3>3. "scan" \in TagStepNames
        BY DEF TagStepNames
      <3>4. k \in TagRecord /\ Stepped(r, k) /\ k.step = "scan" /\ k.doc = r.doc
        BY <3>3, SteppedOn
      <3> HIDE DEF k, docs
      <3>5. Phase(k)
        BY ONLY <3>4, Phase(r), r.op = "delete", r.doc # "tag" DEF Phase, Stepped, Alike, Steady4
      <3>6. Turns(c, k)
        BY ONLY <3>2, <3>4, <3>5 DEF Turns
      <3> QED
        BY ONLY <2>1, <2>2, <3>4, <3>6 DEF WentOn
    <2>3. CASE ~More(r)
      <3>1. ~ r.more
        BY <2>3 DEF More, TagRecord
      <3>2. Ends(c, TRUE)
        BY <1>4, <3>1, Zenon DEF GoesOn
      <3> QED
        BY ONLY <2>1, <2>3, <3>2 DEF WentOn
    <2> QED
      BY <2>2, <2>3
  <1> QED
    BY <1>3, <1>4

\* The next tag whose count is lowered.
NextTag(r, q) ==
  /\ Alike(r, q) /\ Steady4(r, q) /\ q.item = r.item /\ q.doc = r.doc /\ q.seen = r.seen
  /\ q.tag \in r.ids /\ q.ids = r.ids \ {q.tag} /\ q.step = "check"
Lowered(c, r) ==
  \/ r.ids = {} /\ Ends(c, TRUE)
  \/ \E q : Turns(c, q) /\ NextTag(r, q)

\* What LowersNext makes of a dropped class.
LEMMA LoweredHow ==
  ASSUME TagTyped, NEW c \in TagClients, NEW r \in TagRecord, Phase(r), r.op = "drop class",
         r.step # "ids", LowersNext(c, r)
  PROVE  Lowered(c, r)
  <1>1. CASE r.ids = {}
    BY <1>1 DEF LowersNext, Lowered
  <1>2. CASE r.ids # {}
    <2>1. PICK t \in r.ids : Goes(c, [r EXCEPT !.step = "check", !.tag = t, !.ids = @ \ {t}])
      BY <1>2 DEF LowersNext
    <2> DEFINE q == [r EXCEPT !.step = "check", !.tag = t, !.ids = @ \ {t}]
    <2>2. q \in TagRecord
      BY DEF TagRecord, TagStepNames
    <2>3. q.tag = t /\ q.step = "check" /\ q.doc = r.doc /\ q.item = r.item
          /\ q.ids = r.ids \ {t} /\ q.seen = r.seen
      BY DEF TagRecord
    <2>4. Steady4(r, q)
      BY DEF TagRecord, Steady4, More, HasMoved
    <2>5. Alike(r, q)
      BY DEF TagRecord, Alike, Clashes
    <2> HIDE DEF q
    <2>6. Phase(q)
      BY ONLY <2>3, <2>4, <2>5, t \in r.ids, Phase(r), r.op = "drop class"
      DEF Phase, Alike, Steady4
    <2>7. Turns(c, q)
      BY <2>1, <2>2, <2>6 DEF Turns, q
    <2>8. NextTag(r, q)
      BY ONLY <2>3, <2>4, <2>5, t \in r.ids DEF NextTag
    <2> QED
      BY ONLY <2>7, <2>8 DEF Lowered
  <1> QED
    BY <1>1, <1>2

\* What follows a document that was replaced.
Followed(c, r) ==
  \/ r.op \in {"create", "update"} /\ Ends(c, TRUE)
  \/ /\ r.op = "delete" /\ r.doc = "tag"
     /\ \E q : Turns(c, q) /\ Stepped(r, q) /\ q.doc = "count" /\ q.step = "look"
  \/ /\ r.op = "delete" /\ r.doc = "count"
     /\ \E q : Turns(c, q) /\ Stepped(r, q) /\ q.doc = r.doc /\ q.step = "scan"
  \/ r.op = "delete" /\ r.doc = "map" /\ WentOn(c, r)
  \/ /\ r.op \in {"add", "remove"} /\ r.doc = "map"
     /\ \E q : Turns(c, q) /\ Stepped(r, q) /\ q.doc = r.doc /\ q.step = "check"
  \/ r.op \in {"add", "remove"} /\ r.doc = "count" /\ Ends(c, TRUE)
  \/ r.op = "drop class" /\ Lowered(c, r)

\* What follows a document, by the kind of request.
LEMMA FollowedHow ==
  ASSUME TagTyped, NEW c \in TagClients, NEW r \in TagRecord, Phase(r), r.step = "put", Follows(c, r)
  PROVE  Followed(c, r)
  <1>0. {"look", "scan", "check", "count"} \subseteq TagStepNames /\ r.doc \in {"tag", "count", "map"}
    BY DEF TagStepNames, TagRecord
  <1>1. CASE r.op \in {"create", "update"} /\ Ends(c, TRUE)
    BY ONLY <1>1 DEF Followed
  <1>2. CASE r.op = "delete" /\ r.doc = "tag" /\ Goes(c, [r EXCEPT !.step = "look", !.doc = "count"])
    <2> DEFINE q == [r EXCEPT !.step = "look", !.doc = "count"]
    <2>1. q \in TagRecord /\ Stepped(r, q) /\ q.step = "look" /\ q.doc = "count"
      BY <1>0, SteppedBy
    <2>2. Goes(c, q)
      BY <1>2
    <2> HIDE DEF q
    <2>3. Phase(q)
      BY ONLY <1>2, <2>1, Phase(r) DEF Phase, Stepped, Alike, Steady4
    <2>4. Turns(c, q)
      BY ONLY <2>1, <2>2, <2>3 DEF Turns
    <2> QED
      BY ONLY <1>2, <2>1, <2>4 DEF Followed
  <1>3. CASE r.op = "delete" /\ r.doc = "count" /\ Goes(c, [r EXCEPT !.step = "scan"])
    <2> DEFINE q == [r EXCEPT !.step = "scan"]
    <2>1. q \in TagRecord /\ Stepped(r, q) /\ q.step = "scan" /\ q.doc = r.doc
      BY <1>0, SteppedOn
    <2>2. Goes(c, q)
      BY <1>3
    <2> HIDE DEF q
    <2>3. Phase(q)
      BY ONLY <1>3, <2>1, Phase(r) DEF Phase, Stepped, Alike, Steady4
    <2>4. Turns(c, q)
      BY ONLY <2>1, <2>2, <2>3 DEF Turns
    <2> QED
      BY ONLY <1>3, <2>1, <2>4 DEF Followed
  <1>4. CASE r.op = "delete" /\ r.doc = "map" /\ GoesOn(c, r)
    <2>1. WentOn(c, r)
      BY <1>4, WentOnHow
    <2> QED
      BY ONLY <1>4, <2>1 DEF Followed
  <1>5. CASE r.op \in {"add", "remove"} /\ r.doc = "map" /\ Goes(c, [r EXCEPT !.step = "check"])
    <2> DEFINE q == [r EXCEPT !.step = "check"]
    <2>1. q \in TagRecord /\ Stepped(r, q) /\ q.step = "check" /\ q.doc = r.doc
      BY <1>0, SteppedOn
    <2>2. Goes(c, q)
      BY <1>5
    <2> HIDE DEF q
    <2>3. Phase(q)
      BY ONLY <1>5, <2>1, Phase(r) DEF Phase, Stepped, Alike, Steady4
    <2>4. Turns(c, q)
      BY ONLY <2>1, <2>2, <2>3 DEF Turns
    <2> QED
      BY ONLY <1>5, <2>1, <2>4 DEF Followed
  <1>6. CASE r.op \in {"add", "remove"} /\ r.doc = "count" /\ Ends(c, TRUE)
    BY ONLY <1>6 DEF Followed
  <1>7. CASE r.op = "drop class" /\ LowersNext(c, r)
    <2>1. Lowered(c, r)
      BY <1>7, LoweredHow
    <2> QED
      BY ONLY <1>7, <2>1 DEF Followed
  <1> QED
    BY ONLY <1>1, <1>2, <1>3, <1>4, <1>5, <1>6, <1>7, Follows(c, r), Zenon DEF Follows

\* An id that is there is refused; nothing to write; or the document is put.
LEMMA DocumentAdded ==
  ASSUME TagTyped, NEW c \in TagClients, NEW r \in TagRecord, requests[c] = r, AddDocument(c)
  PROVE  /\ r.step = "put"
         /\ \/ Writes(r) /\ Exists(r) /\ Reads /\ Ends(c, FALSE)
            \/ ~Writes(r) /\ Reads /\ Followed(c, r)
            \/ /\ Writes(r) /\ ~Exists(r) /\ Followed(c, r)
               /\ tags' = IF r.doc = "tag" THEN tags \cup {r.tag} ELSE tags
               /\ counts' = IF r.doc = "count" THEN [counts EXCEPT ![r.side][r.tag] = r.n] ELSE counts
               /\ maps' = IF r.doc = "map"
                          THEN [maps EXCEPT ![r.side] = Append(@, [item |-> r.item, ids |-> r.ids])]
                          ELSE maps
  <1>1. /\ r.step = "put"
        /\ \/ Writes(r) /\ Exists(r) /\ Reads /\ Ends(c, FALSE)
           \/ ~Writes(r) /\ Reads /\ Follows(c, r)
           \/ /\ Writes(r) /\ ~Exists(r) /\ Follows(c, r)
              /\ tags' = IF r.doc = "tag" THEN tags \cup {r.tag} ELSE tags
              /\ counts' = IF r.doc = "count" THEN [counts EXCEPT ![r.side][r.tag] = r.n] ELSE counts
              /\ maps' = IF r.doc = "map"
                         THEN [maps EXCEPT ![r.side] = Append(@, [item |-> r.item, ids |-> r.ids])]
                         ELSE maps
    BY Zenon DEF AddDocument, At
  <1>2. Phase(r)
    BY DEF TagTyped
  <1>3. Follows(c, r) => Followed(c, r)
    BY <1>1, <1>2, FollowedHow
  <1> QED
    BY ONLY <1>1, <1>3, Zenon

\* The tag is there and its count is read next, or it is not.
LEMMA TagChecked ==
  ASSUME TagTyped, NEW c \in TagClients, NEW r \in TagRecord, requests[c] = r, CheckTag(c)
  PROVE  /\ Reads /\ r.step = "check" /\ r.op \in {"add", "remove", "drop class"}
         /\ \/ /\ r.tag \in tags
               /\ \E q : Turns(c, q) /\ Stepped(r, q) /\ q.doc = r.doc /\ q.step = "count"
            \/ r.tag \notin tags /\ r.op = "drop class" /\ Lowered(c, r)
            \/ r.tag \notin tags /\ r.op # "drop class" /\ Ends(c, FALSE)
  <1> DEFINE q == [r EXCEPT !.step = "count"]
  <1>1. /\ Reads /\ r.step = "check"
        /\ \/ r.tag \in tags /\ Goes(c, q)
           \/ r.tag \notin tags /\ r.op = "drop class" /\ LowersNext(c, r)
           \/ r.tag \notin tags /\ r.op # "drop class" /\ Ends(c, FALSE)
    BY DEF CheckTag, At
  <1>2. Phase(r)
    BY DEF TagTyped
  <1>3. r.op \in {"add", "remove", "drop class"}
    BY <1>1, <1>2 DEF Phase, TagRecord, TagOps
  <1>4. "count" \in TagStepNames
    BY DEF TagStepNames
  <1>5. q \in TagRecord /\ Stepped(r, q) /\ q.step = "count" /\ q.doc = r.doc
    BY <1>4, SteppedOn
  <1> HIDE DEF q
  <1>6. Phase(q)
    BY ONLY <1>1, <1>2, <1>3, <1>5 DEF Phase, Stepped, Alike, Steady4
  <1>7. Goes(c, q) => Turns(c, q)
    BY ONLY <1>5, <1>6 DEF Turns
  <1>8. r.op = "drop class" /\ LowersNext(c, r) => Lowered(c, r)
    BY <1>1, <1>2, LoweredHow
  <1> QED
    BY ONLY <1>1, <1>3, <1>5, <1>7, <1>8, Zenon

\* The count the request will write.
Counted(r, q) ==
  /\ Alike(r, q) /\ q.tag = r.tag /\ q.item = r.item /\ q.ids = r.ids /\ q.seen = r.seen
  /\ q.todo = r.todo /\ q.step = "look" /\ q.doc = "count"
  /\ r.op = "add" => q.n = Count(r.side, r.tag) + 1
  /\ r.op # "add" /\ Count(r.side, r.tag) > 0 => q.n = Count(r.side, r.tag) - 1

LEMMA CountTyped ==
  ASSUME TagTyped, NEW s \in Sides, NEW t \in TagIds
  PROVE  /\ Count(s, t) \in Nat /\ counts[s][t] \in Nat \cup {Missing}
         /\ counts[s][t] = Missing => Count(s, t) = 0
         /\ counts[s][t] # Missing => Count(s, t) = counts[s][t]
  BY DEF TagTyped, Count

\* The new count is in hand.
LEMMA CountRead ==
  ASSUME TagTyped, NEW c \in TagClients, NEW r \in TagRecord, requests[c] = r, ReadTagCount(c)
  PROVE  /\ Reads /\ r.step = "count" /\ r.op \in {"add", "remove", "drop class"}
         /\ \E q : Turns(c, q) /\ Counted(r, q)
  <1> DEFINE now == Count(r.side, r.tag)
             new == IF r.op = "add" THEN now + 1 ELSE IF now > 0 THEN now - 1 ELSE 0
             q == [r EXCEPT !.step = "look", !.doc = "count", !.n = new]
  <1>1. Reads /\ r.step = "count" /\ Goes(c, q)
    BY DEF ReadTagCount, At
  <1>2. Phase(r)
    BY DEF TagTyped
  <1>3. r.op \in {"add", "remove", "drop class"} /\ r.side \in Sides /\ r.tag \in TagIds
    BY <1>1, <1>2 DEF Phase, TagRecord, TagOps, TagTyped
  <1>4. now \in Nat
    BY <1>3, CountTyped
  <1> HIDE DEF now
  <1>5. /\ new \in Nat /\ (r.op = "add" => new = now + 1)
        /\ (r.op # "add" /\ now > 0 => new = now - 1)
    BY <1>4
  <1> HIDE DEF new
  <1>6. q \in TagRecord
    BY <1>5 DEF TagRecord, TagStepNames
  <1>7. /\ q.tag = r.tag /\ q.item = r.item /\ q.ids = r.ids /\ q.seen = r.seen
        /\ q.todo = r.todo /\ q.step = "look" /\ q.doc = "count" /\ q.n = new
    BY DEF TagRecord
  <1>8. Alike(r, q)
    BY DEF TagRecord, Alike, Clashes
  <1> HIDE DEF q
  <1>9. Phase(q)
    BY ONLY <1>1, <1>2, <1>3, <1>7, <1>8 DEF Phase, Alike
  <1>10. Counted(r, q)
    BY <1>5, <1>7, <1>8 DEF Counted, now
  <1>11. Turns(c, q)
    BY ONLY <1>1, <1>6, <1>9 DEF Turns
  <1> QED
    BY ONLY <1>1, <1>3, <1>10, <1>11

\* A page of documents: those behind the offset, all of them if no more follow.
LEMMA PageOf ==
  ASSUME TagTyped, NEW s \in Sides, NEW offset \in Nat
  PROVE  LET page == ScanDocuments(s, offset)
         IN  /\ page.docs \in Seq(TagDocs(s)) /\ Range(page.docs) \subseteq Range(maps[s])
             /\ page.more \in BOOLEAN /\ Len(page.docs) \in Nat
             /\ page.more = TRUE => Len(page.docs) = PageSize
             /\ \A p \in DOMAIN maps[s] :
                  offset < p /\ (p <= offset + Len(page.docs) \/ page.more # TRUE)
                    => maps[s][p] \in Range(page.docs)
             /\ \A p \in DOMAIN maps[s] :
                  offset < p /\ p <= offset + PageSize => maps[s][p] \in Range(page.docs)
  <1> DEFINE rest == SubSeq(maps[s], offset + 1, Len(maps[s]))
             size == IF Len(rest) < PageSize THEN Len(rest) ELSE PageSize
             docs == SubSeq(rest, 1, size)
             page == ScanDocuments(s, offset)
  <1>1. page.docs = docs /\ page.more = (Len(rest) > PageSize)
    BY DEF ScanDocuments
  <1>2. PICK m \in Seq(TagDocs(s)) : m = maps[s]
    BY MapsTyped
  <1>3. Len(m) \in Nat /\ DOMAIN m = 1 .. Len(m) /\ PageSize \in Nat \ {0}
    BY TagsAssumption
  <1>4. rest \in Seq(TagDocs(s)) /\ Len(rest) \in Nat
        /\ (offset < Len(m) => Len(rest) = Len(m) - offset)
        /\ (~(offset < Len(m)) => Len(rest) = 0)
        /\ \A k \in 1 .. Len(rest) : rest[k] = m[offset + k]
    BY <1>2, <1>3
  <1> HIDE DEF rest
  <1>5. size \in Nat /\ size <= Len(rest) /\ size <= PageSize
        /\ (Len(rest) > PageSize => size = PageSize) /\ (~(Len(rest) > PageSize) => size = Len(rest))
    <2>1. size = Len(rest) \/ size = PageSize
      BY ONLY TRUE
    <2>2. Len(rest) < PageSize => size = Len(rest)
      BY ONLY TRUE
    <2>3. ~(Len(rest) < PageSize) => size = PageSize
      BY ONLY TRUE
    <2> HIDE DEF size
    <2>4. PICK n \in Nat : n = Len(rest)
      BY ONLY <1>4
    <2> QED
      BY ONLY <1>3, <2>1, <2>2, <2>3, <2>4
  <1> HIDE DEF size
  <1>6. docs \in Seq(TagDocs(s)) /\ Len(docs) = size /\ DOMAIN docs = 1 .. size
        /\ \A k \in 1 .. size : docs[k] = rest[k]
    BY ONLY <1>4, <1>5 DEF docs
  <1> HIDE DEF docs
  <1> DEFINE long == Len(m)  left == Len(rest)
  <1>11. /\ long \in Nat /\ left \in Nat /\ size \in Nat /\ PageSize \in Nat /\ offset \in Nat
         /\ (offset < long => left = long - offset) /\ (~(offset < long) => left = 0)
         /\ size <= left /\ size <= PageSize
         /\ (left > PageSize => size = PageSize) /\ (~(left > PageSize) => size = left)
    BY ONLY <1>3, <1>4, <1>5, offset \in Nat
  <1>12. DOMAIN m = 1 .. long /\ \A k \in 1 .. left : rest[k] = m[offset + k]
    BY ONLY <1>3, <1>4
  <1> HIDE DEF long, left
  <1>7. ASSUME NEW p \in 1 .. long, offset < p, p <= offset + size
        PROVE  m[p] \in Range(docs)
    <2>1. p - offset \in 1 .. size /\ offset + (p - offset) = p /\ p - offset \in 1 .. left
      BY ONLY <1>11, <1>7, p \in 1 .. long
    <2>2. docs[p - offset] = m[p]
      BY ONLY <1>12, <1>6, <2>1
    <2> QED
      BY ONLY <1>6, <2>1, <2>2 DEF Range
  <1>8. ASSUME NEW p \in 1 .. long, offset < p, ~(left > PageSize) \/ p <= offset + PageSize
        PROVE  p <= offset + size
    BY ONLY <1>11, <1>8, p \in 1 .. long
  <1>9. Range(docs) \subseteq Range(m)
    <2>1. ASSUME NEW k \in 1 .. size
          PROVE  offset + k \in 1 .. long /\ docs[k] = m[offset + k]
      <3>1. k \in 1 .. left /\ offset + k \in 1 .. long
        BY ONLY <1>11, k \in 1 .. size
      <3> QED
        BY ONLY <1>6, <1>12, <3>1, k \in 1 .. size
    <2>2. Range(docs) = {docs[k] : k \in 1 .. size} /\ Range(m) = {m[p] : p \in 1 .. long}
      BY ONLY <1>6, <1>12 DEF Range
    <2> QED
      BY ONLY <2>1, <2>2
  <1>10. page.more \in BOOLEAN /\ (page.more = TRUE <=> left > PageSize)
    <2>1. page.more = (left > PageSize)
      BY ONLY <1>1 DEF left
    <2>2. (left > PageSize) \in BOOLEAN
      BY ONLY <1>11
    <2> HIDE DEF page
    <2> QED
      BY ONLY <2>1, <2>2
  <1> HIDE DEF page
  <1> QED
    BY ONLY <1>1, <1>2, <1>6, <1>7, <1>8, <1>9, <1>10, <1>11, <1>12 DEF page

\* The page is read: its documents are what is still to do.
Paged(c, r, k, page) ==
  /\ Alike(r, k) /\ (HasMoved(k) <=> HasMoved(r))
  /\ k.tag = r.tag /\ k.item = r.item /\ k.ids = r.ids /\ k.seen = r.seen /\ k.doc = r.doc
  /\ k.step = r.step /\ k.offset \in Nat /\ page \subseteq Range(maps[r.side])
  /\ \/ /\ r.side = "class" /\ (More(k) <=> More(r)) /\ Range(k.todo) = Range(r.todo) \cup page
        /\ \/ /\ Turns(c, k)
              /\ \A p \in DOMAIN maps[r.side] :
                   r.offset < p /\ p <= k.offset => maps[r.side][p] \in page
           \/ /\ WentOn(c, k)
              /\ \A p \in DOMAIN maps[r.side] : r.offset < p => maps[r.side][p] \in page
     \/ /\ r.side # "class" /\ Range(k.todo) = page /\ WentOn(c, k)
        /\ \A p \in DOMAIN maps[r.side] :
             r.offset < p /\ (p <= k.offset \/ ~More(k)) => maps[r.side][p] \in page

\* A page goes to the deletion, which goes on with it or asks for the next.
LEMMA PageScanned ==
  ASSUME TagTyped, NEW c \in TagClients, NEW r \in TagRecord, requests[c] = r, ScanPage(c)
  PROVE  /\ Reads /\ r.step = "scan" /\ r.op = "delete" /\ r.doc # "tag"
         /\ \E k \in TagRecord : \E page : Phase(k) /\ Paged(c, r, k, page)
  <1> DEFINE scan == ScanDocuments(r.side, r.offset)
  <1>1. /\ Reads /\ r.step = "scan"
        /\ \/ /\ r.side = "class"
              /\ LET all == [r EXCEPT !.todo = @ \o scan.docs, !.offset = @ + Len(scan.docs)]
                 IN  IF scan.more THEN Goes(c, all) ELSE GoesOn(c, all)
           \/ /\ r.side # "class"
              /\ GoesOn(c, [r EXCEPT !.todo = scan.docs, !.offset = @ + PageSize, !.more = scan.more])
    BY Zenon DEF ScanPage, At
  <1>2. Phase(r)
    BY DEF TagTyped
  <1>3. r.op = "delete" /\ r.doc # "tag" /\ r.side \in Sides /\ r.offset \in Nat
    BY <1>1, <1>2 DEF Phase, TagRecord, TagOps
  <1>4. /\ scan.docs \in Seq(TagDocs(r.side)) /\ Range(scan.docs) \subseteq Range(maps[r.side])
        /\ scan.more \in BOOLEAN /\ Len(scan.docs) \in Nat
        /\ \A p \in DOMAIN maps[r.side] :
             r.offset < p /\ (p <= r.offset + Len(scan.docs) \/ scan.more # TRUE)
               => maps[r.side][p] \in Range(scan.docs)
        /\ \A p \in DOMAIN maps[r.side] :
             r.offset < p /\ p <= r.offset + PageSize => maps[r.side][p] \in Range(scan.docs)
    BY <1>3, PageOf
  <1>5. PICK docs, more : docs = scan.docs /\ more = scan.more
    OBVIOUS
  <1> HIDE DEF scan
  <1>6. /\ docs \in Seq(TagDocs(r.side)) /\ r.todo \in Seq(TagDocs(r.side))
        /\ TagDocs(r.side) \subseteq [item : Images \cup Classes, ids : SUBSET TagIds]
        /\ more \in BOOLEAN /\ Len(docs) \in Nat /\ PageSize \in Nat
    <2>1. TagDocs(r.side) \subseteq [item : Images \cup Classes, ids : SUBSET TagIds]
      BY DEF TagDocs, Items, TagTyped
    <2> QED
      BY ONLY <1>2, <1>4, <1>5, <2>1, TagsAssumption DEF Phase
  <1>7. docs \in Seq([item : Images \cup Classes, ids : SUBSET TagIds])
    BY ONLY <1>6, LargerSeq
  <1>8. CASE r.side = "class"
    <2> DEFINE todo == r.todo \o docs
               offset == r.offset + Len(docs)
               k == [r EXCEPT !.todo = todo, !.offset = offset]
    <2>1. IF more THEN Goes(c, k) ELSE GoesOn(c, k)
      BY ONLY <1>1, <1>5, <1>8, Zenon
    <2>2. /\ todo \in Seq(TagDocs(r.side)) /\ offset \in Nat
          /\ todo \in Seq([item : Images \cup Classes, ids : SUBSET TagIds])
      BY ONLY <1>3, <1>6, <1>7, r \in TagRecord DEF TagRecord
    <2>3. Range(todo) = Range(r.todo) \cup Range(docs)
      <3>1. PICK s1, s2 \in Seq(TagDocs(r.side)) : s1 = r.todo /\ s2 = docs
        BY <1>6
      <3>2. Range(s1 \o s2) = Range(s1) \cup Range(s2)
        <4>1. /\ DOMAIN s1 = 1 .. Len(s1) /\ DOMAIN s2 = 1 .. Len(s2) /\ Len(s1) \in Nat /\ Len(s2) \in Nat
              /\ DOMAIN (s1 \o s2) = 1 .. Len(s1) + Len(s2)
              /\ \A n \in 1 .. Len(s1) : (s1 \o s2)[n] = s1[n]
              /\ \A n \in 1 .. Len(s2) : (s1 \o s2)[Len(s1) + n] = s2[n]
          BY ONLY s1 \in Seq(TagDocs(r.side)), s2 \in Seq(TagDocs(r.side))
        <4> DEFINE a == Len(s1)  b == Len(s2)  both == s1 \o s2
        <4>2. a \in Nat /\ b \in Nat
          BY ONLY <4>1
        <4>3. /\ \A n \in 1 .. a : both[n] = s1[n]
              /\ \A n \in 1 .. b : both[a + n] = s2[n]
          BY ONLY <4>1
        <4>4. /\ \A d : d \in Range(both) <=> \E n \in 1 .. a + b : d = both[n]
              /\ \A d : d \in Range(s1) <=> \E n \in 1 .. a : d = s1[n]
              /\ \A d : d \in Range(s2) <=> \E n \in 1 .. b : d = s2[n]
          BY ONLY <4>1 DEF Range
        <4> HIDE DEF a, b, both
        <4>5. ASSUME NEW d, d \in Range(both)
              PROVE  d \in Range(s1) \cup Range(s2)
          <5>1. PICK n \in 1 .. a + b : d = both[n]
            BY ONLY <4>4, <4>5
          <5>2. n \in 1 .. a \/ (n - a \in 1 .. b /\ a + (n - a) = n)
            BY ONLY <4>2, n \in 1 .. a + b
          <5>3. CASE n \in 1 .. a
            BY ONLY <4>3, <4>4, <5>1, <5>3
          <5>4. CASE n - a \in 1 .. b /\ a + (n - a) = n
            <6>1. both[n] = s2[n - a]
              BY ONLY <4>3, <5>4
            <6> QED
              BY ONLY <4>4, <5>1, <5>4, <6>1
          <5> QED
            BY <5>2, <5>3, <5>4
        <4>6. ASSUME NEW d, d \in Range(s1) \cup Range(s2)
              PROVE  d \in Range(both)
          <5>1. \A n \in 1 .. a : n \in 1 .. a + b
            BY ONLY <4>2
          <5>2. \A n \in 1 .. b : a + n \in 1 .. a + b
            BY ONLY <4>2
          <5> QED
            BY ONLY <4>3, <4>4, <4>6, <5>1, <5>2
        <4> QED
          BY ONLY <4>5, <4>6 DEF both
      <3> QED
        BY ONLY <3>1, <3>2
    <2> HIDE DEF todo, offset
    <2>4. k \in TagRecord
      BY ONLY <2>2, r \in TagRecord DEF TagRecord
    <2>5. /\ k.tag = r.tag /\ k.item = r.item /\ k.ids = r.ids /\ k.seen = r.seen /\ k.doc = r.doc
          /\ k.step = r.step /\ k.offset = offset /\ k.todo = todo
      BY ONLY r \in TagRecord DEF TagRecord
    <2>6. Alike(r, k) /\ (HasMoved(k) <=> HasMoved(r)) /\ (More(k) <=> More(r))
      <3>1. Alike(r, k)
        BY ONLY r \in TagRecord DEF TagRecord, Alike, Clashes
      <3>2. (HasMoved(k) <=> HasMoved(r)) /\ (More(k) <=> More(r))
        BY ONLY r \in TagRecord DEF TagRecord, HasMoved, More
      <3> QED
        BY <3>1, <3>2
    <2> HIDE DEF k
    <2>7. Phase(k)
      BY ONLY <1>2, <1>3, <2>2, <2>5, <2>6 DEF Phase, Alike
    <2>8. CASE more = TRUE
      <3>1. Goes(c, k)
        BY ONLY <2>1, <2>8, Zenon
      <3>2. Turns(c, k)
        BY ONLY <2>4, <2>7, <3>1 DEF Turns
      <3>3. \A p \in DOMAIN maps[r.side] :
                   r.offset < p /\ p <= k.offset => maps[r.side][p] \in Range(docs)
        BY ONLY <1>4, <1>5, <2>5 DEF offset
      <3>4. Paged(c, r, k, Range(docs))
        BY ONLY <1>4, <1>5, <1>8, <2>2, <2>3, <2>5, <2>6, <3>2, <3>3 DEF Paged
      <3> QED
        BY ONLY <1>1, <1>3, <2>4, <2>7, <3>4
    <2>9. CASE more # TRUE
      <3>1. GoesOn(c, k)
        BY ONLY <1>6, <2>1, <2>9, Zenon
      <3>2. WentOn(c, k)
        <4>1. k.op = "delete" /\ k.doc # "tag"
          BY ONLY <1>3, <2>5, <2>6 DEF Alike
        <4> QED
          BY <2>4, <2>7, <3>1, <4>1, WentOnHow
      <3>3. \A p \in DOMAIN maps[r.side] : r.offset < p => maps[r.side][p] \in Range(docs)
        BY ONLY <1>4, <1>5, <2>9
      <3>4. Paged(c, r, k, Range(docs))
        BY ONLY <1>4, <1>5, <1>8, <2>2, <2>3, <2>5, <2>6, <3>2, <3>3 DEF Paged
      <3> QED
        BY ONLY <1>1, <1>3, <2>4, <2>7, <3>4
    <2> QED
      BY <2>8, <2>9
  <1>9. CASE r.side # "class"
    <2> DEFINE offset == r.offset + PageSize
               k == [r EXCEPT !.todo = docs, !.offset = offset, !.more = more]
    <2>1. GoesOn(c, k)
      BY ONLY <1>1, <1>5, <1>9, Zenon
    <2>2. offset \in Nat
      BY ONLY <1>3, <1>6
    <2> HIDE DEF offset
    <2>4. k \in TagRecord
      BY ONLY <1>6, <1>7, <2>2, r \in TagRecord DEF TagRecord
    <2>5. /\ k.tag = r.tag /\ k.item = r.item /\ k.ids = r.ids /\ k.seen = r.seen /\ k.doc = r.doc
          /\ k.step = r.step /\ k.offset = offset /\ k.todo = docs
      BY ONLY r \in TagRecord DEF TagRecord
    <2>6. Alike(r, k) /\ (HasMoved(k) <=> HasMoved(r)) /\ (More(k) <=> more = TRUE)
      <3>1. Alike(r, k)
        BY ONLY r \in TagRecord DEF TagRecord, Alike, Clashes
      <3>2. (HasMoved(k) <=> HasMoved(r))
        BY ONLY r \in TagRecord DEF TagRecord, HasMoved
      <3>3. k.more = more
        BY ONLY r \in TagRecord DEF TagRecord
      <3> QED
        BY ONLY <3>1, <3>2, <3>3 DEF More
    <2> HIDE DEF k
    <2>7. Phase(k)
      BY ONLY <1>2, <1>3, <1>6, <2>5, <2>6 DEF Phase, Alike
    <2>8. WentOn(c, k)
      <3>1. k.op = "delete" /\ k.doc # "tag"
        BY ONLY <1>3, <2>5, <2>6 DEF Alike
      <3> QED
        BY <2>1, <2>4, <2>7, <3>1, WentOnHow
    <2>9. \A p \in DOMAIN maps[r.side] :
             r.offset < p /\ (p <= k.offset \/ ~More(k)) => maps[r.side][p] \in Range(docs)
      BY ONLY <1>4, <1>5, <2>5, <2>6 DEF offset
    <2>10. Paged(c, r, k, Range(docs))
      BY ONLY <1>4, <1>5, <1>9, <2>2, <2>5, <2>6, <2>8, <2>9 DEF Paged
    <2> QED
      BY ONLY <1>1, <1>3, <2>4, <2>7, <2>10
  <1> QED
    BY <1>8, <1>9

--------------------------------------------------------------------------------
(* Tags: types are kept.                                                    *)

\* What a request never changes, and that it keeps what it holds.
Same(r, q) ==
  /\ Alike(r, q)
  /\ r.op # "drop class" => q.tag = r.tag
  /\ r.op # "delete" => q.item = r.item
  /\ Touched(r) \subseteq Touched(q) \cup {Missing}

Proceeds(c, r) ==
  \/ Ends(c, TRUE) \/ Ends(c, FALSE)
  \/ \E q : Turns(c, q) /\ Same(r, q)

LEMMA SteppedSame ==
  ASSUME NEW r, NEW q, Stepped(r, q)
  PROVE  Same(r, q)
  BY DEF Stepped, Same, Touched

LEMMA WentOnProceeds ==
  ASSUME NEW c, NEW r, NEW k, k.op = "delete", Same(r, k), WentOn(c, k)
  PROVE  Proceeds(c, r)
  <1>1. CASE \E q : Turns(c, q) /\ NextOne(k, q)
    <2>1. PICK q : Turns(c, q) /\ NextOne(k, q)
      BY <1>1
    <2>2. Same(r, q)
      BY <2>1 DEF NextOne, Same, Alike, Touched
    <2> QED
      BY <2>1, <2>2 DEF Proceeds
  <1>2. CASE \E q : Turns(c, q) /\ Stepped(k, q)
    <2>1. PICK q : Turns(c, q) /\ Stepped(k, q)
      BY <1>2
    <2>2. Same(r, q)
      BY <2>1 DEF Stepped, Same, Alike, Touched
    <2> QED
      BY <2>1, <2>2 DEF Proceeds
  <1>3. CASE Ends(c, TRUE)
    BY ONLY <1>3 DEF Proceeds
  <1> QED
    BY <1>1, <1>2, <1>3 DEF WentOn

LEMMA LoweredProceeds ==
  ASSUME NEW c, NEW r, Phase(r), r.op = "drop class", Lowered(c, r)
  PROVE  Proceeds(c, r)
  <1>1. CASE Ends(c, TRUE)
    BY ONLY <1>1 DEF Proceeds
  <1>2. CASE \E q : Turns(c, q) /\ NextTag(r, q)
    <2>1. PICK q : Turns(c, q) /\ NextTag(r, q)
      BY <1>2
    <2>2. Same(r, q)
      BY <2>1 DEF NextTag, Same, Alike, Touched, Phase
    <2> QED
      BY <2>1, <2>2 DEF Proceeds
  <1> QED
    BY <1>1, <1>2 DEF Lowered

LEMMA FollowedProceeds ==
  ASSUME NEW c, NEW r, Phase(r), Followed(c, r)
  PROVE  Proceeds(c, r)
  <1>1. CASE Ends(c, TRUE)
    BY ONLY <1>1 DEF Proceeds
  <1>2. CASE \E q : Turns(c, q) /\ Stepped(r, q)
    BY ONLY <1>2, SteppedSame DEF Proceeds
  <1>3. CASE r.op = "delete" /\ WentOn(c, r)
    <2>1. Same(r, r)
      BY DEF Same, Alike, Touched
    <2> QED
      BY <1>3, <2>1, WentOnProceeds
  <1>4. CASE r.op = "drop class" /\ Lowered(c, r)
    BY <1>4, LoweredProceeds
  <1> QED
    BY <1>1, <1>2, <1>3, <1>4 DEF Followed

\* Whatever its step, a request keeps what Same names, or ends.
LEMMA StepProceeds ==
  ASSUME TagTyped, NEW c \in TagClients, NEW r \in TagRecord, requests[c] = r, TagSteps(c)
  PROVE  Proceeds(c, r)
  <1>0. Phase(r)
    BY DEF TagTyped
  <1>1. Ends(c, TRUE) \/ Ends(c, FALSE) => Proceeds(c, r)
    BY ONLY TRUE DEF Proceeds
  <1>2. \A q : Turns(c, q) /\ Stepped(r, q) => Proceeds(c, r)
    BY ONLY SteppedSame DEF Proceeds
  <1>3. CASE ReadTagDocument(c)
    BY <1>1, <1>2, <1>3, TagDocumentRead
  <1>4. CASE ReadImageTagIds(c)
    <2>1. Ends(c, TRUE) \/ \E q : Turns(c, q) /\ Informed(r, q)
      BY <1>4, IdsRead
    <2>2. r.step = "ids"
      BY <1>4, IdsRead
    <2>3. \A q : Informed(r, q) => Same(r, q)
      BY <1>0, <2>2 DEF Informed, Same, Touched, Phase
    <2> QED
      BY <2>1, <2>3, <1>1 DEF Proceeds
  <1>5. CASE LookForDocument(c)
    BY <1>1, <1>2, <1>5, DocumentLookedFor
  <1>6. CASE DeleteDocument(c)
    BY <1>1, <1>2, <1>6, DocumentDeleted
  <1>7. CASE AddDocument(c)
    <2>1. Ends(c, FALSE) \/ Followed(c, r)
      BY <1>7, DocumentAdded
    <2> QED
      BY <1>0, <1>1, <2>1, FollowedProceeds
  <1>8. CASE CheckTag(c)
    <2>1. \/ \E q : Turns(c, q) /\ Stepped(r, q)
          \/ Ends(c, FALSE)
          \/ r.op = "drop class" /\ Lowered(c, r)
      BY <1>8, TagChecked
    <2> QED
      BY <1>0, <1>1, <1>2, <2>1, LoweredProceeds
  <1>9. CASE ReadTagCount(c)
    <2>1. PICK q : Turns(c, q) /\ Counted(r, q)
      BY <1>9, CountRead
    <2>2. Same(r, q)
      BY <2>1 DEF Counted, Same, Touched
    <2> QED
      BY <2>1, <2>2 DEF Proceeds
  <1>10. CASE ScanPage(c)
    <2>1. PICK k, page : k \in TagRecord /\ Phase(k) /\ Paged(c, r, k, page)
      BY <1>10, PageScanned
    <2>2. r.op = "delete"
      BY <1>10, PageScanned
    <2>3. Same(r, k) /\ k.op = "delete"
      BY <2>1, <2>2 DEF Paged, Same, Alike, Touched
    <2>4. Turns(c, k) \/ WentOn(c, k)
      BY <2>1 DEF Paged
    <2> QED
      BY <2>3, <2>4, WentOnProceeds DEF Proceeds
  <1> QED
    BY <1>3, <1>4, <1>5, <1>6, <1>7, <1>8, <1>9, <1>10 DEF TagSteps

\* What of the types is about requests and history.
AskedTyped ==
  /\ made \subseteq TagIds
  /\ requests \in [TagClients -> TagRecord \cup {NoRequest}]
  /\ \A c \in TagClients, r \in TagRecord : requests[c] = r => Phase(r)
  /\ loose \subseteq made \cup {Missing} /\ removed \subseteq Sides \X made
StoreTyped ==
  /\ tags \subseteq made
  /\ counts \in [Sides -> [TagIds -> Nat \cup {Missing}]]
  /\ maps = [s \in Sides |-> maps[s]]
  /\ \A s \in Sides :
       /\ maps[s] \in Seq(TagDocs(s)) /\ IsInjective(maps[s])
       /\ \A d, e \in Range(maps[s]) : d.item = e.item => d = e
  /\ \A t \in TagIds \ made, s \in Sides : counts[s][t] = Missing

\* Who goes on and who stays.
LEMMA Proceeded ==
  ASSUME TagTyped, NEW c \in TagClients, NEW r \in TagRecord, requests[c] = r, Proceeds(c, r)
  PROVE  /\ made' = made /\ removed' = removed /\ loose \subseteq loose'
         /\ (Clashes(r) /\ requests'[c] = NoRequest => Touched(r) \subseteq loose')
         /\ \A d \in TagClients \ {c} : requests'[d] = requests[d]
         /\ \/ requests'[c] = NoRequest
            \/ \E q \in TagRecord : requests'[c] = q /\ Phase(q) /\ Same(r, q)
         /\ AskedTyped'
  <1>0. Phase(r) /\ NoRequest \notin TagRecord
    BY NotRunning DEF TagTyped
  <1>1. Ends(c, TRUE) \/ Ends(c, FALSE)
          => /\ requests' = [requests EXCEPT ![c] = NoRequest]
             /\ loose \subseteq loose' /\ loose' \subseteq loose \cup Touched(r)
             /\ made' = made /\ removed' = removed
             /\ (Clashes(r) => Touched(r) \subseteq loose')
    BY Ended
  <1>2. Touched(r) \subseteq made \cup {Missing}
    BY <1>0 DEF Phase, Touched, TagRecord, TagOps
  <1>3. \/ /\ requests' = [requests EXCEPT ![c] = NoRequest]
           /\ loose \subseteq loose' /\ loose' \subseteq loose \cup Touched(r)
           /\ made' = made /\ removed' = removed
           /\ (Clashes(r) => Touched(r) \subseteq loose')
        \/ \E q \in TagRecord : /\ Phase(q) /\ Same(r, q)
                                /\ requests' = [requests EXCEPT ![c] = q]
                                /\ made' = made /\ removed' = removed /\ loose' = loose
    BY <1>1 DEF Proceeds, Turns, Goes
  <1>4. \/ requests' = [requests EXCEPT ![c] = NoRequest]
        \/ \E q \in TagRecord : Phase(q) /\ Same(r, q) /\ requests' = [requests EXCEPT ![c] = q]
    BY ONLY <1>3
  <1>5. /\ made' = made /\ removed' = removed /\ loose \subseteq loose'
        /\ loose' \subseteq loose \cup Touched(r)
    BY ONLY <1>3
  <1>6. /\ requests' \in [TagClients -> TagRecord \cup {NoRequest}]
        /\ \A d \in TagClients \ {c} : requests'[d] = requests[d]
        /\ \/ requests'[c] = NoRequest
           \/ \E q \in TagRecord : requests'[c] = q /\ Phase(q) /\ Same(r, q)
    BY <1>4 DEF TagTyped
  <1>7. Clashes(r) /\ requests'[c] = NoRequest => Touched(r) \subseteq loose'
    BY <1>0, <1>3 DEF TagTyped
  <1>8. \A q : Phase(q)' <=> Phase(q)
    BY <1>5 DEF Phase, TagDocs
  <1>9. \A d \in TagClients, q \in TagRecord : requests'[d] = q => Phase(q)'
    <2> SUFFICES ASSUME NEW d \in TagClients, NEW q \in TagRecord, requests'[d] = q
                 PROVE  Phase(q)'
      OBVIOUS
    <2>1. CASE d = c
      <3>1. Phase(q)
        BY <1>0, <1>6, <2>1
      <3> QED
        BY <1>8, <3>1
    <2>2. CASE d # c
      <3>1. requests[d] = q
        BY <1>6, <2>2
      <3> QED
        BY <1>8, <3>1 DEF TagTyped
    <2> QED
      BY <2>1, <2>2
  <1>10. loose' \subseteq made' \cup {Missing} /\ removed' \subseteq Sides \X made' /\ made' \subseteq TagIds
    BY <1>2, <1>5 DEF TagTyped
  <1>11. AskedTyped'
    BY ONLY <1>6, <1>9, <1>10 DEF AskedTyped
  <1> QED
    BY ONLY <1>5, <1>6, <1>7, <1>11

--------------------------------------------------------------------------------
(* Tags: what a step makes of the documents.                                *)

\* The documents of side s are those of the set D, one for an item.
Stocked(s, m, D) ==
  /\ m = [x \in Sides |-> m[x]] /\ m[s] \in Seq(TagDocs(s)) /\ IsInjective(m[s])
  /\ Range(m[s]) = D /\ \A x \in Sides \ {s} : m[x] = maps[x]

\* Deleting a document leaves those of the other items.
LEMMA MapDropped ==
  ASSUME TagTyped, NEW s \in Sides, NEW i
  PROVE  Stocked(s, [maps EXCEPT ![s] = AtPlaces(@, DOMAIN @ \ Place(s, i))],
                 {d \in Range(maps[s]) : d.item # i})
  <1> DEFINE places == DOMAIN maps[s] \ Place(s, i)
             left == AtPlaces(maps[s], places)
             m == [maps EXCEPT ![s] = left]
  <1>1. maps[s] \in Seq(TagDocs(s)) /\ IsInjective(maps[s]) /\ places \subseteq DOMAIN maps[s]
    BY MapsTyped
  <1>2. left \in Seq(TagDocs(s)) /\ Range(left) = {maps[s][p] : p \in places} /\ IsInjective(left)
    BY <1>1, Filtered
  <1>3. Range(left) = {d \in Range(maps[s]) : d.item # i}
    BY <1>2, MapsTyped DEF Place
  <1>4. maps = [x \in Sides |-> maps[x]]
    BY DEF TagTyped
  <1>5. m = [x \in Sides |-> m[x]] /\ m[s] = left /\ \A x \in Sides \ {s} : m[x] = maps[x]
    BY <1>4
  <1> HIDE DEF m, left
  <1>6. Stocked(s, m, {d \in Range(maps[s]) : d.item # i})
    BY <1>2, <1>3, <1>5 DEF Stocked
  <1> QED
    BY <1>6 DEF m, left

\* Adding one for an item without any keeps one for an item.
LEMMA MapPut ==
  ASSUME TagTyped, NEW s \in Sides, NEW i \in Items(s), NEW ids \in SUBSET made,
         \A d \in Range(maps[s]) : d.item # i
  PROVE  Stocked(s, [maps EXCEPT ![s] = Append(@, [item |-> i, ids |-> ids])],
                 Range(maps[s]) \cup {[item |-> i, ids |-> ids]})
  <1> DEFINE new == [item |-> i, ids |-> ids]
             left == Append(maps[s], new)
             m == [maps EXCEPT ![s] = left]
  <1>1. /\ maps[s] \in Seq(TagDocs(s)) /\ IsInjective(maps[s]) /\ Len(maps[s]) \in Nat
        /\ DOMAIN maps[s] = 1 .. Len(maps[s])
    BY MapsTyped
  <1>2. new \in TagDocs(s) /\ new.item = i
    BY DEF TagDocs
  <1>3. new \notin Range(maps[s])
    BY <1>2
  <1> HIDE DEF new
  <1>4. /\ left \in Seq(TagDocs(s)) /\ DOMAIN left = 1 .. Len(maps[s]) + 1
        /\ left[Len(maps[s]) + 1] = new /\ \A p \in 1 .. Len(maps[s]) : left[p] = maps[s][p]
    BY <1>1, <1>2
  <1>5. Range(left) = Range(maps[s]) \cup {new}
    <2>1. \A d : d \in Range(left) <=> \E p \in DOMAIN left : left[p] = d
      BY DEF Range
    <2>2. \A d : d \in Range(maps[s]) <=> \E p \in DOMAIN maps[s] : maps[s][p] = d
      BY MapsTyped
    <2>3. \A p : p \in DOMAIN left <=> p \in DOMAIN maps[s] \/ p = Len(maps[s]) + 1
      BY <1>1, <1>4
    <2> HIDE DEF left
    <2>4. \A p \in DOMAIN maps[s] : left[p] = maps[s][p]
      BY <1>1, <1>4
    <2> QED
      BY <2>1, <2>2, <2>3, <2>4, <1>4
  <1>6. IsInjective(left)
    <2>1. \A p \in 1 .. Len(maps[s]) : maps[s][p] \in Range(maps[s])
      BY <1>1, MapsTyped
    <2> HIDE DEF left
    <2>2. \A p, q \in 1 .. Len(maps[s]) + 1 : left[p] = left[q] => p = q
      BY <1>1, <1>3, <1>4, <2>1 DEF IsInjective
    <2> QED
      BY <1>4, <2>2 DEF IsInjective
  <1>7. maps = [x \in Sides |-> maps[x]]
    BY DEF TagTyped
  <1>8. m = [x \in Sides |-> m[x]] /\ m[s] = left /\ \A x \in Sides \ {s} : m[x] = maps[x]
    BY <1>7
  <1> HIDE DEF m, left
  <1>9. Stocked(s, m, Range(maps[s]) \cup {new})
    BY <1>4, <1>5, <1>6, <1>8 DEF Stocked, left
  <1> QED
    BY <1>9 DEF m, left, new

\* What DeleteDocument and AddDocument do to what is stored.
Dropped(r) ==
  /\ tags' = IF r.doc = "tag" THEN tags \ {r.tag} ELSE tags
  /\ counts' = IF r.doc = "count" THEN [counts EXCEPT ![r.side][r.tag] = Missing] ELSE counts
  /\ IF r.doc = "map" THEN Stocked(r.side, maps', {d \in Range(maps[r.side]) : d.item # r.item})
     ELSE maps' = maps
Put(r) ==
  /\ tags' = IF r.doc = "tag" THEN tags \cup {r.tag} ELSE tags
  /\ counts' = IF r.doc = "count" THEN [counts EXCEPT ![r.side][r.tag] = r.n] ELSE counts
  /\ IF r.doc = "map"
     THEN Stocked(r.side, maps', Range(maps[r.side]) \cup {[item |-> r.item, ids |-> r.ids]})
     ELSE maps' = maps

\* DeleteDocument as a set of documents less one.
LEMMA DroppedBy ==
  ASSUME TagTyped, NEW c \in TagClients, NEW r \in TagRecord, requests[c] = r, DeleteDocument(c)
  PROVE  Dropped(r)
  <1>1. r.side \in Sides
    BY DEF TagRecord
  <1> DEFINE left == [maps EXCEPT ![r.side] = AtPlaces(@, DOMAIN @ \ Place(r.side, r.item))]
             kept == {d \in Range(maps[r.side]) : d.item # r.item}
  <1>2. Stocked(r.side, left, kept)
    BY <1>1, MapDropped
  <1>3. r.doc = "map" => maps' = left
    BY DocumentDeleted
  <1> HIDE DEF left, kept
  <1>4. r.doc = "map" => Stocked(r.side, maps', kept)
    BY ONLY <1>2, <1>3
  <1>5. IF r.doc = "map" THEN Stocked(r.side, maps', kept) ELSE maps' = maps
    BY <1>4, DocumentDeleted
  <1> QED
    BY <1>5, DocumentDeleted DEF Dropped, kept

\* AddDocument as a set of documents and one more.
LEMMA PutBy ==
  ASSUME TagTyped, NEW c \in TagClients, NEW r \in TagRecord, requests[c] = r, AddDocument(c)
  PROVE  /\ r.step = "put"
         /\ \/ Writes(r) /\ Exists(r) /\ Reads /\ Ends(c, FALSE)
            \/ ~Writes(r) /\ Reads /\ Followed(c, r)
            \/ Writes(r) /\ ~Exists(r) /\ Followed(c, r) /\ Put(r)
  <1>1. r.side \in Sides /\ Phase(r)
    BY DEF TagRecord, TagTyped
  <1>2. r.doc = "map" /\ r.step = "put" /\ Writes(r) => r.item \in Items(r.side) /\ r.ids \in SUBSET made
    <2>1. r.op \in TagOps
      BY DEF TagRecord
    <2> QED
      BY <1>1, <2>1 DEF Phase, Writes, TagOps
  <1>3. ~Exists(r) /\ r.doc = "map" => \A d \in Range(maps[r.side]) : d.item # r.item
    BY <1>1, ReadsOf DEF Exists
  <1>4. ASSUME Writes(r), ~Exists(r), r.step = "put", r.doc = "map",
               maps' = [maps EXCEPT ![r.side] = Append(@, [item |-> r.item, ids |-> r.ids])]
        PROVE  Stocked(r.side, maps', Range(maps[r.side]) \cup {[item |-> r.item, ids |-> r.ids]})
    BY <1>1, <1>2, <1>3, <1>4, MapPut
  <1> QED
    BY <1>4, DocumentAdded DEF Put

LEMMA TypesSplit ==
  TagTyped <=> AskedTyped /\ StoreTyped
  BY DEF TagTyped, AskedTyped, StoreTyped

LEMMA TypesSplitNext ==
  AskedTyped' /\ StoreTyped' => TagTyped'
  BY DEF TagTyped, AskedTyped, StoreTyped

LEMMA StockedTyped ==
  ASSUME TagTyped, made' = made, NEW s \in Sides, NEW D, Stocked(s, maps', D),
         \A d, e \in D : d.item = e.item => d = e
  PROVE  /\ maps' = [x \in Sides |-> maps'[x]]
         /\ \A x \in Sides :
              /\ maps'[x] \in Seq(TagDocs(x)) /\ IsInjective(maps'[x])
              /\ \A d, e \in Range(maps'[x]) : d.item = e.item => d = e
  <1>1. /\ maps' = [x \in Sides |-> maps'[x]] /\ maps'[s] \in Seq(TagDocs(s))
        /\ IsInjective(maps'[s]) /\ Range(maps'[s]) = D
        /\ \A x \in Sides \ {s} : maps'[x] = maps[x]
    BY DEF Stocked
  <1>2. \A x \in Sides : \/ x = s
                         \/ maps'[x] = maps[x]
    BY <1>1
  <1> SUFFICES ASSUME NEW x \in Sides
               PROVE  /\ maps'[x] \in Seq(TagDocs(x)) /\ IsInjective(maps'[x])
                      /\ \A d, e \in Range(maps'[x]) : d.item = e.item => d = e
    BY <1>1
  <1>3. CASE x = s
    BY <1>1, <1>3
  <1>4. CASE maps'[x] = maps[x]
    BY <1>4, MapsTyped
  <1> QED
    BY <1>2, <1>3, <1>4

\* What is stored keeps its types, whether it is read, dropped or put.
LEMMA StoreMoved ==
  ASSUME TagTyped, made' = made, NEW c \in TagClients, NEW r \in TagRecord, requests[c] = r,
         \/ Reads
         \/ r.step = "drop" /\ Dropped(r)
         \/ r.step = "put" /\ Writes(r) /\ ~Exists(r) /\ Put(r)
  PROVE  StoreTyped'
  <1>1. Phase(r) /\ r.side \in Sides /\ r.n \in Nat /\ made \subseteq TagIds
    BY DEF TagTyped, TagRecord
  <1>2. \A s : TagDocs(s)' = TagDocs(s)
    BY DEF TagDocs
  <1>3. CASE Reads
    BY <1>2, <1>3 DEF Reads, TagTyped, StoreTyped
  <1>4. r.doc \in {"tag", "count"} => r.tag \in made
    BY <1>1 DEF Phase
  <1>5. /\ counts \in [Sides -> [TagIds -> Nat \cup {Missing}]]
        /\ \A t \in TagIds \ made, s \in Sides : counts[s][t] = Missing
    BY DEF TagTyped
  <1>6. ASSUME NEW n \in Nat \cup {Missing}, r.doc = "count",
               counts' = [counts EXCEPT ![r.side][r.tag] = n]
        PROVE  /\ counts' \in [Sides -> [TagIds -> Nat \cup {Missing}]]
               /\ \A t \in TagIds \ made, s \in Sides : counts'[s][t] = Missing
    <2>1. r.tag \in made /\ r.tag \in TagIds
      BY <1>1, <1>4, <1>6
    <2> QED
      BY <1>1, <1>5, <1>6, <2>1
  <1>7. maps' = maps =>
          /\ maps' = [x \in Sides |-> maps'[x]]
          /\ \A x \in Sides :
               /\ maps'[x] \in Seq(TagDocs(x)) /\ IsInjective(maps'[x])
               /\ \A d, e \in Range(maps'[x]) : d.item = e.item => d = e
    BY MapsTyped DEF TagTyped
  <1> DEFINE MapsKept ==
               /\ maps' = [x \in Sides |-> maps'[x]]
               /\ \A x \in Sides :
                    /\ maps'[x] \in Seq(TagDocs(x)) /\ IsInjective(maps'[x])
                    /\ \A d, e \in Range(maps'[x]) : d.item = e.item => d = e
             CountsKept ==
               /\ counts' \in [Sides -> [TagIds -> Nat \cup {Missing}]]
               /\ \A t \in TagIds \ made, s \in Sides : counts'[s][t] = Missing
  <1>8. ASSUME tags' \subseteq made, CountsKept, MapsKept
        PROVE  StoreTyped'
    BY ONLY <1>8, <1>2, made' = made DEF StoreTyped
  <1>9. CASE r.step = "drop" /\ Dropped(r)
    <2>1. tags' \subseteq made
      BY <1>9 DEF Dropped, TagTyped
    <2>2. CountsKept
      <3>1. CASE r.doc = "count"
        <4>1. counts' = [counts EXCEPT ![r.side][r.tag] = Missing]
          BY <1>9, <3>1 DEF Dropped
        <4> QED
          BY <1>6, <3>1, <4>1
      <3>2. CASE r.doc # "count"
        BY <1>5, <1>9, <3>2 DEF Dropped
      <3> QED
        BY <3>1, <3>2
    <2>3. MapsKept
      <3>1. CASE r.doc = "map"
        <4> DEFINE D == {d \in Range(maps[r.side]) : d.item # r.item}
        <4>1. Stocked(r.side, maps', D)
          BY <1>9, <3>1 DEF Dropped
        <4>2. \A d, e \in D : d.item = e.item => d = e
          BY <1>1, MapsTyped
        <4> HIDE DEF D, MapsKept
        <4> QED
          BY <1>1, <4>1, <4>2, StockedTyped DEF MapsKept
      <3>2. CASE r.doc # "map"
        <4>1. maps' = maps
          BY <1>9, <3>2 DEF Dropped
        <4> QED
          BY <1>7, <4>1
      <3> QED
        BY <3>1, <3>2
    <2> QED
      BY <1>8, <2>1, <2>2, <2>3
  <1>10. CASE r.step = "put" /\ Writes(r) /\ ~Exists(r) /\ Put(r)
    <2>1. tags' \subseteq made
      BY <1>4, <1>10 DEF Put, TagTyped
    <2>2. CountsKept
      <3>1. CASE r.doc = "count"
        <4>1. counts' = [counts EXCEPT ![r.side][r.tag] = r.n]
          BY <1>10, <3>1 DEF Put
        <4> QED
          BY <1>1, <1>6, <3>1, <4>1
      <3>2. CASE r.doc # "count"
        BY <1>5, <1>10, <3>2 DEF Put
      <3> QED
        BY <3>1, <3>2
    <2>3. MapsKept
      <3>1. CASE r.doc = "map"
        <4> DEFINE new == [item |-> r.item, ids |-> r.ids]
                   D == Range(maps[r.side]) \cup {new}
        <4>1. Stocked(r.side, maps', D)
          BY <1>10, <3>1 DEF Put
        <4>2. \A d \in Range(maps[r.side]) : d.item # r.item
          BY <1>1, <1>10, <3>1, ReadsOf DEF Exists
        <4>3. new.item = r.item
          OBVIOUS
        <4> HIDE DEF new
        <4>4. \A d, e \in D : d.item = e.item => d = e
          BY <1>1, <4>2, <4>3, MapsTyped
        <4> HIDE DEF D, MapsKept
        <4> QED
          BY <1>1, <4>1, <4>4, StockedTyped DEF MapsKept
      <3>2. CASE r.doc # "map"
        <4>1. maps' = maps
          BY <1>10, <3>2 DEF Put
        <4> QED
          BY <1>7, <4>1
      <3> QED
        BY <3>1, <3>2
    <2> QED
      BY <1>8, <2>1, <2>2, <2>3
  <1> QED
    BY <1>3, <1>9, <1>10

\* What a step does to the store.
LEMMA StepStore ==
  ASSUME TagTyped, NEW c \in TagClients, NEW r \in TagRecord, requests[c] = r, TagSteps(c)
  PROVE  \/ Reads
         \/ r.step = "drop" /\ Dropped(r)
         \/ r.step = "put" /\ Writes(r) /\ ~Exists(r) /\ Put(r)
  <1>1. CASE ReadTagDocument(c)
    BY <1>1, TagDocumentRead
  <1>2. CASE ReadImageTagIds(c)
    BY <1>2, IdsRead
  <1>3. CASE LookForDocument(c)
    BY <1>3, DocumentLookedFor
  <1>4. CASE DeleteDocument(c)
    BY <1>4, DocumentDeleted, DroppedBy
  <1>5. CASE AddDocument(c)
    BY <1>5, PutBy
  <1>6. CASE CheckTag(c)
    BY <1>6, TagChecked
  <1>7. CASE ReadTagCount(c)
    BY <1>7, CountRead
  <1>8. CASE ScanPage(c)
    BY <1>8, PageScanned
  <1> QED
    BY <1>1, <1>2, <1>3, <1>4, <1>5, <1>6, <1>7, <1>8 DEF TagSteps

\* The steps of a request keep the types.
LEMMA StepTyped ==
  ASSUME TagTyped, NEW c \in TagClients, NEW r \in TagRecord, requests[c] = r, TagSteps(c)
  PROVE  TagTyped'
  <1>1. AskedTyped' /\ made' = made
    BY StepProceeds, Proceeded
  <1>2. StoreTyped'
    BY <1>1, StepStore, StoreMoved
  <1> QED
    BY <1>1, <1>2, TypesSplitNext

--------------------------------------------------------------------------------
(* Tags: requests that begin, and requests that are dropped.                *)

Blank(r) ==
  /\ r.ids = {} /\ r.seen = {} /\ r.n = 0 /\ r.offset = 0 /\ r.todo = <<>>
  /\ ~More(r) /\ ~HasMoved(r) /\ ~Clashes(r)
Starts(r) ==
  /\ Blank(r)
  /\ \/ /\ r.op = "create" /\ r.tag \in TagIds \ made /\ made' = made \cup {r.tag}
        /\ removed' = removed /\ r.item = Missing /\ r.step = "look" /\ r.doc = "tag"
     \/ /\ r.op = "update" /\ r.tag \in made /\ made' = made /\ removed' = removed
        /\ r.item = Missing /\ r.step = "tag" /\ r.doc = "tag"
     \/ /\ r.op = "delete" /\ r.tag \in made /\ made' = made
        /\ removed' = removed \cup {<<r.side, r.tag>>}
        /\ r.item = Missing /\ r.step = "look" /\ r.doc = "tag"
     \/ /\ r.op = "add" /\ r.tag \in made /\ made' = made /\ removed' = removed
        /\ r.item \in Items(r.side) /\ r.step = "tag" /\ r.doc = "map"
     \/ /\ r.op = "remove" /\ r.tag \in made /\ made' = made /\ removed' = removed
        /\ r.item \in Items(r.side) /\ r.step = "ids" /\ r.doc = "map"
     \/ /\ r.op = "drop class" /\ r.tag = Missing /\ made' = made /\ removed' = removed
        /\ r.side = "class" /\ r.item \in Classes /\ r.step = "ids" /\ r.doc = "map"

\* Each request asks with a record of its first step.
LEMMA BegunHow ==
  ASSUME TagTyped, NEW c \in TagClients, TagRequests(c)
  PROVE  \E r \in TagRecord : Ask(c, r) /\ Starts(r)
  <1> DEFINE Goal == \E r \in TagRecord : Ask(c, r) /\ Starts(r)
  <1>7. /\ {"create", "update", "delete", "add", "remove", "drop class"} = TagOps
        /\ {"tag", "ids", "look"} \subseteq TagStepNames /\ "class" \in Sides
    BY DEF TagOps, TagStepNames, Sides
  <1>1. ASSUME NEW s \in Sides, NEW t \in TagIds,
               Fresh(t) /\ Ask(c, Request(s, "create", t, Missing, "look", "tag"))
        PROVE  Goal
    <2> DEFINE r == Request(s, "create", t, Missing, "look", "tag")
    <2>1. /\ r \in TagRecord /\ Blank(r) /\ r.side = s /\ r.op = "create" /\ r.tag = t
          /\ r.item = Missing /\ r.step = "look" /\ r.doc = "tag"
      BY DEF Request, TagRecord, Blank, More, HasMoved, Clashes, TagOps, TagStepNames, Items, Sides
    <2>2. Ask(c, r) /\ t \notin made /\ made' = made \cup {t} /\ removed' = removed
      BY <1>1 DEF Fresh
    <2> HIDE DEF r
    <2> QED
      BY <2>1, <2>2 DEF Starts
  <1>2. ASSUME NEW s \in Sides, NEW t \in TagIds,
               Given(t) /\ Ask(c, Request(s, "update", t, Missing, "tag", "tag"))
        PROVE  Goal
    <2> DEFINE r == Request(s, "update", t, Missing, "tag", "tag")
    <2>1. /\ r \in TagRecord /\ Blank(r) /\ r.side = s /\ r.op = "update" /\ r.tag = t
          /\ r.item = Missing /\ r.step = "tag" /\ r.doc = "tag"
      BY DEF Request, TagRecord, Blank, More, HasMoved, Clashes, TagOps, TagStepNames, Items, Sides
    <2>2. Ask(c, r) /\ t \in made /\ made' = made /\ removed' = removed
      BY <1>2 DEF Given
    <2> HIDE DEF r
    <2> QED
      BY <2>1, <2>2 DEF Starts
  <1>3. ASSUME NEW s \in Sides, NEW t \in TagIds,
               Doomed(s, t) /\ Ask(c, Request(s, "delete", t, Missing, "look", "tag"))
        PROVE  Goal
    <2> DEFINE r == Request(s, "delete", t, Missing, "look", "tag")
    <2>1. /\ r \in TagRecord /\ Blank(r) /\ r.side = s /\ r.op = "delete" /\ r.tag = t
          /\ r.item = Missing /\ r.step = "look" /\ r.doc = "tag"
      BY DEF Request, TagRecord, Blank, More, HasMoved, Clashes, TagOps, TagStepNames, Items, Sides
    <2>2. Ask(c, r) /\ t \in made /\ made' = made /\ removed' = removed \cup {<<s, t>>}
      BY <1>3 DEF Doomed
    <2> HIDE DEF r
    <2> QED
      BY <2>1, <2>2 DEF Starts
  <1>4. ASSUME NEW s \in Sides, NEW t \in TagIds, NEW i \in Items(s),
               Given(t) /\ Ask(c, Request(s, "add", t, i, "tag", "map"))
        PROVE  Goal
    <2> DEFINE r == Request(s, "add", t, i, "tag", "map")
    <2>1. /\ r \in TagRecord /\ Blank(r) /\ r.side = s /\ r.op = "add" /\ r.tag = t
          /\ r.item = i /\ r.step = "tag" /\ r.doc = "map"
      BY DEF Request, TagRecord, Blank, More, HasMoved, Clashes, TagOps, TagStepNames, Items, Sides
    <2>2. Ask(c, r) /\ t \in made /\ made' = made /\ removed' = removed
      BY <1>4 DEF Given
    <2> HIDE DEF r
    <2> QED
      BY <2>1, <2>2 DEF Starts
  <1>5. ASSUME NEW s \in Sides, NEW t \in TagIds, NEW i \in Items(s),
               Given(t) /\ Ask(c, Request(s, "remove", t, i, "ids", "map"))
        PROVE  Goal
    <2> DEFINE r == Request(s, "remove", t, i, "ids", "map")
    <2>1. /\ r \in TagRecord /\ Blank(r) /\ r.side = s /\ r.op = "remove" /\ r.tag = t
          /\ r.item = i /\ r.step = "ids" /\ r.doc = "map"
      BY DEF Request, TagRecord, Blank, More, HasMoved, Clashes, TagOps, TagStepNames, Items, Sides
    <2>2. Ask(c, r) /\ t \in made /\ made' = made /\ removed' = removed
      BY <1>5 DEF Given
    <2> HIDE DEF r
    <2> QED
      BY <2>1, <2>2 DEF Starts
  <1>6. ASSUME NEW i \in Classes, DropClassTags(c, i)
        PROVE  Goal
    <2> DEFINE r == Request("class", "drop class", Missing, i, "ids", "map")
    <2>1. /\ r \in TagRecord /\ Blank(r) /\ r.side = "class" /\ r.op = "drop class"
          /\ r.tag = Missing /\ r.item = i /\ r.step = "ids" /\ r.doc = "map"
      BY DEF Request, TagRecord, Blank, More, HasMoved, Clashes, TagOps, TagStepNames, Items, Sides
    <2>2. Ask(c, r) /\ made' = made /\ removed' = removed
      BY <1>6 DEF DropClassTags
    <2> HIDE DEF r
    <2> QED
      BY <2>1, <2>2 DEF Starts
  <1>13. /\ "image" \in Sides /\ "class" \in Sides /\ Images = Items("image")
        /\ Classes = Items("class")
    BY DEF Sides, Items
  <1> SUFFICES Goal
    OBVIOUS
  <1> HIDE DEF Goal
  <1>8. CASE \E t \in TagIds : CreateImageTag(c, t) \/ UpdateImageTag(c, t) \/ DeleteImageTag(c, t)
    BY <1>1, <1>2, <1>3, <1>13, <1>8 DEF CreateImageTag, UpdateImageTag, DeleteImageTag
  <1>9. CASE \E t \in TagIds, i \in Images : AddImageTag(c, t, i) \/ RemoveImageTag(c, t, i)
    BY <1>4, <1>5, <1>13, <1>9 DEF AddImageTag, RemoveImageTag
  <1>10. CASE \E t \in TagIds : \/ CreateFaceClassTag(c, t) \/ UpdateFaceClassTag(c, t)
                                \/ DeleteFaceClassTag(c, t)
    BY <1>1, <1>2, <1>3, <1>13, <1>10 DEF CreateFaceClassTag, UpdateFaceClassTag, DeleteFaceClassTag
  <1>11. CASE \E t \in TagIds, i \in Classes : AddFaceClassTag(c, t, i) \/ RemoveFaceClassTag(c, t, i)
    BY <1>4, <1>5, <1>13, <1>11 DEF AddFaceClassTag, RemoveFaceClassTag
  <1>12. CASE \E i \in Classes : DropClassTags(c, i)
    BY <1>6, <1>12
  <1> QED
    BY <1>8, <1>9, <1>10, <1>11, <1>12 DEF TagRequests

\* The same request, whether it was disturbed or not.
Akin(x, y) ==
  /\ y.side = x.side /\ y.op = x.op /\ y.tag = x.tag /\ y.item = x.item /\ y.step = x.step
  /\ y.doc = x.doc /\ y.ids = x.ids /\ y.seen = x.seen /\ Steady4(x, y)

LEMMA Flagged ==
  ASSUME NEW x \in TagRecord, NEW b \in BOOLEAN
  PROVE  LET y == [x EXCEPT !.clash = b] IN y \in TagRecord /\ Akin(x, y) /\ (Clashes(y) <=> b)
  BY DEF TagRecord, Akin, Steady4, More, HasMoved, Clashes

\* Asking marks those that may disturb each other, and nothing else.
LEMMA AskedHow ==
  ASSUME TagTyped, NEW c \in TagClients, NEW r \in TagRecord, Ask(c, r)
  PROVE  /\ requests[c] = NoRequest /\ Reads /\ loose' = loose /\ gone' = gone
         /\ requests' \in [TagClients -> TagRecord \cup {NoRequest}]
         /\ \E q \in TagRecord :
              /\ requests'[c] = q /\ Akin(r, q)
              /\ Clashes(q) <=> \E d \in TagClients, x \in TagRecord : requests[d] = x /\ Disturb(x, r)
         /\ \A d \in TagClients \ {c} : requests[d] = NoRequest => requests'[d] = NoRequest
         /\ \A d \in TagClients \ {c}, x \in TagRecord : requests[d] = x =>
              \E y \in TagRecord : /\ requests'[d] = y /\ Akin(x, y)
                                   /\ Clashes(y) <=> Clashes(x) \/ Disturb(x, r)
  <1> DEFINE others == {d \in TagClients : Running(d) /\ Disturb(requests[d], r)}
             mine == [r EXCEPT !.clash = (others # {})]
             Theirs(d) == [requests[d] EXCEPT !.clash = TRUE]
             asks == [d \in TagClients |-> IF d = c THEN mine
                                        ELSE IF d \in others THEN Theirs(d) ELSE requests[d]]
  <1>1. requests[c] = NoRequest /\ Reads /\ loose' = loose /\ gone' = gone /\ requests' = asks
    BY NotRunning DEF Ask, Reads
  <1>2. \A d \in TagClients : requests[d] \in TagRecord \cup {NoRequest}
    BY DEF TagTyped
  <1>3. \A d : d \in others <=> d \in TagClients /\ Running(d) /\ Disturb(requests[d], r)
    OBVIOUS
  <1>4. \A d \in TagClients : Running(d) <=> requests[d] \in TagRecord
    BY NotRunning
  <1>5. mine \in TagRecord /\ Akin(r, mine) /\ (Clashes(mine) <=> others # {})
    <2> DEFINE b == others # {}
    <2>1. b \in BOOLEAN
      OBVIOUS
    <2> HIDE DEF b
    <2>2. LET y == [r EXCEPT !.clash = b] IN y \in TagRecord /\ Akin(r, y) /\ (Clashes(y) <=> b)
      BY <2>1, Flagged
    <2> QED
      BY <2>2, Zenon DEF b
  <1>6. \A d \in TagClients : requests[d] \in TagRecord =>
          Theirs(d) \in TagRecord /\ Akin(requests[d], Theirs(d)) /\ Clashes(Theirs(d))
    <2> SUFFICES ASSUME NEW x \in TagRecord
                 PROVE  LET y == [x EXCEPT !.clash = TRUE]
                        IN  y \in TagRecord /\ Akin(x, y) /\ Clashes(y)
      BY Zenon
    <2> QED
      BY Flagged
  <1>7. others # {} <=> \E d \in TagClients, x \in TagRecord : requests[d] = x /\ Disturb(x, r)
    BY ONLY <1>3, <1>4
  <1>8. \A d \in TagClients :
          asks[d] = IF d = c THEN mine ELSE IF d \in others THEN Theirs(d) ELSE requests[d]
    BY Zenon
  <1> HIDE DEF others, mine, Theirs
  <1>9. asks \in [TagClients -> TagRecord \cup {NoRequest}]
    BY <1>2, <1>3, <1>4, <1>5, <1>6
  <1> HIDE DEF asks
  <1>10. asks[c] = mine
    BY <1>8
  <1>11. ASSUME NEW d \in TagClients \ {c}, requests[d] = NoRequest
         PROVE  asks[d] = NoRequest
    BY <1>3, <1>4, <1>8, <1>11, NotRunning
  <1>12. ASSUME NEW d \in TagClients \ {c}, NEW x \in TagRecord, requests[d] = x
         PROVE  \E y \in TagRecord : /\ asks[d] = y /\ Akin(x, y)
                                     /\ Clashes(y) <=> Clashes(x) \/ Disturb(x, r)
    <2>1. Running(d)
      BY <1>4, <1>12
    <2>2. CASE Disturb(x, r)
      <3>1. asks[d] = Theirs(d)
        BY <1>3, <1>8, <1>12, <2>1, <2>2
      <3>2. Theirs(d) \in TagRecord /\ Akin(x, Theirs(d)) /\ Clashes(Theirs(d))
        BY <1>6, <1>12
      <3> QED
        BY <2>2, <3>1, <3>2, Zenon
    <2>3. CASE ~Disturb(x, r)
      <3>1. asks[d] = x
        BY <1>3, <1>8, <1>12, <2>1, <2>3
      <3>2. Akin(x, x)
        BY DEF Akin, Steady4
      <3> QED
        BY <2>3, <3>1, <3>2, Zenon
    <2> QED
      BY <2>2, <2>3
  <1> QED
    BY <1>1, <1>5, <1>7, <1>9, <1>10, <1>11, <1>12

LEMMA AkinPhase ==
  ASSUME NEW x, NEW y, Akin(x, y), Phase(x), made \subseteq made', removed \subseteq removed'
  PROVE  Phase(y)'
  <1>1. x.todo \in Seq(TagDocs(x.side)) => x.todo \in Seq(TagDocs(x.side)')
    <2>1. TagDocs(x.side) \subseteq TagDocs(x.side)'
      BY DEF TagDocs
    <2> QED
      BY <2>1, LargerSeq
  <1>2. Phase(x)'
    BY <1>1 DEF Phase
  <1> QED
    BY <1>2 DEF Phase, Akin, Steady4

\* A request that begins keeps the types.
LEMMA AskTyped ==
  ASSUME TagTyped, NEW c \in TagClients, NEW r \in TagRecord, Ask(c, r), Starts(r)
  PROVE  /\ TagTyped'
         /\ made \subseteq made' /\ removed \subseteq removed'
         /\ Phase(r)'
  <1>1. made \subseteq made' /\ removed \subseteq removed' /\ made' \subseteq TagIds
        /\ removed' \subseteq Sides \X made'
    <2>1. /\ made' = made \/ (r.tag \in TagIds /\ made' = made \cup {r.tag})
          /\ removed' = removed \/ (r.tag \in made /\ removed' = removed \cup {<<r.side, r.tag>>})
      BY DEF Starts
    <2>2. r.side \in Sides /\ made \subseteq TagIds /\ removed \subseteq Sides \X made
      BY DEF TagTyped, TagRecord
    <2> QED
      BY ONLY <2>1, <2>2
  <1>2. Phase(r)'
    <2>1. r.tag \in made' \/ r.op = "drop class"
      BY DEF Starts
    <2>2. r.ids = {} /\ r.seen = {} /\ r.todo = <<>>
      BY DEF Starts, Blank
    <2>3. r.todo \in Seq(TagDocs(r.side)')
      BY <2>2
    <2> QED
      BY <2>1, <2>2, <2>3 DEF Starts, Phase
  <1>3. \A d \in TagClients, y \in TagRecord : requests'[d] = y => Phase(y)'
    <2> SUFFICES ASSUME NEW d \in TagClients, NEW y \in TagRecord, requests'[d] = y
                 PROVE  Phase(y)'
      OBVIOUS
    <2>1. CASE d = c
      <3>1. Akin(r, y)
        BY <2>1, AskedHow
      <3>2. Phase(y)'
        BY <1>2, <3>1 DEF Akin, Phase, Steady4
      <3> QED
        BY <3>2
    <2>2. CASE d # c
      <3>1. requests[d] # NoRequest
        BY <2>2, AskedHow, NotRunning
      <3>2. PICK x \in TagRecord : requests[d] = x
        BY <3>1 DEF TagTyped
      <3>3. Akin(x, y)
        BY <2>2, <3>2, AskedHow
      <3>4. Phase(x)
        BY <3>2 DEF TagTyped
      <3> QED
        BY <1>1, <3>3, <3>4, AkinPhase
    <2> QED
      BY <2>1, <2>2
  <1>4. AskedTyped'
    <2>1. requests' \in [TagClients -> TagRecord \cup {NoRequest}] /\ loose' = loose
      BY AskedHow
    <2>2. loose' \subseteq made' \cup {Missing}
      BY <1>1, <2>1 DEF TagTyped
    <2> QED
      BY ONLY <1>1, <1>3, <2>1, <2>2 DEF AskedTyped
  <1>5. StoreTyped'
    <2>1. tags' = tags /\ counts' = counts /\ maps' = maps
      BY AskedHow DEF Reads
    <2>2. \A s \in Sides : TagDocs(s) \subseteq TagDocs(s)'
      BY <1>1 DEF TagDocs
    <2>3. \A s \in Sides : maps[s] \in Seq(TagDocs(s)')
      BY <2>2, MapsTyped, LargerSeq
    <2>4. /\ tags \subseteq made'
          /\ \A t \in TagIds \ made', s \in Sides : counts[s][t] = Missing
      BY <1>1 DEF TagTyped
    <2>5. StoreTyped
      BY TypesSplit
    <2> QED
      BY <2>1, <2>3, <2>4, <2>5 DEF StoreTyped
  <1> QED
    BY <1>1, <1>2, <1>4, <1>5, TypesSplitNext

\* A request that is dropped leaves what is stored as it is.
LEMMA AbandonedHow ==
  ASSUME TagTyped, NEW c \in TagClients, Abandon(c)
  PROVE  /\ Reads /\ gone' = gone /\ made' = made /\ removed' = removed /\ TagTyped'
         /\ \A d \in TagClients \ {c} : requests'[d] = requests[d]
         /\ requests'[c] = NoRequest /\ loose \subseteq loose'
         /\ \E r \in TagRecord : requests[c] = r /\ loose' = loose \cup Touched(r)
  <1>1. /\ Running(c) /\ requests' = [requests EXCEPT ![c] = NoRequest]
        /\ loose' = loose \cup Touched(requests[c])
        /\ Reads /\ gone' = gone /\ made' = made /\ removed' = removed
    BY DEF Abandon, Reads
  <1>2. PICK r \in TagRecord : requests[c] = r
    BY <1>1, NotRunning
  <1>3. Phase(r)
    BY <1>2 DEF TagTyped
  <1>4. Touched(r) \subseteq made \cup {Missing}
    BY <1>3 DEF Phase, Touched, TagRecord, TagOps
  <1>5. /\ requests' \in [TagClients -> TagRecord \cup {NoRequest}]
        /\ \A d \in TagClients \ {c} : requests'[d] = requests[d]
        /\ requests'[c] = NoRequest
    BY <1>1 DEF TagTyped
  <1>6. \A q : Phase(q)' <=> Phase(q)
    BY <1>1 DEF Phase, TagDocs
  <1>7. \A d \in TagClients, q \in TagRecord : requests'[d] = q => Phase(q)'
    <2> SUFFICES ASSUME NEW d \in TagClients, NEW q \in TagRecord, requests'[d] = q
                 PROVE  Phase(q)'
      OBVIOUS
    <2>1. requests[d] = q
      BY <1>5, NotRunning
    <2> QED
      BY <1>6, <2>1 DEF TagTyped
  <1>8. loose' \subseteq made' \cup {Missing} /\ removed' \subseteq Sides \X made' /\ made' \subseteq TagIds
    BY <1>1, <1>2, <1>4 DEF TagTyped
  <1>9. AskedTyped'
    BY ONLY <1>5, <1>7, <1>8 DEF AskedTyped
  <1>10. StoreTyped'
    BY <1>1, TypesSplit DEF StoreTyped, Reads, TagDocs
  <1> QED
    BY <1>1, <1>2, <1>5, <1>9, <1>10, TypesSplitNext

\* The documents of the beginning: one for an item that has tags.
LEMMA DocumentsOf ==
  ASSUME NEW I, IsFiniteSet(I), NEW A, NEW h \in [I -> SUBSET A], NEW m \in Documents(h, I)
  PROVE  /\ m \in Seq([item : I, ids : SUBSET A]) /\ IsInjective(m)
         /\ \A d, e \in Range(m) : d.item = e.item => d = e
         /\ \A i \in I : \A u : (\E d \in Range(m) : d.item = i /\ u \in d.ids) <=> u \in h[i]
  <1> DEFINE S == {i \in I : h[i] # {}}
             n == Cardinality(S)
             T == [item : I, ids : SUBSET A]
  <1>1. PICK order \in SetToSeqs(S) :
          m = [p \in DOMAIN order |-> [item |-> order[p], ids |-> h[order[p]]]]
    BY DEF Documents
  <1>2. IsFiniteSet(S) /\ n \in Nat
    BY FS_Subset, FS_CardinalityType
  <1>3. order \in [1 .. n -> S] /\ \A i, j \in 1 .. n : i # j => order[i] # order[j]
    BY <1>1 DEF SetToSeqs
  <1>4. \A i \in S : \E p \in 1 .. n : order[p] = i
    <2>1. order \in Injection(1 .. n, S)
      BY <1>3, Fun_IsInj
    <2>2. IsFiniteSet(1 .. n) /\ Cardinality(1 .. n) = n
      BY <1>2, FS_Interval
    <2>3. order \in Surjection(1 .. n, S)
      BY <1>2, <2>1, <2>2, FS_Injection
    <2> QED
      BY ONLY <2>3 DEF Surjection
  <1>5. \A i : i \in S <=> i \in I /\ h[i] # {}
    OBVIOUS
  <1> HIDE DEF S, n
  <1>6. DOMAIN m = 1 .. n /\ \A p \in 1 .. n : m[p] = [item |-> order[p], ids |-> h[order[p]]]
    BY <1>1, <1>3
  <1>7. \A p \in 1 .. n : m[p] \in T /\ m[p].item = order[p] /\ m[p].ids = h[order[p]]
                          /\ order[p] \in I
    BY <1>3, <1>5, <1>6
  <1>8. m \in Seq(T)
    <2>1. m = [p \in 1 .. n |-> m[p]]
      BY <1>1, <1>3, <1>6
    <2>2. m \in [1 .. n -> T]
      BY ONLY <2>1, <1>7
    <2> HIDE DEF T
    <2> QED
      BY ONLY <1>2, <2>2
  <1>9. IsInjective(m)
    BY <1>3, <1>6, <1>7 DEF IsInjective
  <1>10. \A d : d \in Range(m) <=> \E p \in 1 .. n : m[p] = d
    BY <1>6 DEF Range
  <1>11. \A d, e \in Range(m) : d.item = e.item => d = e
    BY ONLY <1>3, <1>6, <1>7, <1>10
  <1>12. ASSUME NEW i \in I, NEW u
         PROVE  (\E d \in Range(m) : d.item = i /\ u \in d.ids) <=> u \in h[i]
    <2>1. CASE u \in h[i]
      <3>1. i \in S
        BY <1>5, <2>1
      <3>2. PICK p \in 1 .. n : order[p] = i
        BY <1>4, <3>1
      <3>3. m[p] \in Range(m) /\ m[p].item = i /\ u \in m[p].ids
        BY ONLY <1>7, <1>10, <2>1, <3>2
      <3> QED
        BY ONLY <2>1, <3>3
    <2>2. CASE u \notin h[i]
      BY ONLY <1>7, <1>10, <2>2
    <2> QED
      BY <2>1, <2>2
  <1> QED
    BY ONLY <1>8, <1>9, <1>11, <1>12

\* The counts of the beginning: the number of items, or no document.
LEMMA TallyOf ==
  ASSUME NEW I, IsFiniteSet(I), NEW h
  PROVE  /\ Tally(h, I) \in [TagIds -> Nat \cup {Missing}]
         /\ \A t \in TagIds : LET n == Cardinality({i \in I : t \in h[i]})
                              IN  n \in Nat /\ Tally(h, I)[t] = IF n = 0 THEN Missing ELSE n
  <1> DEFINE N(t) == Cardinality({i \in I : t \in h[i]})
             m == [t \in TagIds |-> IF N(t) = 0 THEN Missing ELSE N(t)]
  <1>1. \A t : N(t) \in Nat
    <2> TAKE t
    <2>1. {i \in I : t \in h[i]} \in SUBSET I
      OBVIOUS
    <2> QED
      BY <2>1, FS_Subset, FS_CardinalityType
  <1>2. Tally(h, I) = m
    BY DEF Tally
  <1> HIDE DEF N
  <1>3. m \in [TagIds -> Nat \cup {Missing}] /\ \A t \in TagIds : m[t] = IF N(t) = 0 THEN Missing ELSE N(t)
    BY <1>1
  <1> HIDE DEF m
  <1>4. Tally(h, I) \in [TagIds -> Nat \cup {Missing}]
    BY ONLY <1>2, <1>3
  <1>5. \A t \in TagIds : N(t) \in Nat /\ Tally(h, I)[t] = IF N(t) = 0 THEN Missing ELSE N(t)
    BY ONLY <1>1, <1>2, <1>3
  <1> QED
    BY ONLY <1>4, <1>5, Zenon DEF N

Begun0 ==
  /\ made = tags /\ removed = {} /\ gone = {} /\ loose = {}
  /\ \A c \in TagClients : requests[c] = NoRequest
  /\ \A s \in Sides, t \in TagIds : Count(s, t) = Cardinality({i \in Items(s) : Holds(s, i, t)})

\* The beginning has the types, and nothing runs.
LEMMA InitTyped ==
  ASSUME TagInit
  PROVE  TagTyped /\ Begun0
  <1>1. PICK f \in [Images -> SUBSET tags], g \in [Classes -> SUBSET tags] :
          /\ maps \in [image : Documents(f, Images), class : Documents(g, Classes)]
          /\ counts = [image |-> Tally(f, Images), class |-> Tally(g, Classes)]
    BY DEF TagInit
  <1>2. /\ tags \subseteq TagIds /\ made = tags /\ removed = {} /\ gone = {} /\ loose = {}
        /\ requests = [c \in TagClients |-> NoRequest]
    BY DEF TagInit
  <1>3. IsFiniteSet(Images) /\ IsFiniteSet(Classes)
    BY TagsAssumption
  <1> DEFINE H(s) == IF s = "image" THEN f ELSE g
  <1>4. Sides = {"image", "class"} /\ "image" # "class"
    BY DEF Sides
  <1>5. /\ maps = [s \in Sides |-> maps[s]] /\ DOMAIN counts = Sides
        /\ \A s \in Sides : maps[s] \in Documents(H(s), Items(s)) /\ counts[s] = Tally(H(s), Items(s))
    <2>1. maps.image \in Documents(f, Images) /\ maps.class \in Documents(g, Classes)
          /\ maps = [image |-> maps.image, class |-> maps.class]
      BY <1>1
    <2>2. maps = [s \in Sides |-> maps[s]] /\ DOMAIN counts = Sides
      <3> DEFINE a == maps.image
                 b == maps.class
      <3>1. maps = [image |-> a, class |-> b]
        BY <2>1
      <3> HIDE DEF a, b
      <3>2. maps = [s \in {"image", "class"} |-> maps[s]]
        BY ONLY <3>1
      <3>3. DOMAIN counts = {"image", "class"}
        BY ONLY <1>1
      <3> QED
        BY ONLY <3>2, <3>3, <1>4
    <2>3. counts.image = Tally(f, Images) /\ counts.class = Tally(g, Classes)
      BY <1>1
    <2> QED
      BY <1>4, <2>1, <2>2, <2>3 DEF Items
  <1>6. \A s \in Sides : IsFiniteSet(Items(s)) /\ H(s) \in [Items(s) -> SUBSET made]
    BY <1>2, <1>3, <1>4 DEF Items
  <1> HIDE DEF H
  <1>7. \A s \in Sides :
          /\ maps[s] \in Seq(TagDocs(s)) /\ IsInjective(maps[s])
          /\ \A d, e \in Range(maps[s]) : d.item = e.item => d = e
          /\ \A i \in Items(s) : \A u : Holds(s, i, u) <=> u \in H(s)[i]
    <2> TAKE s \in Sides
    <2>1. maps[s] \in Documents(H(s), Items(s)) /\ IsFiniteSet(Items(s))
          /\ H(s) \in [Items(s) -> SUBSET made]
      BY <1>5, <1>6
    <2> QED
      BY <2>1, DocumentsOf DEF TagDocs, Holds
  <1>8. ASSUME NEW s \in Sides
        PROVE  /\ counts[s] \in [TagIds -> Nat \cup {Missing}]
               /\ \A t \in TagIds :
                    LET n == Cardinality({i \in Items(s) : t \in H(s)[i]})
                    IN  n \in Nat /\ counts[s][t] = IF n = 0 THEN Missing ELSE n
    <2>1. counts[s] = Tally(H(s), Items(s)) /\ IsFiniteSet(Items(s))
      BY <1>5, <1>6
    <2> QED
      BY <2>1, TallyOf
  <1>9. ASSUME NEW s \in Sides, NEW t \in TagIds
        PROVE  /\ Count(s, t) = Cardinality({i \in Items(s) : Holds(s, i, t)})
               /\ t \notin made => counts[s][t] = Missing
    <2> DEFINE n == Cardinality({i \in Items(s) : t \in H(s)[i]})
    <2>1. n \in Nat /\ counts[s][t] = IF n = 0 THEN Missing ELSE n
      BY <1>8
    <2>2. {i \in Items(s) : t \in H(s)[i]} = {i \in Items(s) : Holds(s, i, t)}
      BY <1>7
    <2>3. t \notin made => n = 0
      <3> SUFFICES ASSUME t \notin made PROVE n = 0
        OBVIOUS
      <3>1. {i \in Items(s) : t \in H(s)[i]} = {}
        BY <1>6
      <3> QED
        BY <3>1, FS_EmptySet
    <2>4. n = Cardinality({i \in Items(s) : Holds(s, i, t)})
      BY <2>2
    <2> HIDE DEF n
    <2>5. Missing \notin Nat
      BY TagsAssumption
    <2> QED
      BY ONLY <2>1, <2>3, <2>4, <2>5 DEF Count
  <1>10. counts \in [Sides -> [TagIds -> Nat \cup {Missing}]]
    <2>1. counts = [s \in Sides |-> counts[s]]
      BY <1>1, <1>4
    <2> QED
      BY <2>1, <1>8
  <1>11. /\ requests \in [TagClients -> TagRecord \cup {NoRequest}]
         /\ \A c \in TagClients : requests[c] = NoRequest
    BY <1>2
  <1>12. \A c \in TagClients, r \in TagRecord : requests[c] = r => Phase(r)
    BY <1>11, NoRequestIsNone
  <1>13. TagTyped
    BY ONLY <1>2, <1>5, <1>7, <1>9, <1>10, <1>11, <1>12 DEF TagTyped
  <1> QED
    BY ONLY <1>2, <1>9, <1>11, <1>13 DEF Begun0

--------------------------------------------------------------------------------
(* Tags: what a request knows about a tag u.  H: the items that have u, as  *)
(* pairs of a side and an item, C: the counts of u, T: the tags that have a *)
(* document.                                                                *)

Reading(r) == r.doc = "map" /\ r.step \in {"look", "drop"}
Between(r) == r.doc = "map" /\ r.step = "put"
Past(r) == r.doc = "count" \/ r.step \in {"check", "count"}

ReadOK(r, u, H) ==
  /\ r.op \in {"add", "remove", "delete"} /\ (Reading(r) \/ Between(r)) /\ u # r.tag
       => (<<r.side, r.item>> \in H <=> u \in r.ids)
  /\ r.op = "drop class" /\ Reading(r) => (<<r.side, r.item>> \in H <=> u \in r.ids)
  /\ r.op = "drop class" /\ Between(r) => <<r.side, r.item>> \notin H
  /\ r.op = "add" /\ Reading(r) /\ u = r.tag => <<r.side, r.item>> \notin H
  /\ r.op = "remove" /\ Reading(r) /\ u = r.tag => <<r.side, r.item>> \in H
  /\ r.op = "add" /\ (Reading(r) \/ Between(r)) /\ u = r.tag => u \in r.ids
  /\ r.op = "remove" /\ (Reading(r) \/ Between(r)) /\ u = r.tag => u \notin r.ids
  /\ r.op = "delete" => \A d \in Range(r.todo) : <<r.side, d.item>> \in H <=> u \in d.ids

Owes(r, s, u) ==
  /\ r.side = s
  /\ \/ r.op \in {"add", "remove"} /\ r.tag = u /\ (Between(r) \/ Past(r))
     \/ r.op = "drop class" /\ r.tag = u
     \/ r.op = "drop class" /\ u \in r.ids /\ (Between(r) \/ Past(r))

DueOf(H, s) == Cardinality({i \in Items(s) : <<s, i>> \in H})
CountIn(C, s) == IF C[s] = Missing THEN 0 ELSE C[s]

Noted(r, u) == r.tag = u /\ r.doc = "count" /\ r.step \in {"look", "drop", "put"}
Paid(r, s, u, H, C) ==
  /\ Noted(r, u) => r.n = DueOf(H, s) /\ (r.step = "put" => C[s] = Missing)
  /\ ~Noted(r, u) /\ r.op = "add" => CountIn(C, s) + 1 = DueOf(H, s)
  /\ ~Noted(r, u) /\ r.op # "add" => CountIn(C, s) = DueOf(H, s) + 1

Creates(r, u) == r.tag = u /\ (r.op = "create" \/ (r.op = "update" /\ r.step = "put"))

Told(r, u, H, C, T) ==
  /\ r.op = "create" /\ r.tag = u =>
       /\ u \notin T /\ r.step \in {"look", "put"}
       /\ \A s \in Sides : C[s] = Missing /\ \A i \in Items(s) : <<s, i>> \notin H
  /\ r.op \in {"add", "remove"} /\ r.tag = u /\ r.step \notin {"tag", "ids"} => u \in T
  /\ r.op = "add" /\ r.tag = u /\ r.step # "tag" => u \in T
  /\ r.op = "drop class" /\ u \in r.seen => u \in T

\* What r has read of u, what it owes the count, what it was told of the document.
Fine(r, u, H, C, T) ==
  /\ ReadOK(r, u, H)
  /\ \A s \in Sides : Owes(r, s, u) => Paid(r, s, u, H, C)
  /\ Told(r, u, H, C, T)

\* A request that goes on, and one that ends, with nothing changed about u.
Passes(r, q, u, H, C, T) ==
  /\ Fine(q, u, H, C, T)
  /\ \A s \in Sides : Owes(r, s, u) => Owes(q, s, u)
  /\ Creates(r, u) /\ u \notin T => Creates(q, u)
Leaves(r, u, T) == (\A s \in Sides : ~Owes(r, s, u)) /\ (Creates(r, u) => u \in T)

\* The step that gives the item another set of tags, of which u is one or was.
Turning(r, u) ==
  /\ Reading(r)
  /\ \/ r.op \in {"add", "remove"} /\ r.tag = u
     \/ r.op = "drop class" /\ u \in r.ids

\* What is known of a tag, Fine, survives reading its document.
LEMMA TagDocumentReadFine ==
  ASSUME NEW r \in TagRecord, NEW u \in TagIds, NEW H, NEW C, Phase(r), Fine(r, u, H, C, tags),
         r.step = "tag", r.op \in {"add", "update"}
  PROVE  /\ Leaves(r, u, tags)
         /\ \A q : r.tag \in tags /\ Stepped(r, q) /\ q.doc = r.doc
                   /\ q.step = (IF r.op = "add" THEN "ids" ELSE "look")
                   => Passes(r, q, u, H, C, tags)
  <1>1. r.op = "add" => r.doc = "map"
    BY DEF Phase, TagRecord
  <1>2. r.op = "update" => r.doc = "tag"
    BY DEF Phase
  <1>3. Leaves(r, u, tags)
    BY <1>1, <1>2 DEF Leaves, Owes, Creates, Between, Past
  <1> SUFFICES ASSUME NEW q, r.tag \in tags, Stepped(r, q), q.doc = r.doc,
                      q.step = (IF r.op = "add" THEN "ids" ELSE "look")
               PROVE  Passes(r, q, u, H, C, tags)
    BY <1>3
  <1>4. /\ q.op = r.op /\ q.side = r.side /\ q.tag = r.tag
        /\ r.op = "add" => q.doc = "map" /\ q.step = "ids"
        /\ r.op = "update" => q.doc = "tag" /\ q.step = "look"
    BY <1>1, <1>2 DEF Stepped, Alike
  <1>5. ReadOK(q, u, H)
    BY <1>4 DEF ReadOK, Reading, Between
  <1>6. \A s \in Sides : ~Owes(q, s, u)
    BY <1>4 DEF Owes, Between, Past
  <1>7. Told(q, u, H, C, tags)
    BY <1>4 DEF Told
  <1> QED
    BY <1>3, <1>5, <1>6, <1>7 DEF Passes, Fine, Leaves

\* Fine survives looking for a document.
LEMMA LookFine ==
  ASSUME TagTyped, NEW r \in TagRecord, NEW u \in TagIds, NEW H, NEW C, Phase(r),
         \A s \in Sides : C[s] = counts[s][u],
         Fine(r, u, H, C, tags), r.step = "look", r.op = "delete" => r.tag # u, NEW q, Stepped(r, q), q.doc = r.doc,
         \/ Exists(r) /\ q.step = "drop"
         \/ ~Exists(r) /\ q.step = "put" /\ ~Turning(r, u)
  PROVE  Passes(r, q, u, H, C, tags)
  <1>1. /\ q.op = r.op /\ q.side = r.side /\ q.tag = r.tag /\ q.item = r.item /\ q.ids = r.ids
        /\ q.seen = r.seen /\ q.n = r.n /\ q.todo = r.todo /\ q.step \in {"drop", "put"}
    BY DEF Stepped, Alike, Steady4
  <1>2. r.op \in TagOps /\ r.side \in Sides
    BY DEF TagRecord
  <1>3. ReadOK(q, u, H)
    <2>1. ReadOK(r, u, H)
      BY DEF Fine
    <2>2. Reading(r) <=> r.doc = "map"
      BY DEF Reading
    <2>3. Reading(q) \/ Between(q) <=> r.doc = "map"
      BY <1>1 DEF Reading, Between
    <2>4. r.op = "drop class" => r.doc # "map"
      BY DEF Phase
    <2>5. CASE q.step = "drop"
      BY <1>1, <2>1, <2>2, <2>3, <2>4, <2>5 DEF ReadOK, Between
    <2>6. CASE q.step = "put" /\ ~Turning(r, u)
      <3>1. r.op \in {"add", "remove"} /\ Reading(r) => u # r.tag
        BY <2>6 DEF Turning
      <3>2. ~Reading(q)
        BY <2>6 DEF Reading
      <3> QED
        BY <1>1, <2>1, <2>2, <2>3, <2>4, <3>1, <3>2 DEF ReadOK
    <2> QED
      BY <1>1, <2>5, <2>6
  <1>4. \A s \in Sides : Owes(r, s, u) <=> Owes(q, s, u)
    <2>1. q.step = "put" /\ Between(q) => r.op \notin {"add", "remove"} \/ r.tag # u
      BY DEF Between, Turning, Reading
    <2>2. r.op = "drop class" => r.doc = "count"
      BY DEF Phase
    <2>3. Past(q) <=> Past(r)
      BY <1>1 DEF Past
    <2>4. ~Between(r)
      BY DEF Between
    <2> QED
      BY <1>1, <2>1, <2>2, <2>3, <2>4 DEF Owes, Past, Between
  <1>5. ASSUME NEW s \in Sides, Owes(r, s, u)
        PROVE  Paid(q, s, u, H, C)
    <2>1. Paid(r, s, u, H, C) /\ r.side = s
      BY <1>5 DEF Fine, Owes
    <2>2. Noted(q, u) <=> Noted(r, u)
      BY <1>1 DEF Noted
    <2>3. Noted(q, u) /\ q.step = "put" => C[s] = Missing
      BY <1>1, <2>1 DEF Exists, Noted
    <2> QED
      BY <1>1, <2>1, <2>2, <2>3 DEF Paid
  <1>6. Told(q, u, H, C, tags)
    <2>1. Told(r, u, H, C, tags)
      BY DEF Fine
    <2>2. r.op = "create" => r.doc = "tag"
      BY DEF Phase
    <2>3. r.op = "create" /\ r.tag = u => ~Exists(r)
      BY <2>1, <2>2 DEF Told, Exists
    <2> QED
      BY <1>1, <2>1, <2>3 DEF Told
  <1>7. Creates(r, u) => Creates(q, u)
    BY <1>1 DEF Creates
  <1> QED
    BY <1>4, <1>3, <1>5, <1>6, <1>7 DEF Passes, Fine

\* Fine survives deleting one of another tag or item.
LEMMA DropFine ==
  ASSUME TagTyped, NEW r \in TagRecord, NEW u \in TagIds, NEW H, NEW C, Phase(r),
         Fine(r, u, H, C, tags), r.step = "drop", r.op = "delete" => r.tag # u,
         NEW q, Stepped(r, q), q.doc = r.doc, q.step = "put",
         r.doc = "map" => ~Turning(r, u), r.doc # "map" => r.tag # u
  PROVE  Passes(r, q, u, H, C, tags)
  <1>1. /\ q.op = r.op /\ q.side = r.side /\ q.tag = r.tag /\ q.item = r.item /\ q.ids = r.ids
        /\ q.seen = r.seen /\ q.n = r.n /\ q.todo = r.todo
    BY DEF Stepped, Alike, Steady4
  <1>2. r.op \in TagOps /\ r.side \in Sides
    BY DEF TagRecord
  <1>3. Reading(r) <=> r.doc = "map"
    BY DEF Reading
  <1>4. ~Reading(q) /\ ~Between(r) /\ (Between(q) <=> r.doc = "map")
    BY DEF Reading, Between
  <1>5. r.doc = "map" => /\ r.op \in {"add", "remove"} => r.tag # u
                         /\ r.op = "drop class" => u \notin r.ids
    BY <1>3 DEF Turning
  <1>6. ReadOK(q, u, H)
    <2>1. ReadOK(r, u, H)
      BY DEF Fine
    <2> QED
      BY <1>1, <1>3, <1>4, <1>5, <2>1 DEF ReadOK
  <1>7. \A s \in Sides : Owes(r, s, u) <=> Owes(q, s, u)
    <2>1. Past(q) <=> Past(r)
      BY <1>1 DEF Past
    <2>2. r.doc = "map" \/ Past(q)  \/ r.op \notin {"add", "remove", "drop class"}
      <3>1. r.op \in {"add", "remove", "drop class"} => r.doc # "tag"
        BY DEF Phase
      <3>2. r.doc \in {"tag", "count", "map"}
        BY DEF TagRecord
      <3> QED
        BY ONLY <3>1, <3>2, <1>1, q.doc = r.doc DEF Past
    <2> QED
      BY <1>1, <1>4, <1>5, <2>1, <2>2 DEF Owes
  <1>8. ASSUME NEW s \in Sides, Owes(r, s, u)
        PROVE  Paid(q, s, u, H, C)
    <2>1. Paid(r, s, u, H, C) /\ r.side = s
      BY <1>8 DEF Fine, Owes
    <2>2. ~Noted(q, u) /\ ~Noted(r, u)
      BY <1>1 DEF Noted
    <2> QED
      BY <1>1, <2>1, <2>2 DEF Paid
  <1>9. Told(q, u, H, C, tags)
    <2>1. Told(r, u, H, C, tags)
      BY DEF Fine
    <2>2. r.op = "create" => r.doc = "tag"
      BY DEF Phase
    <2> QED
      BY <1>1, <2>1, <2>2 DEF Told
  <1>10. Creates(r, u) => Creates(q, u)
    BY <1>1 DEF Creates
  <1> QED
    BY <1>6, <1>7, <1>8, <1>9, <1>10 DEF Passes, Fine

\* On the item of the request, those that have u hold it.
LEMMA IdsFine ==
  ASSUME TagTyped, NEW r \in TagRecord, NEW u \in TagIds, NEW H, NEW C, Phase(r),
         Fine(r, u, H, C, tags), r.step = "ids", r.op \in {"add", "remove", "drop class"},
         r.doc = "map"
  PROVE  /\ Leaves(r, u, tags)
         /\ \A q : /\ Informed(r, q) /\ (<<r.side, r.item>> \in H <=> Holds(r.side, r.item, u))
                   /\ r.op = "add" => ~Holds(r.side, r.item, r.tag)
                   /\ r.op = "remove" => Holds(r.side, r.item, r.tag)
                   /\ Holds(r.side, r.item, u) /\ (r.op = "drop class" \/ r.tag = u) => u \in tags
                   => Passes(r, q, u, H, C, tags)
  <1>1. ~Between(r) /\ ~Past(r) /\ (r.op = "drop class" => r.tag = Missing)
    BY DEF Between, Past, Phase
  <1>2. u # Missing
    BY TagsAssumption
  <1>3. Leaves(r, u, tags)
    BY <1>1, <1>2 DEF Leaves, Owes, Creates
  <1> SUFFICES ASSUME NEW q, Informed(r, q), <<r.side, r.item>> \in H <=> Holds(r.side, r.item, u),
                      r.op = "add" => ~Holds(r.side, r.item, r.tag),
                      r.op = "remove" => Holds(r.side, r.item, r.tag),
                      Holds(r.side, r.item, u) /\ (r.op = "drop class" \/ r.tag = u) => u \in tags
               PROVE  Passes(r, q, u, H, C, tags)
    BY <1>3
  <1>4. /\ q.op = r.op /\ q.side = r.side /\ q.tag = r.tag /\ q.item = r.item /\ q.doc = "map"
        /\ u \in q.seen <=> Holds(r.side, r.item, u)
        /\ u \in q.ids <=> \/ r.op = "add" /\ u = r.tag
                           \/ Holds(r.side, r.item, u) /\ (r.op = "remove" => u # r.tag)
        /\ r.op = "drop class" => q.step = "drop"
        /\ r.op # "drop class" => q.step = "look"
    BY DEF Informed, Alike
  <1>5. Reading(q) /\ ~Between(q) /\ ~Past(q)
    BY <1>4 DEF Reading, Between, Past
  <1>6. ReadOK(q, u, H)
    BY <1>4, <1>5 DEF ReadOK
  <1>7. \A s \in Sides : ~Owes(q, s, u)
    BY <1>1, <1>2, <1>4, <1>5 DEF Owes
  <1>8. Told(q, u, H, C, tags)
    <2>1. Told(r, u, H, C, tags)
      BY DEF Fine
    <2> QED
      BY <1>4, <2>1 DEF Told
  <1> QED
    BY <1>3, <1>6, <1>7, <1>8 DEF Passes, Fine, Leaves

\* Fine survives the check of the tag.
LEMMA CheckFine ==
  ASSUME TagTyped, NEW r \in TagRecord, NEW u \in TagIds, NEW H, NEW C, Phase(r),
         Fine(r, u, H, C, tags), r.step = "check", r.op \in {"add", "remove", "drop class"}
  PROVE  /\ \A q : Stepped(r, q) /\ q.doc = r.doc /\ q.step = "count" => Passes(r, q, u, H, C, tags)
         /\ r.tag \notin tags => r.tag # u
         /\ r.op # "drop class" /\ r.tag # u => Leaves(r, u, tags)
  <1>1. Told(r, u, H, C, tags) /\ ReadOK(r, u, H)
    BY DEF Fine
  <1>2. r.tag \notin tags => r.tag # u
    BY <1>1 DEF Told, Phase
  <1>3. r.op # "drop class" /\ r.tag # u => Leaves(r, u, tags)
    BY DEF Leaves, Owes, Creates
  <1>4. ASSUME NEW q, Stepped(r, q), q.doc = r.doc, q.step = "count"
        PROVE  Passes(r, q, u, H, C, tags)
    <2>1. /\ q.op = r.op /\ q.side = r.side /\ q.tag = r.tag /\ q.item = r.item /\ q.ids = r.ids
          /\ q.seen = r.seen /\ q.n = r.n /\ q.todo = r.todo
      BY <1>4 DEF Stepped, Alike, Steady4
    <2>2. /\ ~Between(q) /\ ~Between(r) /\ ~Reading(q) /\ Past(q) /\ Past(r)
          /\ ~Noted(q, u) /\ ~Noted(r, u)
      BY <1>4 DEF Between, Reading, Past, Noted
    <2>3. ReadOK(q, u, H)
      BY <2>1, <2>2 DEF ReadOK
    <2>4. \A s \in Sides : Owes(r, s, u) <=> Owes(q, s, u)
      BY <2>1, <2>2 DEF Owes
    <2>5. \A s \in Sides : Paid(r, s, u, H, C) => Paid(q, s, u, H, C)
      BY <2>1, <2>2 DEF Paid
    <2>6. Told(q, u, H, C, tags)
      BY <1>1, <1>4, <2>1 DEF Told
    <2> QED
      BY <2>1, <2>3, <2>4, <2>5, <2>6 DEF Passes, Fine, Creates
  <1> QED
    BY <1>2, <1>3, <1>4

\* The next tag to be lowered: not u, or u while nothing of it was lowered yet.
LEMMA NextTagFine ==
  ASSUME NEW r \in TagRecord, NEW u \in TagIds, NEW H, NEW C, NEW T, Phase(r),
         ReadOK(r, u, H), Told(r, u, H, C, T), r.op = "drop class", r.tag # u,
         Between(r) \/ Past(r),
         \A s \in Sides : Owes(r, s, u) => Paid(r, s, u, H, C)
  PROVE  /\ r.ids = {} => Leaves(r, u, T)
         /\ \A q : NextTag(r, q) => Passes(r, q, u, H, C, T) /\ \A s \in Sides : Owes(r, s, u) <=> Owes(q, s, u)
  <1>1. r.ids = {} => Leaves(r, u, T)
    BY DEF Leaves, Owes, Creates
  <1> SUFFICES ASSUME NEW q, NextTag(r, q)
               PROVE  Passes(r, q, u, H, C, T) /\ \A s \in Sides : Owes(r, s, u) <=> Owes(q, s, u)
    BY <1>1
  <1>2. /\ q.op = r.op /\ q.side = r.side /\ q.item = r.item /\ q.seen = r.seen
        /\ q.tag \in r.ids /\ q.ids = r.ids \ {q.tag} /\ q.step = "check"
    BY DEF NextTag, Alike
  <1>3. ~Between(q) /\ ~Reading(q) /\ Past(q) /\ ~Noted(q, u) /\ ~Noted(r, u)
    BY <1>2 DEF Between, Reading, Past, Noted
  <1>4. ReadOK(q, u, H)
    BY <1>2, <1>3 DEF ReadOK
  <1>5. \A s \in Sides : Owes(r, s, u) <=> Owes(q, s, u)
    BY <1>2, <1>3 DEF Owes
  <1>6. \A s \in Sides : Paid(r, s, u, H, C) => Paid(q, s, u, H, C)
    BY <1>2, <1>3 DEF Paid
  <1>7. Told(q, u, H, C, T)
    BY <1>2 DEF Told
  <1> QED
    BY <1>2, <1>4, <1>5, <1>6, <1>7 DEF Passes, Fine, Creates

\* Fine survives reading the count, which is then the one that is owed.
LEMMA CountFine ==
  ASSUME TagTyped, NEW r \in TagRecord, NEW u \in TagIds, NEW H, NEW C, Phase(r),
         \A s \in Sides : C[s] = counts[s][u] /\ DueOf(H, s) \in Nat,
         Fine(r, u, H, C, tags), r.step = "count", r.op \in {"add", "remove", "drop class"},
         NEW q, Counted(r, q)
  PROVE  Passes(r, q, u, H, C, tags)
  <1>1. Told(r, u, H, C, tags) /\ ReadOK(r, u, H)
    BY DEF Fine
  <1>2. /\ q.op = r.op /\ q.side = r.side /\ q.tag = r.tag /\ q.item = r.item /\ q.ids = r.ids
        /\ q.seen = r.seen /\ q.todo = r.todo /\ q.doc = "count" /\ q.step = "look"
        /\ r.op = "add" => q.n = Count(r.side, r.tag) + 1
        /\ r.op # "add" /\ Count(r.side, r.tag) > 0 => q.n = Count(r.side, r.tag) - 1
    BY DEF Counted, Alike
  <1>3. ~Between(q) /\ ~Between(r) /\ ~Reading(q) /\ Past(q) /\ Past(r) /\ ~Noted(r, u)
    BY <1>2 DEF Between, Reading, Past, Noted
  <1>4. ReadOK(q, u, H)
    BY <1>2, <1>3 DEF ReadOK
  <1>5. \A s \in Sides : Owes(r, s, u) <=> Owes(q, s, u)
    BY <1>2, <1>3 DEF Owes
  <1>6. ASSUME NEW s \in Sides, Owes(r, s, u)
        PROVE  Paid(q, s, u, H, C)
    <2>1. Paid(r, s, u, H, C) /\ r.side = s
      BY <1>6 DEF Fine, Owes
    <2>2. CountIn(C, s) = Count(s, u) /\ Count(s, u) \in Nat /\ DueOf(H, s) \in Nat
      BY CountTyped DEF CountIn, Count
    <2>3. CASE r.tag = u
      <3>1. q.n = DueOf(H, s)
        <4>1. r.op = "add" => CountIn(C, s) + 1 = DueOf(H, s) /\ q.n = Count(s, u) + 1
          BY <1>2, <1>3, <2>1, <2>3 DEF Paid
        <4>2. r.op # "add" => CountIn(C, s) = DueOf(H, s) + 1
          BY <1>3, <2>1 DEF Paid
        <4>3. r.op # "add" /\ Count(s, u) > 0 => q.n = Count(s, u) - 1
          BY <1>2, <2>1, <2>3
        <4> DEFINE n == Count(s, u)
                   due == DueOf(H, s)
                   m == CountIn(C, s)
        <4>4. m = n /\ n \in Nat /\ due \in Nat /\ (r.op = "add" => m + 1 = due /\ q.n = n + 1)
              /\ (r.op # "add" => m = due + 1) /\ (r.op # "add" /\ n > 0 => q.n = n - 1)
          BY <2>2, <4>1, <4>2, <4>3
        <4> HIDE DEF n, due, m
        <4>5. q.n = due
          BY ONLY <4>4
        <4> QED
          BY <4>5 DEF due
      <3>2. Noted(q, u) /\ q.step # "put"
        BY <1>2, <2>3 DEF Noted
      <3> QED
        BY <3>1, <3>2 DEF Paid
    <2>4. CASE r.tag # u
      <3>1. ~Noted(q, u)
        BY <1>2, <2>4 DEF Noted
      <3> QED
        BY <1>2, <1>3, <2>1, <3>1 DEF Paid
    <2> QED
      BY <2>3, <2>4
  <1>7. Told(q, u, H, C, tags)
    <2>1. r.op # "create"
      OBVIOUS
    <2> QED
      BY <1>1, <1>2, <2>1 DEF Told
  <1> QED
    BY <1>2, <1>4, <1>5, <1>6, <1>7 DEF Passes, Fine, Creates

\* A deletion goes on to a document of those it read.
LEMMA DeletionFine ==
  ASSUME NEW r, NEW u, NEW H, NEW C, NEW T, ReadOK(r, u, H), r.op = "delete", r.tag # u
  PROVE  /\ Leaves(r, u, T) /\ Fine(r, u, H, C, T)
         /\ \A q : NextOne(r, q) => Passes(r, q, u, H, C, T)
         /\ \A q : Stepped(r, q) /\ ~Reading(q) /\ ~Between(q) => Passes(r, q, u, H, C, T)
  <1>1. Leaves(r, u, T)
    BY DEF Leaves, Owes, Creates
  <1>2. Fine(r, u, H, C, T)
    BY <1>1 DEF Fine, Told, Leaves
  <1>3. ASSUME NEW q, q.op = "delete", q.tag = r.tag, ReadOK(q, u, H)
        PROVE  Passes(r, q, u, H, C, T)
    <2>1. \A s \in Sides : ~Owes(q, s, u)
      BY <1>3 DEF Owes
    <2>2. Told(q, u, H, C, T)
      BY <1>3 DEF Told
    <2> QED
      BY <1>1, <1>3, <2>1, <2>2 DEF Passes, Fine, Leaves, Creates
  <1>4. \A d \in Range(r.todo) : <<r.side, d.item>> \in H <=> u \in d.ids
    BY DEF ReadOK
  <1>5. ASSUME NEW q, NextOne(r, q)
        PROVE  Passes(r, q, u, H, C, T)
    <2>1. PICK h \in Range(r.todo) :
             /\ q.item = h.item /\ q.ids = h.ids \ {r.tag} /\ Range(q.todo) \subseteq Range(r.todo)
      BY <1>5 DEF NextOne
    <2>2. q.op = "delete" /\ q.tag = r.tag /\ q.side = r.side
      BY <1>5 DEF NextOne, Alike
    <2>3. <<q.side, q.item>> \in H <=> u \in q.ids
      BY <1>4, <2>1, <2>2
    <2>4. ReadOK(q, u, H)
      BY <1>4, <2>1, <2>2, <2>3 DEF ReadOK
    <2> QED
      BY <1>3, <2>2, <2>4
  <1>6. ASSUME NEW q, Stepped(r, q), ~Reading(q), ~Between(q)
        PROVE  Passes(r, q, u, H, C, T)
    <2>1. q.op = "delete" /\ q.tag = r.tag /\ q.side = r.side /\ q.todo = r.todo
      BY <1>6 DEF Stepped, Alike, Steady4
    <2>2. ReadOK(q, u, H)
      BY <1>4, <1>6, <2>1 DEF ReadOK
    <2> QED
      BY <1>3, <2>1, <2>2
  <1> QED
    BY <1>1, <1>2, <1>5, <1>6

\* What became of the request, with nothing changed about u.
Settles(c, r, u, H, C, T) ==
  \/ (Ends(c, TRUE) \/ Ends(c, FALSE)) /\ Leaves(r, u, T)
  \/ \E q : Turns(c, q) /\ Passes(r, q, u, H, C, T)

\* Fine survives what GoesOn makes of a deletion of another tag.
LEMMA WentOnSettles ==
  ASSUME NEW c, NEW r, NEW k, NEW u, NEW H, NEW C, NEW T,
         r.op = "delete", r.tag # u, k.op = "delete", k.tag # u, ReadOK(k, u, H), WentOn(c, k)
  PROVE  Settles(c, r, u, H, C, T)
  <1>1. Leaves(r, u, T)
    BY DEF Leaves, Owes, Creates
  <1>2. \A q : Passes(k, q, u, H, C, T) => Passes(r, q, u, H, C, T)
    BY <1>1 DEF Passes, Leaves
  <1>3. \A q : NextOne(k, q) => Passes(k, q, u, H, C, T)
    BY DeletionFine
  <1>4. \A q : Stepped(k, q) /\ q.step = "scan" => Passes(k, q, u, H, C, T)
    BY DeletionFine DEF Reading, Between
  <1>5. CASE \E q : Turns(c, q) /\ NextOne(k, q)
    BY ONLY <1>2, <1>3, <1>5 DEF Settles
  <1>6. CASE \E q : Turns(c, q) /\ Stepped(k, q) /\ q.doc = k.doc /\ q.step = "scan"
    BY ONLY <1>2, <1>4, <1>6 DEF Settles
  <1>7. CASE Ends(c, TRUE)
    BY ONLY <1>1, <1>7 DEF Settles
  <1> QED
    BY <1>5, <1>6, <1>7 DEF WentOn

\* Fine survives taking the next count of a dropped class.
LEMMA LoweredSettles ==
  ASSUME NEW c, NEW r \in TagRecord, NEW u \in TagIds, NEW H, NEW C, NEW T, Phase(r),
         Fine(r, u, H, C, T), r.op = "drop class", r.tag # u, Between(r) \/ Past(r), Lowered(c, r)
  PROVE  Settles(c, r, u, H, C, T)
  <1>1. ReadOK(r, u, H) /\ Told(r, u, H, C, T) /\ \A s \in Sides : Owes(r, s, u) => Paid(r, s, u, H, C)
    BY DEF Fine
  <1>2. /\ r.ids = {} => Leaves(r, u, T)
        /\ \A q : NextTag(r, q) => Passes(r, q, u, H, C, T)
    BY <1>1, NextTagFine
  <1>3. CASE r.ids = {} /\ Ends(c, TRUE)
    BY ONLY <1>2, <1>3 DEF Settles
  <1>4. CASE \E q : Turns(c, q) /\ NextTag(r, q)
    BY ONLY <1>2, <1>4 DEF Settles
  <1> QED
    BY <1>3, <1>4 DEF Lowered

\* Fine survives what follows a document that has been put.
LEMMA PutFine ==
  ASSUME NEW c, NEW r \in TagRecord, NEW u \in TagIds, NEW H, NEW C, NEW T, Phase(r),
         Fine(r, u, H, C, T), r.step = "put", r.doc # "map" \/ r.op = "delete" => r.tag # u,
         Followed(c, r)
  PROVE  Settles(c, r, u, H, C, T)
  <1>1. ReadOK(r, u, H) /\ Told(r, u, H, C, T) /\ \A s \in Sides : Owes(r, s, u) => Paid(r, s, u, H, C)
    BY DEF Fine
  <1>2. CASE Ends(c, TRUE) /\ (r.op \in {"create", "update"} \/ (r.op \in {"add", "remove"} /\ r.doc = "count"))
    <2>1. r.op \in {"create", "update"} => r.doc = "tag"
      BY DEF Phase
    <2>2. Leaves(r, u, T)
      BY <1>2, <2>1 DEF Leaves, Owes, Creates
    <2> QED
      BY <1>2, <2>2 DEF Settles
  <1>3. CASE r.op = "delete" /\ \E q : Turns(c, q) /\ Stepped(r, q) /\ q.step \in {"look", "scan"} /\ q.doc = "count"
    <2>1. \A q : Stepped(r, q) /\ q.doc = "count" => Passes(r, q, u, H, C, T)
      BY <1>1, <1>3, DeletionFine DEF Reading, Between
    <2> QED
      BY ONLY <1>3, <2>1 DEF Settles
  <1>4. CASE r.op = "delete" /\ WentOn(c, r)
    BY <1>1, <1>4, WentOnSettles
  <1>5. CASE /\ r.op \in {"add", "remove"} /\ r.doc = "map"
             /\ \E q : Turns(c, q) /\ Stepped(r, q) /\ q.doc = r.doc /\ q.step = "check"
    <2>1. PICK q : Turns(c, q) /\ Stepped(r, q) /\ q.doc = r.doc /\ q.step = "check"
      BY <1>5
    <2>2. /\ q.op = r.op /\ q.side = r.side /\ q.tag = r.tag
      BY <2>1 DEF Stepped, Alike
    <2>3. ReadOK(q, u, H)
      BY <1>5, <2>1, <2>2 DEF ReadOK, Reading, Between
    <2>4. \A s \in Sides : Owes(r, s, u) <=> Owes(q, s, u)
      BY <1>5, <2>1, <2>2 DEF Owes, Between, Past
    <2>5. \A s \in Sides : Paid(r, s, u, H, C) => Paid(q, s, u, H, C)
      BY <1>5, <2>1, <2>2 DEF Paid, Noted
    <2>6. Told(q, u, H, C, T)
      BY <1>1, <1>5, <2>1, <2>2 DEF Told
    <2>7. Passes(r, q, u, H, C, T)
      BY <1>1, <1>5, <2>2, <2>3, <2>4, <2>5, <2>6 DEF Passes, Fine, Creates
    <2> QED
      BY ONLY <2>1, <2>7 DEF Settles
  <1>6. CASE r.op = "drop class" /\ Lowered(c, r)
    <2>1. r.doc = "map" => r.tag = Missing /\ Between(r)
      BY <1>6 DEF Phase, Between
    <2>2. r.doc = "count" => Past(r)
      BY DEF Past
    <2>3. r.doc # "tag" /\ r.doc \in {"tag", "count", "map"}
      BY <1>6 DEF Phase, TagRecord
    <2>4. r.tag # u
      BY <2>1, TagsAssumption
    <2> QED
      BY <1>6, <2>1, <2>2, <2>3, <2>4, LoweredSettles
  <1> QED
    BY <1>2, <1>3, <1>4, <1>5, <1>6 DEF Followed

\* Fine survives a page of a deletion of another tag.
LEMMA ScanFine ==
  ASSUME TagTyped, NEW c, NEW r \in TagRecord, NEW u \in TagIds, NEW H, NEW C, NEW T, Phase(r),
         Fine(r, u, H, C, T), r.step = "scan", r.op = "delete", r.tag # u,
         \A d \in Range(maps[r.side]) : <<r.side, d.item>> \in H <=> u \in d.ids,
         NEW k \in TagRecord, NEW page, Paged(c, r, k, page)
  PROVE  Settles(c, r, u, H, C, T)
  <1>1. /\ k.op = "delete" /\ k.side = r.side /\ k.tag = r.tag /\ k.step = "scan"
        /\ page \subseteq Range(maps[r.side])
        /\ \A d \in Range(k.todo) : d \in Range(r.todo) \/ d \in page
        /\ Turns(c, k) \/ WentOn(c, k)
    BY DEF Paged, Alike
  <1>2. ReadOK(r, u, H)
    BY DEF Fine
  <1>3. \A d \in Range(k.todo) : <<k.side, d.item>> \in H <=> u \in d.ids
    BY <1>1, <1>2 DEF ReadOK
  <1>4. ReadOK(k, u, H)
    BY <1>1, <1>3 DEF ReadOK, Reading, Between
  <1>5. CASE WentOn(c, k)
    BY <1>1, <1>4, <1>5, WentOnSettles
  <1>6. CASE Turns(c, k)
    <2>1. Leaves(r, u, T)
      BY DEF Leaves, Owes, Creates
    <2>2. Fine(k, u, H, C, T)
      BY <1>1, <1>4, DeletionFine
    <2>3. Passes(r, k, u, H, C, T)
      BY <2>1, <2>2 DEF Passes, Leaves
    <2> QED
      BY ONLY <1>6, <2>3 DEF Settles
  <1> QED
    BY <1>1, <1>5, <1>6

--------------------------------------------------------------------------------
(* Tags: requests that run into each other.                                 *)

\* Requests that may meet on the same documents, some more closely than Disturb.
Bound(q, r) ==
  \/ q.side = r.side /\ (q.tag = r.tag \/ (q.item = r.item /\ q.item # Missing) \/ Sweeps(q) \/ Sweeps(r))
  \/ /\ q.tag = r.tag /\ q.op # "drop class" /\ r.op # "drop class"
     /\ {q.op, r.op} \cap {"update", "delete"} # {}
  \/ {q.op, r.op} = {"update", "drop class"}
  \/ q.op = "create" /\ r.op = "create" /\ q.tag = r.tag

\* Requests that may meet are marked.
Pairs ==
  \A c, d \in TagClients, q, r \in TagRecord :
    requests[c] = q /\ requests[d] = r /\ c # d /\ Bound(q, r) => Clashes(q)

\* An undisturbed request finds no document where it is about to add one.
Gap == \A c \in TagClients, r \in TagRecord : requests[c] = r /\ ~Clashes(r) /\ r.step = "put" => ~Exists(r)

\* Nobody asked to delete u, and no request of it was disturbed or dropped.
Calm(u) ==
  /\ u \in TagIds \ loose /\ \A s \in Sides : <<s, u>> \notin removed
  /\ \A c \in TagClients, r \in TagRecord : requests[c] = r /\ Clashes(r) => u \notin Touched(r)

LEMMA BoundSym ==
  ASSUME NEW q, NEW r, Bound(q, r)
  PROVE  Bound(r, q)
  BY DEF Bound

LEMMA BoundSame ==
  ASSUME NEW r, NEW q, NEW x, Same(r, q), Bound(q, x)
  PROVE  Bound(r, x)
  <1>1. q.op = r.op /\ q.side = r.side /\ (r.op # "drop class" => q.tag = r.tag)
        /\ (r.op # "delete" => q.item = r.item)
    BY DEF Same, Alike
  <1>2. Sweeps(q) <=> Sweeps(r)
    BY <1>1 DEF Sweeps
  <1>3. r.op \in {"delete", "drop class"} => Sweeps(r)
    BY DEF Sweeps
  <1>4. CASE q.side = x.side /\ (q.tag = x.tag \/ (q.item = x.item /\ q.item # Missing) \/ Sweeps(q) \/ Sweeps(x))
    BY <1>1, <1>2, <1>3, <1>4 DEF Bound
  <1>5. CASE /\ q.tag = x.tag /\ q.op # "drop class" /\ x.op # "drop class"
             /\ {q.op, x.op} \cap {"update", "delete"} # {}
    BY <1>1, <1>5 DEF Bound
  <1>6. CASE {q.op, x.op} = {"update", "drop class"}
    BY <1>1, <1>6 DEF Bound
  <1>7. CASE q.op = "create" /\ x.op = "create" /\ q.tag = x.tag
    BY <1>1, <1>7 DEF Bound
  <1> QED
    BY <1>4, <1>5, <1>6, <1>7 DEF Bound

\* What a request is when it is that of a caller before or after a step.
LEMMA StepWho ==
  ASSUME TagTyped, NEW c \in TagClients, NEW r \in TagRecord, requests[c] = r, TagSteps(c)
  PROVE  /\ \A d \in TagClients \ {c} : requests'[d] = requests[d]
         /\ \A q \in TagRecord : requests'[c] = q => Same(r, q) /\ Phase(q)
         /\ Clashes(r) /\ requests'[c] = NoRequest => Touched(r) \subseteq loose'
         /\ requests'[c] \in TagRecord \cup {NoRequest} /\ loose \subseteq loose'
         /\ made' = made /\ removed' = removed
  BY StepProceeds, Proceeded, NoRequestIsNone

\* Requests that would run into each other stay marked through their steps.
LEMMA PairsStep ==
  ASSUME TagTyped, Pairs, NEW c \in TagClients, NEW r \in TagRecord, requests[c] = r, TagSteps(c)
  PROVE  Pairs'
  <1> SUFFICES ASSUME NEW d \in TagClients, NEW e \in TagClients, NEW q \in TagRecord, NEW x \in TagRecord,
                      requests'[d] = q, requests'[e] = x, d # e, Bound(q, x)
               PROVE  Clashes(q)
    BY DEF Pairs
  <1>1. CASE d = c
    <2>1. Same(r, q) /\ requests[e] = x
      BY <1>1, StepWho
    <2>2. Bound(r, x)
      BY <2>1, BoundSame
    <2>3. Clashes(r)
      BY <1>1, <2>1, <2>2 DEF Pairs
    <2> QED
      BY <2>1, <2>3 DEF Same, Alike
  <1>2. CASE e = c
    <2>1. Same(r, x) /\ requests[d] = q
      BY <1>2, StepWho
    <2>2. Bound(q, r)
      BY <2>1, BoundSame, BoundSym
    <2> QED
      BY <1>2, <2>1, <2>2 DEF Pairs
  <1>3. CASE d # c /\ e # c
    BY <1>3, StepWho DEF Pairs
  <1> QED
    BY <1>1, <1>2, <1>3

LEMMA BoundAkin ==
  ASSUME NEW q, NEW x, NEW k, NEW y, Akin(q, k), Akin(x, y), Bound(k, y)
  PROVE  Bound(q, x)
  BY DEF Akin, Bound, Sweeps

\* A new request is disturbed by those it is bound to.
LEMMA BoundDisturbs ==
  ASSUME TagTyped, NEW r \in TagRecord, Starts(r), NEW d \in TagClients, NEW x \in TagRecord, requests[d] = x,
         Bound(x, r)
  PROVE  Disturb(x, r)
  <1>1. Phase(x) /\ made \subseteq TagIds /\ Missing \notin TagIds
    BY TagsAssumption DEF TagTyped
  <1>2. r.op = "create" /\ x.op # "drop class" => x.tag # r.tag
    BY <1>1 DEF Starts, Phase
  <1>3. CASE x.side = r.side /\ (x.tag = r.tag \/ (x.item = r.item /\ x.item # Missing) \/ Sweeps(x) \/ Sweeps(r))
    BY <1>3 DEF Disturb
  <1>4. CASE /\ x.tag = r.tag /\ x.op # "drop class" /\ r.op # "drop class"
             /\ {x.op, r.op} \cap {"update", "delete"} # {}
    BY <1>4 DEF Disturb
  <1>5. CASE {x.op, r.op} = {"update", "drop class"}
    BY <1>5 DEF Disturb
  <1>6. CASE x.op = "create" /\ r.op = "create" /\ x.tag = r.tag
    BY <1>2, <1>6
  <1> QED
    BY <1>3, <1>4, <1>5, <1>6 DEF Bound

\* One that begins is marked with all it would run into.
LEMMA PairsAsk ==
  ASSUME TagTyped, Pairs, NEW c \in TagClients, NEW r \in TagRecord, Ask(c, r), Starts(r)
  PROVE  Pairs'
  <1> SUFFICES ASSUME NEW d \in TagClients, NEW e \in TagClients, NEW q \in TagRecord, NEW x \in TagRecord,
                      requests'[d] = q, requests'[e] = x, d # e, Bound(q, x)
               PROVE  Clashes(q)
    BY DEF Pairs
  <1>0. \A a \in TagClients \ {c}, y \in TagRecord : requests'[a] = y =>
          \E k \in TagRecord : /\ requests[a] = k /\ Akin(k, y)
                               /\ Clashes(y) <=> Clashes(k) \/ Disturb(k, r)
    <2> SUFFICES ASSUME NEW a \in TagClients \ {c}, NEW y \in TagRecord, requests'[a] = y
                 PROVE  \E k \in TagRecord : /\ requests[a] = k /\ Akin(k, y)
                                             /\ Clashes(y) <=> Clashes(k) \/ Disturb(k, r)
      OBVIOUS
    <2>1. requests[a] \in TagRecord \cup {NoRequest}
      BY DEF TagTyped
    <2>2. requests[a] # NoRequest
      BY AskedHow, NoRequestIsNone
    <2>3. PICK k \in TagRecord : requests[a] = k
      BY <2>1, <2>2
    <2>4. \E z \in TagRecord : /\ requests'[a] = z /\ Akin(k, z)
                               /\ Clashes(z) <=> Clashes(k) \/ Disturb(k, r)
      BY <2>3, AskedHow
    <2> QED
      BY <2>3, <2>4
  <1>1. PICK m \in TagRecord :
          /\ requests'[c] = m /\ Akin(r, m)
          /\ Clashes(m) <=> \E a \in TagClients, k \in TagRecord : requests[a] = k /\ Disturb(k, r)
    BY AskedHow
  <1>2. Akin(r, r)
    BY DEF Akin, Steady4
  <1>3. CASE d = c
    <2>1. q = m /\ e \in TagClients \ {c}
      BY <1>1, <1>3
    <2>2. PICK k \in TagRecord : requests[e] = k /\ Akin(k, x)
      BY <1>0, <2>1
    <2>3. Bound(k, r)
      BY <1>1, <2>1, <2>2, BoundAkin, BoundSym
    <2>4. Disturb(k, r)
      BY <2>2, <2>3, BoundDisturbs
    <2> QED
      BY <1>1, <2>1, <2>2, <2>4
  <1>4. CASE e = c
    <2>1. x = m /\ d \in TagClients \ {c}
      BY <1>1, <1>4
    <2>2. PICK k \in TagRecord : requests[d] = k /\ Akin(k, q) /\ (Clashes(q) <=> Clashes(k) \/ Disturb(k, r))
      BY <1>0, <2>1
    <2>3. Bound(k, r)
      BY <1>1, <2>1, <2>2, BoundAkin
    <2>4. Disturb(k, r)
      BY <2>2, <2>3, BoundDisturbs
    <2> QED
      BY <2>2, <2>4
  <1>5. CASE d # c /\ e # c
    <2>1. PICK k \in TagRecord : requests[d] = k /\ Akin(k, q) /\ (Clashes(q) <=> Clashes(k) \/ Disturb(k, r))
      BY <1>0, <1>5
    <2>2. PICK y \in TagRecord : requests[e] = y /\ Akin(y, x)
      BY <1>0, <1>5
    <2>3. Bound(k, y)
      BY <2>1, <2>2, BoundAkin
    <2>4. Clashes(k)
      BY <2>1, <2>2, <2>3 DEF Pairs
    <2> QED
      BY <2>1, <2>4
  <1> QED
    BY <1>3, <1>4, <1>5

\* One that is dropped unmarks nobody.
LEMMA PairsAbandon ==
  ASSUME TagTyped, Pairs, NEW c \in TagClients, Abandon(c)
  PROVE  Pairs'
  <1>1. \A d \in TagClients, q \in TagRecord : requests'[d] = q => requests[d] = q
    BY AbandonedHow, NoRequestIsNone
  <1> QED
    BY <1>1 DEF Pairs

LEMMA ExistsOf ==
  ASSUME NEW x
  PROVE  /\ Exists(x) <=> \/ x.doc = "tag" /\ x.tag \in tags
                          \/ x.doc = "count" /\ counts[x.side][x.tag] # Missing
                          \/ x.doc = "map" /\ \E d \in Range(maps[x.side]) : d.item = x.item
         /\ Exists(x)' <=> \/ x.doc = "tag" /\ x.tag \in tags'
                           \/ x.doc = "count" /\ counts'[x.side][x.tag] # Missing
                           \/ x.doc = "map" /\ \E d \in Range(maps'[x.side]) : d.item = x.item
  <1>1. Place(x.side, x.item) # {} <=> \E d \in Range(maps[x.side]) : d.item = x.item
    BY DEF Place, Range
  <1>2. (Place(x.side, x.item) # {})' <=> \E d \in Range(maps'[x.side]) : d.item = x.item
    BY DEF Place, Range
  <1> QED
    BY <1>1, <1>2 DEF Exists

\* What the steps of another request do to the document a request is at.
LEMMA OtherGap ==
  ASSUME TagTyped, NEW c \in TagClients, NEW r \in TagRecord, requests[c] = r, Phase(r),
         \/ Reads
         \/ r.step = "drop" /\ Dropped(r)
         \/ r.step = "put" /\ Writes(r) /\ ~Exists(r) /\ Put(r),
         NEW x \in TagRecord, Phase(x), ~Bound(x, r), ~Exists(x)
  PROVE  ~Exists(x)'
  <1>1. /\ r.side \in Sides /\ x.side \in Sides /\ x.doc \in {"tag", "count", "map"}
        /\ r.doc \in {"tag", "count", "map"} /\ r.op \in TagOps /\ x.op \in TagOps
        /\ counts \in [Sides -> [TagIds -> Nat \cup {Missing}]]
        /\ Missing \notin Images \cup Classes
    BY TagsAssumption DEF TagRecord, TagTyped
  <1>2. CASE Reads
    BY <1>2, ExistsOf DEF Reads
  <1>3. CASE r.step = "drop" /\ Dropped(r)
    <2>1. tags' \subseteq tags
      BY <1>3 DEF Dropped
    <2>2. x.doc = "count" /\ counts[x.side][x.tag] = Missing => counts'[x.side][x.tag] = Missing
      <3>1. x.doc = "count" => x.tag \in TagIds
        BY DEF Phase, TagTyped
      <3>2. r.doc = "count" => r.tag \in TagIds
        BY DEF Phase, TagTyped
      <3>3. r.doc # "count" => counts' = counts
        BY <1>3 DEF Dropped
      <3>4. r.doc = "count" => counts' = [counts EXCEPT ![r.side][r.tag] = Missing]
        BY <1>3 DEF Dropped
      <3> QED
        BY ONLY <1>1, <3>1, <3>2, <3>3, <3>4
    <2>3. \A d \in Range(maps'[x.side]) : d \in Range(maps[x.side])
      <3>1. r.doc # "map" => maps' = maps
        BY <1>3 DEF Dropped
      <3>2. r.doc = "map" => /\ \A d \in Range(maps'[r.side]) : d \in Range(maps[r.side])
                             /\ \A s \in Sides \ {r.side} : maps'[s] = maps[s]
        BY <1>3 DEF Dropped, Stocked
      <3> QED
        BY ONLY <1>1, <3>1, <3>2
    <2> QED
      BY <2>1, <2>2, <2>3, ExistsOf
  <1>4. CASE r.step = "put" /\ Writes(r) /\ ~Exists(r) /\ Put(r)
    <2>1. x.doc = "tag" /\ x.tag \in tags' => x.tag \in tags
      <3>1. CASE r.doc = "tag" /\ x.doc = "tag"
        <4>1. r.op \in {"create", "update"} /\ x.op \in {"create", "update", "delete"}
          BY <1>1, <1>4, <3>1 DEF Phase, Writes, TagOps
        <4>2. r.tag # x.tag
          BY <4>1 DEF Bound
        <4> QED
          BY <1>4, <4>2 DEF Put
      <3>2. CASE r.doc # "tag"
        BY <1>4, <3>2 DEF Put
      <3> QED
        BY <3>1, <3>2
    <2>2. x.doc = "count" /\ counts[x.side][x.tag] = Missing => counts'[x.side][x.tag] = Missing
      <3>1. x.doc = "count" => x.tag \in TagIds
        BY DEF Phase, TagTyped
      <3>2. r.doc = "count" => r.tag \in TagIds
        BY DEF Phase, TagTyped
      <3>3. r.doc # "count" => counts' = counts
        BY <1>4 DEF Put
      <3>4. r.doc = "count" => counts' = [counts EXCEPT ![r.side][r.tag] = r.n]
        BY <1>4 DEF Put
      <3>5. r.side # x.side \/ r.tag # x.tag
        BY DEF Bound
      <3> QED
        BY ONLY <1>1, <3>1, <3>2, <3>3, <3>4, <3>5
    <2>3. x.doc = "map" => \A d \in Range(maps'[x.side]) : d \in Range(maps[x.side]) \/ d.item # x.item
      <3>1. r.doc # "map" => maps' = maps
        BY <1>4 DEF Put
      <3> DEFINE new == [item |-> r.item, ids |-> r.ids]
      <3>2. r.doc = "map" => /\ Range(maps'[r.side]) = Range(maps[r.side]) \cup {new}
                             /\ \A s \in Sides \ {r.side} : maps'[s] = maps[s]
        BY <1>4 DEF Put, Stocked
      <3>3. new.item = r.item
        OBVIOUS
      <3> HIDE DEF new
      <3>4. r.doc = "map" => r.item # Missing
        <4>1. r.doc = "map" => r.item \in Items(r.side)
          BY <1>1, <1>4 DEF Phase, Writes, TagOps
        <4> QED
          BY <1>1, <4>1 DEF Items
      <3>5. r.side = x.side /\ r.item = x.item => r.item = Missing
        BY DEF Bound
      <3> QED
        BY ONLY <1>1, <3>1, <3>2, <3>3, <3>4, <3>5
    <2> QED
      BY <2>1, <2>2, <2>3, ExistsOf
  <1> QED
    BY <1>2, <1>3, <1>4

\* A request that is to add a document has deleted it or found none.
LEMMA OwnGap ==
  ASSUME TagTyped, NEW c \in TagClients, NEW r \in TagRecord, requests[c] = r, TagSteps(c),
         NEW q \in TagRecord, requests'[c] = q, q.step = "put"
  PROVE  /\ ~Exists(q)'
         /\ \/ r.step = "look" /\ ~Exists(r) /\ Stepped(r, q) /\ q.doc = r.doc /\ Reads
            \/ r.step = "drop" /\ Dropped(r) /\ Stepped(r, q) /\ q.doc = r.doc
  <1>0. /\ r.side \in Sides /\ counts \in [Sides -> [TagIds -> Nat \cup {Missing}]] /\ Phase(r)
        /\ r.doc \in {"tag", "count", "map"} /\ made \subseteq TagIds
    BY DEF TagRecord, TagTyped
  <1>1. ~Ends(c, TRUE) /\ ~Ends(c, FALSE)
    BY Ended, NoRequestIsNone DEF TagTyped
  <1>2. \A k : Turns(c, k) => k = q
    BY DEF Turns, Goes, TagTyped
  <1>3. \A k : WentOn(c, k) => q.step # "put"
    BY <1>1, <1>2 DEF WentOn, NextOne
  <1>4. Lowered(c, r) => q.step # "put"
    BY <1>1, <1>2 DEF Lowered, NextTag
  <1>5. Followed(c, r) => q.step # "put"
    BY <1>1, <1>2, <1>3, <1>4 DEF Followed
  <1>6. ~ReadTagDocument(c)
    BY <1>1, <1>2, TagDocumentRead
  <1>7. ~ReadImageTagIds(c)
    BY <1>1, <1>2, IdsRead DEF Informed
  <1>8. ~AddDocument(c)
    BY <1>1, <1>5, DocumentAdded
  <1>9. ~CheckTag(c)
    BY <1>1, <1>2, <1>4, TagChecked
  <1>10. ~ReadTagCount(c)
    BY <1>2, CountRead DEF Counted
  <1>11. ~ScanPage(c)
    <2> SUFFICES ASSUME ScanPage(c) PROVE FALSE
      OBVIOUS
    <2>1. PICK k, page : k \in TagRecord /\ Paged(c, r, k, page)
      BY PageScanned
    <2>2. r.step = "scan" /\ k.step = "scan"
      BY <2>1, PageScanned DEF Paged
    <2> QED
      BY <1>2, <1>3, <2>1, <2>2 DEF Paged
  <1>12. CASE LookForDocument(c)
    <2>1. r.step = "look" /\ ~Exists(r) /\ Stepped(r, q) /\ q.doc = r.doc /\ Reads
      BY <1>2, <1>12, DocumentLookedFor
    <2>2. ~Exists(q)'
      BY <2>1, ExistsOf DEF Reads, Stepped, Alike
    <2> QED
      BY <2>1, <2>2
  <1>13. CASE DeleteDocument(c)
    <2>1. r.step = "drop" /\ Stepped(r, q) /\ q.doc = r.doc
      BY <1>2, <1>13, DocumentDeleted
    <2>2. Dropped(r)
      BY <1>13, DroppedBy
    <2>3. q.side = r.side /\ q.tag = r.tag /\ q.item = r.item
      BY <2>1 DEF Stepped, Alike
    <2>4. r.doc = "tag" => r.tag \notin tags'
      BY <2>2 DEF Dropped
    <2>5. r.doc = "count" => counts'[r.side][r.tag] = Missing
      <3>1. r.doc = "count" => r.tag \in TagIds /\ counts' = [counts EXCEPT ![r.side][r.tag] = Missing]
        BY <1>0, <2>2 DEF Dropped, Phase
      <3> QED
        BY ONLY <1>0, <3>1
    <2>6. r.doc = "map" => \A d \in Range(maps'[r.side]) : d.item # r.item
      BY <2>2 DEF Dropped, Stocked
    <2> QED
      BY <2>1, <2>2, <2>3, <2>4, <2>5, <2>6, ExistsOf
  <1> QED
    BY <1>6, <1>7, <1>8, <1>9, <1>10, <1>11, <1>12, <1>13 DEF TagSteps

\* Between the delete and the add of a document nobody else puts it.
LEMMA GapStep ==
  ASSUME TagTyped, Pairs, Gap, NEW c \in TagClients, NEW r \in TagRecord, requests[c] = r, TagSteps(c)
  PROVE  Gap'
  <1>1. ASSUME NEW d \in TagClients, NEW x \in TagRecord, requests'[d] = x, ~Clashes(x), x.step = "put"
        PROVE  ~Exists(x)'
    <2>1. CASE d = c
      BY <1>1, <2>1, OwnGap
    <2>2. CASE d # c
      <3>1. requests[d] = x
        BY <1>1, <2>2, StepWho
      <3>2. ~Exists(x) /\ ~Bound(x, r)
        BY <1>1, <2>2, <3>1 DEF Gap, Pairs
      <3>3. Phase(x) /\ Phase(r)
        BY <3>1 DEF TagTyped
      <3> QED
        BY <3>2, <3>3, StepStore, OtherGap
    <2> QED
      BY <2>1, <2>2
  <1> QED
    BY <1>1 DEF Gap

\* A request that begins has deleted nothing.
LEMMA GapAsk ==
  ASSUME TagTyped, Gap, NEW c \in TagClients, NEW r \in TagRecord, Ask(c, r), Starts(r)
  PROVE  Gap'
  <1>1. ASSUME NEW d \in TagClients, NEW x \in TagRecord, requests'[d] = x, ~Clashes(x), x.step = "put"
        PROVE  ~Exists(x)'
    <2>1. CASE d = c
      <3>1. Akin(r, x)
        BY <1>1, <2>1, AskedHow
      <3> QED
        BY <1>1, <3>1 DEF Akin, Starts
    <2>2. CASE d # c
      <3>1. requests[d] # NoRequest
        BY <1>1, <2>2, AskedHow, NoRequestIsNone
      <3>2. PICK k \in TagRecord : requests[d] = k
        BY <3>1 DEF TagTyped
      <3>3. Akin(k, x) /\ ~Clashes(k)
        BY <1>1, <2>2, <3>2, AskedHow
      <3>4. ~Exists(k)
        BY <1>1, <3>2, <3>3 DEF Gap, Akin
      <3>5. Reads
        BY AskedHow
      <3> QED
        BY <3>3, <3>4, <3>5, ExistsOf DEF Reads, Akin
    <2> QED
      BY <2>1, <2>2
  <1> QED
    BY <1>1 DEF Gap

\* A request that is dropped leaves no gap that counts.
LEMMA GapAbandon ==
  ASSUME TagTyped, Gap, NEW c \in TagClients, Abandon(c)
  PROVE  Gap'
  <1>1. \A d \in TagClients, q \in TagRecord : requests'[d] = q => requests[d] = q
    BY AbandonedHow, NoRequestIsNone
  <1>2. \A x : Exists(x)' <=> Exists(x)
    BY AbandonedHow DEF Reads, Exists, Place
  <1> QED
    BY <1>1, <1>2 DEF Gap

\* A tag that is calm after a step was so before it.
LEMMA CalmStep ==
  ASSUME TagTyped, NEW c \in TagClients, NEW r \in TagRecord, requests[c] = r, TagSteps(c),
         NEW u, Calm(u)'
  PROVE  Calm(u)
  <1>1. u \in TagIds \ loose' /\ \A s \in Sides : <<s, u>> \notin removed'
    BY DEF Calm
  <1>2. \A d \in TagClients, x \in TagRecord : requests'[d] = x /\ Clashes(x) => u \notin Touched(x)
    BY DEF Calm
  <1>3. u # Missing
    BY <1>1, TagsAssumption
  <1>4. ASSUME NEW d \in TagClients, NEW x \in TagRecord, requests[d] = x, Clashes(x)
        PROVE  u \notin Touched(x)
    <2>1. CASE d # c
      BY <1>2, <1>4, <2>1, StepWho
    <2>2. CASE d = c /\ requests'[c] = NoRequest
      BY <1>1, <1>4, <2>2, StepWho
    <2>3. CASE d = c /\ requests'[c] # NoRequest
      <3>1. PICK q \in TagRecord : requests'[c] = q
        BY <2>3, StepWho
      <3>2. Same(r, q)
        BY <3>1, StepWho
      <3>3. Clashes(q) /\ Touched(r) \subseteq Touched(q) \cup {Missing}
        BY <1>4, <2>3, <3>2 DEF Same, Alike
      <3> QED
        BY <1>2, <1>3, <1>4, <2>3, <3>1, <3>3
    <2> QED
      BY <2>1, <2>2, <2>3
  <1> QED
    BY <1>1, <1>4, StepWho DEF Calm

\* A tag that is calm after a request begins was calm before.
LEMMA CalmAsk ==
  ASSUME TagTyped, NEW c \in TagClients, NEW r \in TagRecord, Ask(c, r), Starts(r), NEW u, Calm(u)'
  PROVE  Calm(u)
  <1>1. u \in TagIds \ loose' /\ \A s \in Sides : <<s, u>> \notin removed'
    BY DEF Calm
  <1>2. \A d \in TagClients, x \in TagRecord : requests'[d] = x /\ Clashes(x) => u \notin Touched(x)
    BY DEF Calm
  <1>3. removed \subseteq removed' /\ loose' = loose
    BY AskTyped, AskedHow
  <1>4. ASSUME NEW d \in TagClients, NEW x \in TagRecord, requests[d] = x, Clashes(x)
        PROVE  u \notin Touched(x)
    <2>1. d # c
      BY <1>4, AskedHow, NoRequestIsNone
    <2>2. PICK y \in TagRecord : requests'[d] = y /\ Akin(x, y) /\ Clashes(y)
      BY <1>4, <2>1, AskedHow
    <2> QED
      BY <1>2, <2>2 DEF Akin, Touched
  <1> QED
    BY <1>1, <1>3, <1>4 DEF Calm

\* A dropped request takes its tags out of the calm ones.
LEMMA CalmAbandon ==
  ASSUME TagTyped, NEW c \in TagClients, Abandon(c), NEW u, Calm(u)'
  PROVE  /\ Calm(u)
         /\ \A r \in TagRecord : requests[c] = r => u \notin Touched(r)
  <1>1. u \in TagIds \ loose' /\ \A s \in Sides : <<s, u>> \notin removed'
    BY DEF Calm
  <1>2. \A d \in TagClients, x \in TagRecord : requests'[d] = x /\ Clashes(x) => u \notin Touched(x)
    BY DEF Calm
  <1>3. PICK r \in TagRecord : requests[c] = r /\ loose' = loose \cup Touched(r)
    BY AbandonedHow
  <1>4. u \notin Touched(r) /\ u \notin loose
    BY <1>1, <1>3
  <1>5. \A d \in TagClients, x \in TagRecord : requests[d] = x /\ Clashes(x) => u \notin Touched(x)
    BY <1>2, <1>3, <1>4, AbandonedHow
  <1> QED
    BY <1>1, <1>3, <1>4, <1>5, AbandonedHow DEF Calm

--------------------------------------------------------------------------------
(* Tags: the items that have a tag, those included whose tags are being     *)
(* written.                                                                 *)

Brings(r, s, i, u) == r.side = s /\ r.item = i /\ Between(r) /\ r.op # "drop class" /\ u \in r.ids
Has(s, i, u) ==
  \/ Holds(s, i, u)
  \/ \E c \in TagClients, r \in TagRecord : requests[c] = r /\ Brings(r, s, i, u)
Have(u) == {p \in Sides \X (Images \cup Classes) : Has(p[1], p[2], u)}
Column(u) == [s \in Sides |-> counts[s][u]]

\* Fine for all requests, and the counts and the document when none of them is at work.
FineAll(u) ==
  /\ \A c \in TagClients, r \in TagRecord :
       requests[c] = r => Fine(r, u, Have(u), Column(u), tags)
  /\ \A s \in Sides :
       (\A c \in TagClients, r \in TagRecord : requests[c] = r => ~Owes(r, s, u))
         => CountIn(Column(u), s) = DueOf(Have(u), s)
  /\ u \in made \ tags => \E c \in TagClients, r \in TagRecord : requests[c] = r /\ Creates(r, u)

LEMMA HaveOf ==
  ASSUME NEW u, NEW s \in Sides, NEW i \in Images \cup Classes
  PROVE  /\ <<s, i>> \in Have(u) <=> Has(s, i, u)
         /\ <<s, i>> \in Have(u)' <=> Has(s, i, u)'
  BY DEF Have

\* An undisturbed request is the only one at its item.
LEMMA Alone4 ==
  ASSUME TagTyped, Pairs, NEW u, Calm(u), NEW c \in TagClients, NEW r \in TagRecord, requests[c] = r,
         NEW i, i # Missing, i = r.item \/ Sweeps(r)
  PROVE  \A d \in TagClients \ {c}, x \in TagRecord : requests[d] = x => ~Brings(x, r.side, i, u)
  <1> SUFFICES ASSUME NEW d \in TagClients \ {c}, NEW x \in TagRecord, requests[d] = x, Brings(x, r.side, i, u)
               PROVE  FALSE
    OBVIOUS
  <1>1. x.side = r.side /\ x.item = i /\ u \in x.ids
    BY DEF Brings
  <1>2. Bound(x, r)
    BY <1>1 DEF Bound
  <1>3. Clashes(x)
    BY <1>2 DEF Pairs
  <1>4. u \in Touched(x)
    BY <1>1 DEF TagTyped, Phase, Touched
  <1> QED
    BY <1>3, <1>4 DEF Calm

\* An item has a tag where its document says so, if no one rewrites it.
LEMMA HoldsHas ==
  ASSUME TagTyped, Pairs, NEW u, Calm(u), NEW c \in TagClients, NEW r \in TagRecord, requests[c] = r,
         NEW i, i # Missing, i = r.item \/ Sweeps(r), ~Between(r)
  PROVE  Has(r.side, i, u) <=> Holds(r.side, i, u)
  <1>1. \A d \in TagClients, x \in TagRecord : requests[d] = x => ~Brings(x, r.side, i, u)
    BY Alone4 DEF Brings
  <1> QED
    BY <1>1 DEF Has

\* What a step does to who holds u.
LEMMA HoldsStep ==
  ASSUME TagTyped, NEW r \in TagRecord, Phase(r), NEW s \in Sides, NEW i, i # Missing, NEW u,
         \/ Reads
         \/ r.step = "drop" /\ Dropped(r)
         \/ r.step = "put" /\ Writes(r) /\ ~Exists(r) /\ Put(r)
  PROVE  /\ r.doc # "map" \/ s # r.side \/ i # r.item \/ Reads => (Holds(s, i, u)' <=> Holds(s, i, u))
         /\ r.doc = "map" /\ s = r.side /\ i = r.item /\ r.step = "drop" /\ Dropped(r) => ~Holds(s, i, u)'
         /\ r.doc = "map" /\ s = r.side /\ i = r.item /\ r.step = "put" /\ Put(r) /\ ~Exists(r)
              => ~Holds(s, i, u) /\ (Holds(s, i, u)' <=> u \in r.ids)
  <1>1. Holds(s, i, u)' <=> \E d \in Range(maps'[s]) : d.item = i /\ u \in d.ids
    BY DEF Holds, Range
  <1>2. Holds(s, i, u) <=> \E d \in Range(maps[s]) : d.item = i /\ u \in d.ids
    BY DEF Holds
  <1>3. CASE Reads /\ r.step # "drop" /\ r.step # "put"
    BY <1>1, <1>2, <1>3 DEF Reads
  <1>4. Reads => maps' = maps
    BY DEF Reads
  <1>5. maps' = maps => (Holds(s, i, u)' <=> Holds(s, i, u))
    BY <1>1, <1>2
  <1>6. r.doc # "map" /\ (Dropped(r) \/ Put(r)) => maps' = maps
    BY DEF Dropped, Put
  <1>7. ASSUME r.doc = "map", Dropped(r)
        PROVE  /\ s # r.side \/ i # r.item => (Holds(s, i, u)' <=> Holds(s, i, u))
               /\ s = r.side /\ i = r.item => ~Holds(s, i, u)'
    <2>1. /\ Range(maps'[r.side]) = {d \in Range(maps[r.side]) : d.item # r.item}
          /\ \A x \in Sides \ {r.side} : maps'[x] = maps[x]
      BY <1>7 DEF Dropped, Stocked
    <2> QED
      BY ONLY <2>1, <1>1, <1>2, s \in Sides
  <1>8. ASSUME r.doc = "map", Put(r)
        PROVE  /\ s # r.side \/ i # r.item => (Holds(s, i, u)' <=> Holds(s, i, u))
               /\ s = r.side /\ i = r.item /\ ~Exists(r) => ~Holds(s, i, u) /\ (Holds(s, i, u)' <=> u \in r.ids)
    <2> DEFINE new == [item |-> r.item, ids |-> r.ids]
    <2>1. /\ Range(maps'[r.side]) = Range(maps[r.side]) \cup {new}
          /\ \A x \in Sides \ {r.side} : maps'[x] = maps[x]
      BY <1>8 DEF Put, Stocked
    <2>2. new.item = r.item /\ new.ids = r.ids
      OBVIOUS
    <2> HIDE DEF new
    <2>3. ~Exists(r) => \A d \in Range(maps[r.side]) : d.item # r.item
      BY <1>8, ExistsOf
    <2> QED
      BY ONLY <2>1, <2>2, <2>3, <1>1, <1>2, s \in Sides
  <1> QED
    BY <1>4, <1>5, <1>6, <1>7, <1>8

LEMMA PutStep ==
  ASSUME TagTyped, NEW c \in TagClients, NEW r \in TagRecord, requests[c] = r, TagSteps(c), r.step = "put",
         ~Exists(r), Writes(r)
  PROVE  Put(r)
  <1>1. AddDocument(c)
    BY TagDocumentRead, IdsRead, DocumentLookedFor, DocumentDeleted, TagChecked, CountRead, PageScanned
       DEF TagSteps
  <1> QED
    BY <1>1, PutBy

LEMMA DropStep ==
  ASSUME TagTyped, NEW c \in TagClients, NEW r \in TagRecord, requests[c] = r, TagSteps(c), r.step = "drop"
  PROVE  /\ Dropped(r)
         /\ \E q \in TagRecord : requests'[c] = q /\ q.step = "put" /\ q.doc = r.doc /\ Stepped(r, q)
  <1>1. DeleteDocument(c)
    BY TagDocumentRead, IdsRead, DocumentLookedFor, DocumentAdded, TagChecked, CountRead, PageScanned
       DEF TagSteps
  <1> QED
    BY <1>1, DocumentDeleted, DroppedBy DEF Turns, Goes, TagTyped

\* Only the step that deletes a document to rewrite it changes who has a tag.
LEMMA HasStep ==
  ASSUME TagTyped, Pairs, Gap, NEW u, Calm(u), NEW c \in TagClients, NEW r \in TagRecord, requests[c] = r,
         TagSteps(c), ReadOK(r, u, Have(u)), NEW s \in Sides, NEW i \in Images \cup Classes
  PROVE  \/ Has(s, i, u)' <=> Has(s, i, u)
         \/ /\ Turning(r, u) /\ s = r.side /\ i = r.item
            /\ \E q \in TagRecord : requests'[c] = q /\ Stepped(r, q) /\ q.step = "put" /\ q.doc = "map"
            /\ Has(s, i, u)' <=> r.op = "add"
  <1>1. /\ i # Missing /\ r.side \in Sides /\ Phase(r) /\ r.op \in TagOps
        /\ r.op = "delete" => r.tag # u
    <2>1. i # Missing /\ r.side \in Sides /\ Phase(r) /\ r.op \in TagOps
      BY TagsAssumption DEF TagTyped, TagRecord
    <2>2. r.op = "delete" => <<r.side, r.tag>> \in removed
      BY <2>1 DEF Phase
    <2> QED
      BY <2>1, <2>2 DEF Calm
  <1>2. Clashes(r) => u \notin r.ids
    BY <1>1 DEF Calm, Phase, Touched
  <1>3. \/ Reads
        \/ r.step = "drop" /\ Dropped(r)
        \/ r.step = "put" /\ Writes(r) /\ ~Exists(r) /\ Put(r)
    BY StepStore
  <1> DEFINE Others == \E d \in TagClients \ {c}, x \in TagRecord : requests[d] = x /\ Brings(x, s, i, u)
             Mine == \E q \in TagRecord : requests'[c] = q /\ Brings(q, s, i, u)
  <1>4. Has(s, i, u) <=> Holds(s, i, u) \/ Brings(r, s, i, u) \/ Others
    BY DEF Has
  <1>5. Has(s, i, u)' <=> Holds(s, i, u)' \/ Mine \/ Others
    <2>1. \A d \in TagClients \ {c} : requests'[d] = requests[d]
      BY StepWho
    <2>2. (\E d \in TagClients, x \in TagRecord : requests'[d] = x /\ Brings(x, s, i, u)) <=> Mine \/ Others
      BY <2>1
    <2>3. Has(s, i, u)' <=> \/ Holds(s, i, u)'
                            \/ \E d \in TagClients, x \in TagRecord : requests'[d] = x /\ Brings(x, s, i, u)
      BY DEF Has
    <2> QED
      BY ONLY <2>2, <2>3
  <1>6. ASSUME NEW q \in TagRecord, requests'[c] = q, Brings(q, s, i, u)
        PROVE  /\ q.step = "put" /\ q.doc = "map" /\ Stepped(r, q) /\ r.doc = "map" /\ s = r.side /\ i = r.item
               /\ u \in r.ids /\ r.op # "drop class"
               /\ \/ r.step = "look" /\ ~Exists(r) /\ Reads
                  \/ r.step = "drop" /\ Dropped(r)
    <2>1. q.step = "put" /\ q.doc = "map" /\ q.side = s /\ q.item = i /\ q.op # "drop class" /\ u \in q.ids
      BY <1>6 DEF Brings, Between
    <2>2. /\ Stepped(r, q) /\ q.doc = r.doc
          /\ \/ r.step = "look" /\ ~Exists(r) /\ Reads
             \/ r.step = "drop" /\ Dropped(r)
      BY <1>6, <2>1, OwnGap
    <2> QED
      BY <2>1, <2>2 DEF Stepped, Alike
  <1>7. s = r.side /\ i = r.item => ~Others
    BY <1>1, Alone4
  <1>8. CASE s # r.side \/ i # r.item
    <2>1. ~Mine /\ ~Brings(r, s, i, u)
      BY <1>6, <1>8 DEF Brings
    <2>2. Holds(s, i, u)' <=> Holds(s, i, u)
      BY <1>1, <1>3, <1>8, HoldsStep
    <2> HIDE DEF Mine, Others
    <2> QED
      BY ONLY <1>4, <1>5, <2>1, <2>2
  <1>9. CASE s = r.side /\ i = r.item /\ r.doc # "map"
    <2>1. ~Mine /\ ~Brings(r, s, i, u)
      BY <1>6, <1>9 DEF Brings, Between
    <2>2. Holds(s, i, u)' <=> Holds(s, i, u)
      BY <1>1, <1>3, <1>9, HoldsStep
    <2> HIDE DEF Mine, Others
    <2> QED
      BY ONLY <1>4, <1>5, <2>1, <2>2
  <1>10. CASE s = r.side /\ i = r.item /\ r.doc = "map" /\ r.step = "put"
    <2>1. ~Mine
      BY <1>6, <1>10
    <2>2. Brings(r, s, i, u) <=> r.op # "drop class" /\ u \in r.ids
      BY <1>10 DEF Brings, Between
    <2>3. CASE Writes(r) /\ ~Exists(r) /\ Put(r)
      <3>1. ~Holds(s, i, u) /\ (Holds(s, i, u)' <=> u \in r.ids) /\ r.op # "drop class"
        BY <1>1, <1>10, <2>3, HoldsStep DEF Writes
      <3> HIDE DEF Mine, Others
      <3> QED
        BY ONLY <1>4, <1>5, <2>1, <2>2, <3>1
    <2>4. CASE Reads
      <3>2. ~Writes(r) => ~Brings(r, s, i, u)
        BY <1>10, <2>2 DEF Writes
      <3>3. Exists(r) => Clashes(r)
        BY <1>10 DEF Gap
      <3>4. ~Exists(r) /\ Writes(r) => Put(r)
        BY <1>10, PutStep
      <3>5. Holds(s, i, u)' <=> Holds(s, i, u)
        BY <1>1, <2>4, HoldsStep
      <3> HIDE DEF Mine, Others
      <3>6. CASE ~Brings(r, s, i, u)
        BY ONLY <1>4, <1>5, <2>1, <3>5, <3>6
      <3>7. CASE Brings(r, s, i, u)
        BY <1>2, <2>2, <2>3, <3>2, <3>3, <3>4, <3>7
      <3> QED
        BY <3>6, <3>7
    <2> QED
      BY <1>3, <1>10, <2>3, <2>4
  <1>11. CASE s = r.side /\ i = r.item /\ r.doc = "map" /\ r.step # "put"
    <2>1. ~Brings(r, s, i, u) /\ ~Others
      BY <1>7, <1>11 DEF Brings, Between
    <2>2. Has(s, i, u) <=> Holds(s, i, u)
      BY ONLY <1>4, <2>1
    <2>3. <<r.side, r.item>> \in Have(u) <=> Has(s, i, u)
      BY <1>11, HaveOf
    <2>4. CASE \E q \in TagRecord : requests'[c] = q /\ q.step = "put"
      <3>1. PICK q \in TagRecord : requests'[c] = q /\ q.step = "put"
        BY <2>4
      <3>2. /\ Stepped(r, q) /\ q.doc = "map"
            /\ \/ r.step = "look" /\ ~Exists(r) /\ Reads
               \/ r.step = "drop" /\ Dropped(r)
        BY <1>11, <3>1, OwnGap
      <3>3. q.op = r.op /\ q.side = s /\ q.item = i /\ q.ids = r.ids
        BY <1>11, <3>2 DEF Stepped, Alike
      <3>4. Mine <=> r.op # "drop class" /\ u \in r.ids
        BY <3>1, <3>2, <3>3 DEF Brings, Between
      <3>5. ~Holds(s, i, u)'
        <4>1. CASE r.step = "drop" /\ Dropped(r)
          BY <1>1, <1>3, <1>11, <4>1, HoldsStep
        <4>2. CASE r.step = "look" /\ ~Exists(r) /\ Reads
          <5>1. ~Holds(s, i, u)
            BY <1>11, <4>2, ExistsOf DEF Holds
          <5> QED
            BY <1>1, <4>2, <5>1, HoldsStep
        <4> QED
          BY <3>2, <4>1, <4>2
      <3>6. Has(s, i, u)' <=> r.op # "drop class" /\ u \in r.ids
        BY ONLY <1>5, <2>1, <3>4, <3>5
      <3>7. Reading(r)
        BY <1>11, <3>2 DEF Reading
      <3>8. CASE Turning(r, u)
        <4>1. Has(s, i, u)' <=> r.op = "add"
          BY <3>6, <3>7, <3>8 DEF Turning, ReadOK
        <4> QED
          BY <1>11, <3>1, <3>2, <3>8, <4>1
      <3>9. CASE ~Turning(r, u)
        <4>1. CASE r.op = "drop class"
          BY <2>3, <3>6, <3>7, <3>9, <4>1 DEF Turning, ReadOK
        <4>2. CASE r.op \in {"add", "remove", "delete"}
          BY <1>1, <2>3, <3>6, <3>7, <3>9, <4>2 DEF Turning, ReadOK
        <4>3. r.op \notin {"create", "update"}
          BY <1>1, <1>11 DEF Phase
        <4> QED
          BY <1>1, <4>1, <4>2, <4>3 DEF TagOps
      <3> QED
        BY <3>8, <3>9
    <2>5. CASE ~\E q \in TagRecord : requests'[c] = q /\ q.step = "put"
      <3>1. ~Mine
        BY <2>5 DEF Brings, Between
      <3>2. ~(r.step = "drop" /\ Dropped(r)) => (Holds(s, i, u)' <=> Holds(s, i, u))
        BY <1>1, <1>3, <1>11, HoldsStep
      <3>3. r.step # "drop"
        BY <2>5, DropStep
      <3> HIDE DEF Mine, Others
      <3> QED
        BY ONLY <1>4, <1>5, <2>1, <3>1, <3>2, <3>3
    <2> QED
      BY <2>4, <2>5
  <1> QED
    BY <1>8, <1>9, <1>10, <1>11

--------------------------------------------------------------------------------
(* Tags: a step that changes nothing about a calm tag.                      *)

LEMMA DueTyped ==
  ASSUME NEW H, NEW s \in Sides
  PROVE  DueOf(H, s) \in Nat /\ IsFiniteSet({i \in Items(s) : <<s, i>> \in H})
  <1>1. IsFiniteSet(Items(s))
    BY TagsAssumption DEF Items
  <1>2. {i \in Items(s) : <<s, i>> \in H} \in SUBSET Items(s)
    OBVIOUS
  <1> QED
    BY <1>1, <1>2, FS_Subset, FS_CardinalityType DEF DueOf

LEMMA DocTyped ==
  ASSUME TagTyped, NEW s \in Sides, NEW d \in Range(maps[s])
  PROVE  /\ d.item \in Items(s) /\ d.ids \subseteq made
         /\ d.item # Missing /\ d.item \in Images \cup Classes
  <1>1. d \in TagDocs(s)
    BY MapsTyped
  <1>2. d.item \in Items(s) /\ d.ids \subseteq made
    BY ONLY <1>1 DEF TagDocs
  <1> QED
    BY <1>2, TagsAssumption DEF Items

LEMMA ColumnOf ==
  ASSUME NEW u
  PROVE  \A s \in Sides : Column(u)[s] = counts[s][u] /\ Column(u)'[s] = counts'[s][u]
  BY DEF Column

\* What a request at work on u finds in the index has a document.
LEMMA HeldHasDocument ==
  ASSUME TagTyped, Pairs, NEW u, Calm(u), FineAll(u), NEW c \in TagClients, NEW r \in TagRecord, requests[c] = r,
         r.step = "ids", r.doc = "map", r.item # Missing,
         r.op = "drop class" \/ (r.op \in {"add", "remove"} /\ r.tag = u),
         NEW i \in Items(r.side), Holds(r.side, i, u)
  PROVE  u \in tags
  <1> SUFFICES ASSUME u \notin tags
               PROVE  FALSE
    OBVIOUS
  <1>1. r.side \in Sides /\ i \in Images \cup Classes /\ Fine(r, u, Have(u), Column(u), tags)
    BY DEF TagRecord, FineAll, Items
  <1>2. u \in made
    <2>1. \A e \in Range(maps[r.side]) : e.ids \subseteq made
      BY <1>1, DocTyped
    <2>2. \E e \in Range(maps[r.side]) : u \in e.ids
      BY DEF Holds
    <2> QED
      BY ONLY <2>1, <2>2
  <1>3. PICK d \in TagClients, w \in TagRecord : requests[d] = w /\ Creates(w, u)
    BY <1>2 DEF FineAll
  <1>4. w.tag = u /\ (w.op = "create" \/ w.op = "update")
    BY <1>3 DEF Creates
  <1>5. CASE w.op = "create"
    <2>1. Told(w, u, Have(u), Column(u), tags)
      BY <1>3 DEF FineAll, Fine
    <2>2. <<r.side, i>> \notin Have(u)
      BY <1>1, <1>4, <1>5, <2>1 DEF Told
    <2> QED
      BY <1>1, <2>2, HaveOf DEF Has
  <1>6. CASE w.op = "update"
    <2>1. d # c
      BY <1>3, <1>6
    <2>2. Bound(w, r)
      BY <1>4, <1>6 DEF Bound
    <2>3. Clashes(w)
      BY <1>3, <2>1, <2>2 DEF Pairs
    <2> QED
      BY <1>3, <1>4, <2>3 DEF Calm, Touched
  <1> QED
    BY <1>4, <1>5, <1>6

\* A step about other documents leaves what is seen of a calm tag.
LEMMA SettledTag ==
  ASSUME TagTyped, Pairs, Gap, NEW u, Calm(u), FineAll(u),
         NEW c \in TagClients, NEW r \in TagRecord, requests[c] = r, TagSteps(c),
         Turning(r, u) => \A q \in TagRecord : requests'[c] = q => q.step # "put",
         r.doc # "map" /\ r.tag = u => r.step # "drop" /\ ~(r.step = "put" /\ Writes(r) /\ ~Exists(r))
  PROVE  Settles(c, r, u, Have(u), Column(u), tags)
  <1> DEFINE H == Have(u)
             C == Column(u)
  <1>1. /\ r.side \in Sides /\ Phase(r) /\ r.op \in TagOps /\ u \in TagIds
        /\ r.op = "delete" => r.tag # u
    <2>1. r.side \in Sides /\ Phase(r) /\ r.op \in TagOps
      BY DEF TagTyped, TagRecord
    <2>2. r.op = "delete" => <<r.side, r.tag>> \in removed
      BY <2>1 DEF Phase
    <2> QED
      BY <2>1, <2>2 DEF Calm
  <1>2. Fine(r, u, H, C, tags)
    BY DEF FineAll
  <1>3. \A s \in Sides : C[s] = counts[s][u] /\ DueOf(H, s) \in Nat
    BY ColumnOf, DueTyped
  <1>4. Clashes(r) => u \notin r.ids /\ u # r.tag
    BY <1>1 DEF Calm, Phase, Touched
  <1> SUFFICES Settles(c, r, u, H, C, tags)
    OBVIOUS
  <1> HIDE DEF H, C
  <1>5. \A q : Turns(c, q) /\ Passes(r, q, u, H, C, tags) => Settles(c, r, u, H, C, tags)
    BY ONLY TRUE DEF Settles
  <1>6. (Ends(c, TRUE) \/ Ends(c, FALSE)) /\ Leaves(r, u, tags) => Settles(c, r, u, H, C, tags)
    BY ONLY TRUE DEF Settles
  <1>7. \A q : Turns(c, q) => q \in TagRecord /\ requests'[c] = q
    BY DEF Turns, Goes, TagTyped
  <1>8. CASE ReadTagDocument(c)
    BY <1>1, <1>2, <1>5, <1>6, <1>8, TagDocumentRead, TagDocumentReadFine
  <1>9. CASE ReadImageTagIds(c)
    <2>1. r.step = "ids" /\ r.op \in {"add", "remove", "drop class"} /\ r.doc = "map"
      BY <1>9, IdsRead
    <2>2. r.item \in Items(r.side) /\ r.item # Missing /\ r.item \in Images \cup Classes
      <3>1. r.item \in Items(r.side)
        BY <1>1, <2>1 DEF Phase, Items
      <3> QED
        BY <3>1, TagsAssumption DEF Items
    <2>3. ~Between(r)
      BY <2>1 DEF Between
    <2>4. <<r.side, r.item>> \in H <=> Holds(r.side, r.item, u)
      BY <1>1, <2>2, <2>3, HoldsHas, HaveOf DEF H
    <2>5. Holds(r.side, r.item, u) /\ (r.op = "drop class" \/ r.tag = u) => u \in tags
      BY <2>1, <2>2, HeldHasDocument
    <2>6. Leaves(r, u, tags)
      BY <1>1, <1>2, <2>1, IdsFine
    <2>7. CASE Ends(c, TRUE)
      BY <1>6, <2>6, <2>7
    <2>8. CASE /\ r.op = "add" => ~Holds(r.side, r.item, r.tag)
               /\ r.op = "remove" => Holds(r.side, r.item, r.tag)
               /\ \E q : Turns(c, q) /\ Informed(r, q)
      <3>1. PICK q : Turns(c, q) /\ Informed(r, q)
        BY <2>8
      <3>2. Passes(r, q, u, H, C, tags)
        BY <1>1, <1>2, <2>1, <2>4, <2>5, <2>8, <3>1, IdsFine
      <3> QED
        BY <1>5, <3>1, <3>2
    <2> QED
      BY <1>9, <2>7, <2>8, IdsRead
  <1>10. CASE LookForDocument(c)
    <2>1. PICK q : /\ Turns(c, q) /\ Stepped(r, q) /\ q.doc = r.doc
                   /\ \/ Exists(r) /\ q.step = "drop"
                      \/ ~Exists(r) /\ q.step = "put"
      BY <1>10, DocumentLookedFor
    <2>2. q.step = "put" => ~Turning(r, u)
      BY <1>7, <2>1
    <2>3. r.step = "look"
      BY <1>10, DocumentLookedFor
    <2>4. Passes(r, q, u, H, C, tags)
      BY <1>1, <1>2, <1>3, <2>1, <2>2, <2>3, LookFine
    <2> QED
      BY <1>5, <2>1, <2>4
  <1>11. CASE DeleteDocument(c)
    <2>1. PICK q : Turns(c, q) /\ Stepped(r, q) /\ q.doc = r.doc /\ q.step = "put"
      BY <1>11, DocumentDeleted
    <2>2. ~Turning(r, u)
      BY <1>7, <2>1
    <2>3. r.step = "drop"
      BY <1>11, DocumentDeleted
    <2>4. Passes(r, q, u, H, C, tags)
      BY <1>1, <1>2, <2>1, <2>2, <2>3, DropFine
    <2> QED
      BY <1>5, <2>1, <2>4
  <1>12. CASE AddDocument(c)
    <2>1. r.step = "put"
      BY <1>12, DocumentAdded
    <2>2. CASE Writes(r) /\ Exists(r) /\ Reads /\ Ends(c, FALSE)
      <3>1. Clashes(r)
        BY <2>1, <2>2 DEF Gap
      <3>2. Leaves(r, u, tags)
        BY <1>4, <3>1 DEF Leaves, Owes, Creates
      <3> QED
        BY <1>6, <2>2, <3>2
    <2>3. CASE Followed(c, r) /\ (~Writes(r) \/ ~Exists(r))
      <3>1. r.doc # "map" /\ ~Writes(r) => r.op = "delete"
        <4>1. r.doc \in {"tag", "count", "map"}
          BY DEF TagRecord
        <4> QED
          BY <4>1 DEF Writes
      <3>2. r.doc # "map" \/ r.op = "delete" => r.tag # u
        BY <1>1, <2>1, <2>3, <3>1
      <3> QED
        BY <1>1, <1>2, <2>1, <2>3, <3>2, PutFine
    <2> QED
      BY <1>12, <2>2, <2>3, DocumentAdded
  <1>13. CASE CheckTag(c)
    <2>1. r.step = "check" /\ r.op \in {"add", "remove", "drop class"}
      BY <1>13, TagChecked
    <2>2. /\ \A q : Stepped(r, q) /\ q.doc = r.doc /\ q.step = "count" => Passes(r, q, u, H, C, tags)
          /\ r.tag \notin tags => r.tag # u
          /\ r.op # "drop class" /\ r.tag # u => Leaves(r, u, tags)
      BY <1>1, <1>2, <2>1, CheckFine
    <2>3. CASE \E q : Turns(c, q) /\ Stepped(r, q) /\ q.doc = r.doc /\ q.step = "count"
      BY <1>5, <2>2, <2>3
    <2>4. CASE r.tag \notin tags /\ r.op = "drop class" /\ Lowered(c, r)
      BY <1>1, <1>2, <2>1, <2>2, <2>4, LoweredSettles DEF Past
    <2>5. CASE r.tag \notin tags /\ r.op # "drop class" /\ Ends(c, FALSE)
      BY <1>6, <2>2, <2>5
    <2> QED
      BY <1>13, <2>3, <2>4, <2>5, TagChecked
  <1>14. CASE ReadTagCount(c)
    <2>1. PICK q : Turns(c, q) /\ Counted(r, q)
      BY <1>14, CountRead
    <2>2. r.step = "count" /\ r.op \in {"add", "remove", "drop class"}
      BY <1>14, CountRead
    <2>3. Passes(r, q, u, H, C, tags)
      BY <1>1, <1>2, <1>3, <2>1, <2>2, CountFine
    <2> QED
      BY <1>5, <2>1, <2>3
  <1>15. CASE ScanPage(c)
    <2>1. r.step = "scan" /\ r.op = "delete" /\ r.doc # "tag"
      BY <1>15, PageScanned
    <2>2. PICK k, page : k \in TagRecord /\ Phase(k) /\ Paged(c, r, k, page)
      BY <1>15, PageScanned
    <2>3. ASSUME NEW d \in Range(maps[r.side])
          PROVE  <<r.side, d.item>> \in H <=> u \in d.ids
      <3>1. d.item \in Items(r.side) /\ d.item # Missing /\ d.item \in Images \cup Classes
        BY <1>1, DocTyped
      <3>2. Holds(r.side, d.item, u) <=> u \in d.ids
        <4>1. \A e \in Range(maps[r.side]) : e.item = d.item => e = d
          BY <1>1, MapsTyped
        <4> QED
          BY <4>1 DEF Holds
      <3>3. ~Between(r) /\ Sweeps(r)
        BY <2>1 DEF Between, Sweeps
      <3>4. Has(r.side, d.item, u) <=> Holds(r.side, d.item, u)
        BY <3>1, <3>3, HoldsHas
      <3> QED
        BY <1>1, <3>1, <3>2, <3>4, HaveOf DEF H
    <2> QED
      BY <1>1, <1>2, <2>1, <2>2, <2>3, ScanFine
  <1> QED
    BY <1>8, <1>9, <1>10, <1>11, <1>12, <1>13, <1>14, <1>15 DEF TagSteps

--------------------------------------------------------------------------------
(* Tags: what is known of a calm tag is still so after a step.              *)

LEMMA FineTags ==
  ASSUME NEW u, NEW T, NEW S, u \in T <=> u \in S, NEW r, NEW H, NEW C, Fine(r, u, H, C, T)
  PROVE  Fine(r, u, H, C, S)
  BY DEF Fine, Told

\* A step shows nothing new about u.
SameView(u) == Have(u)' = Have(u) /\ Column(u)' = Column(u) /\ (u \in tags' <=> u \in tags)

\* What is known of a calm tag survives a step that shows nothing of it.
LEMMA FineQuiet ==
  ASSUME TagTyped, NEW u, FineAll(u), NEW c \in TagClients, NEW r \in TagRecord, requests[c] = r, TagSteps(c),
         Settles(c, r, u, Have(u), Column(u), tags), SameView(u)
  PROVE  FineAll(u)'
  <1> DEFINE H == Have(u)
             C == Column(u)
  <1>1. Have(u)' = H /\ Column(u)' = C /\ (u \in tags' <=> u \in tags)
    BY DEF SameView
  <1>2. /\ \A d \in TagClients, x \in TagRecord : requests[d] = x => Fine(x, u, H, C, tags)
        /\ \A s \in Sides : (\A d \in TagClients, x \in TagRecord : requests[d] = x => ~Owes(x, s, u))
                              => CountIn(C, s) = DueOf(H, s)
        /\ u \in made \ tags => \E d \in TagClients, x \in TagRecord : requests[d] = x /\ Creates(x, u)
    BY DEF FineAll
  <1>3. FineAll(u)' <=>
          /\ \A d \in TagClients, x \in TagRecord : requests'[d] = x => Fine(x, u, H, C, tags')
          /\ \A s \in Sides : (\A d \in TagClients, x \in TagRecord : requests'[d] = x => ~Owes(x, s, u))
                                => CountIn(C, s) = DueOf(H, s)
          /\ u \in made' \ tags' => \E d \in TagClients, x \in TagRecord : requests'[d] = x /\ Creates(x, u)
    BY <1>1 DEF FineAll
  <1>4. \/ requests'[c] = NoRequest /\ Leaves(r, u, tags)
        \/ \E q \in TagRecord : requests'[c] = q /\ Passes(r, q, u, H, C, tags)
    <2>1. Ends(c, TRUE) \/ Ends(c, FALSE) => requests'[c] = NoRequest
      BY Ended DEF TagTyped
    <2>2. \A q : Turns(c, q) => q \in TagRecord /\ requests'[c] = q
      BY DEF Turns, Goes, TagTyped
    <2> QED
      BY <2>1, <2>2 DEF Settles
  <1> HIDE DEF H, C
  <1>5. /\ \A d \in TagClients \ {c} : requests'[d] = requests[d]
        /\ made' = made /\ NoRequest \notin TagRecord
    BY StepWho, NoRequestIsNone
  <1>6. \A x : Fine(x, u, H, C, tags) => Fine(x, u, H, C, tags')
    BY <1>1, FineTags
  <1>7. \A d \in TagClients, x \in TagRecord : requests'[d] = x => Fine(x, u, H, C, tags')
    BY <1>2, <1>4, <1>5, <1>6 DEF Passes
  <1>8. ASSUME NEW s \in Sides, \A d \in TagClients, x \in TagRecord : requests'[d] = x => ~Owes(x, s, u)
        PROVE  CountIn(C, s) = DueOf(H, s)
    <2>1. ~Owes(r, s, u)
      BY <1>4, <1>8 DEF Passes, Leaves
    <2>2. \A d \in TagClients, x \in TagRecord : requests[d] = x => ~Owes(x, s, u)
      BY <1>5, <1>8, <2>1
    <2> QED
      BY <1>2, <2>2
  <1>9. ASSUME u \in made' \ tags'
        PROVE  \E d \in TagClients, x \in TagRecord : requests'[d] = x /\ Creates(x, u)
    <2>1. PICK d \in TagClients, x \in TagRecord : requests[d] = x /\ Creates(x, u)
      BY <1>1, <1>2, <1>5, <1>9
    <2>2. CASE d = c
      BY <1>1, <1>4, <1>9, <2>1, <2>2 DEF Passes, Leaves
    <2>3. CASE d # c
      BY <1>5, <2>1, <2>3
    <2> QED
      BY <2>2, <2>3
  <1> QED
    BY <1>3, <1>7, <1>8, <1>9

\* Who is not bound to the request that rewrites a document still knows.
LEMMA FineTurned ==
  ASSUME NEW x \in TagRecord, NEW r \in TagRecord, ~Bound(x, r), NEW u, Turning(r, u), r.item # Missing,
         NEW H, NEW G, NEW C, NEW T, u \in T, Fine(x, u, H, C, T),
         \A s, i : s # r.side \/ i # r.item => (<<s, i>> \in G <=> <<s, i>> \in H)
  PROVE  Fine(x, u, G, C, T) /\ ~Owes(x, r.side, u)
  <1>1. /\ x.side = r.side => x.tag # r.tag /\ x.item # r.item /\ ~Sweeps(x) /\ ~Sweeps(r)
        /\ x.op \in TagOps
    BY DEF Bound, TagRecord
  <1>2. ReadOK(x, u, H) /\ Told(x, u, H, C, T) /\ \A s \in Sides : Owes(x, s, u) => Paid(x, s, u, H, C)
    BY DEF Fine
  <1>3. x.op = "delete" \/ x.op = "drop class" => x.side # r.side
    BY <1>1 DEF Sweeps
  <1>4. r.op = "drop class" => x.side # r.side
    BY <1>1 DEF Sweeps
  <1>5. <<x.side, x.item>> \in G <=> <<x.side, x.item>> \in H
    BY <1>1
  <1>6. x.op = "delete" => \A d \in Range(x.todo) : <<x.side, d.item>> \in G <=> <<x.side, d.item>> \in H
    BY <1>3
  <1>7. ReadOK(x, u, G)
    BY <1>2, <1>5, <1>6 DEF ReadOK
  <1>8. ~Owes(x, r.side, u)
    BY <1>1, <1>3, <1>4 DEF Owes, Turning
  <1>9. Told(x, u, G, C, T)
    BY <1>2 DEF Told
  <1>10. ASSUME NEW s \in Sides, Owes(x, s, u)
         PROVE  Paid(x, s, u, G, C)
    <2>1. s # r.side
      BY <1>8, <1>10
    <2>2. \A i : <<s, i>> \in G <=> <<s, i>> \in H
      BY <2>1
    <2>3. {i \in Items(s) : <<s, i>> \in G} = {i \in Items(s) : <<s, i>> \in H}
      BY <2>2
    <2>4. DueOf(G, s) = DueOf(H, s)
      BY <2>3 DEF DueOf
    <2> QED
      BY <1>2, <1>10, <2>4 DEF Paid
  <1> QED
    BY <1>7, <1>8, <1>9, <1>10 DEF Fine

\* The item got u or lost it: the request owes the count.
LEMMA OwnTurned ==
  ASSUME NEW r \in TagRecord, NEW q, Stepped(r, q), q.step = "put", q.doc = "map", NEW u, Turning(r, u),
         Phase(r), u # Missing,
         NEW H, NEW G, NEW C, NEW T, Fine(r, u, H, C, T),
         \A s, i : s # r.side \/ i # r.item => (<<s, i>> \in G <=> <<s, i>> \in H),
         <<r.side, r.item>> \in G <=> r.op = "add",
         CountIn(C, r.side) = DueOf(H, r.side)
  PROVE  Fine(q, u, G, C, T) /\ Owes(q, r.side, u) /\ u \in T /\ \A s \in Sides : ~Owes(r, s, u)
  <1>1. /\ q.op = r.op /\ q.side = r.side /\ q.tag = r.tag /\ q.item = r.item /\ q.ids = r.ids
        /\ q.seen = r.seen /\ q.n = r.n /\ q.todo = r.todo
    BY DEF Stepped, Alike, Steady4
  <1>2. ReadOK(r, u, H) /\ Told(r, u, H, C, T)
    BY DEF Fine
  <1>3. /\ Reading(r) /\ r.doc = "map" /\ r.step \in {"look", "drop"} /\ r.side \in Sides
        /\ r.op \in {"add", "remove", "drop class"}
        /\ r.op \in {"add", "remove"} => r.tag = u
        /\ r.op = "drop class" => u \in r.ids /\ r.step = "drop"
    BY DEF Turning, Reading, TagRecord, Phase
  <1>4. r.op = "drop class" => u \in r.seen /\ r.tag = Missing
    BY <1>3 DEF Phase
  <1>5. u \in T
    BY <1>2, <1>3, <1>4 DEF Told
  <1>6. \A s \in Sides : ~Owes(r, s, u)
    BY <1>3, <1>4 DEF Owes, Between, Past
  <1>7. Between(q) /\ ~Reading(q) /\ ~Noted(q, u)
    BY DEF Between, Reading, Noted
  <1>8. Owes(q, r.side, u) /\ \A s \in Sides : Owes(q, s, u) => s = r.side
    BY <1>1, <1>3, <1>7 DEF Owes
  <1>9. ReadOK(q, u, G)
    BY <1>1, <1>2, <1>3, <1>4, <1>7 DEF ReadOK
  <1>10. Told(q, u, G, C, T)
    BY <1>1, <1>3, <1>5 DEF Told
  <1> DEFINE D == {i \in Items(r.side) : <<r.side, i>> \in H}
             E == {i \in Items(r.side) : <<r.side, i>> \in G}
  <1>11. r.item \in Items(r.side)
    BY <1>3 DEF Phase, Items
  <1>12. IsFiniteSet(D) /\ DueOf(H, r.side) = Cardinality(D) /\ DueOf(G, r.side) = Cardinality(E)
         /\ Cardinality(D) \in Nat /\ Cardinality(E) \in Nat
    BY <1>3, DueTyped DEF DueOf
  <1>13. CASE r.op = "add"
    <2>1. r.item \notin D /\ E = D \cup {r.item}
      BY <1>2, <1>3, <1>11, <1>13 DEF ReadOK
    <2>2. Cardinality(E) = Cardinality(D) + 1
      BY <1>12, <2>1, FS_AddElement
    <2>3. Paid(q, r.side, u, G, C)
      BY <1>1, <1>7, <1>12, <1>13, <2>2 DEF Paid
    <2> QED
      BY <1>5, <1>6, <1>8, <1>9, <1>10, <2>3 DEF Fine
  <1>14. CASE r.op # "add"
    <2>1. r.item \in D /\ E = D \ {r.item}
      BY <1>2, <1>3, <1>11, <1>14 DEF ReadOK
    <2>2. Cardinality(E) = Cardinality(D) - 1
      <3> SUFFICES Cardinality(E) = Cardinality(D) - 1
        OBVIOUS
      <3> HIDE DEF D, E
      <3>1. IsFiniteSet(D) /\ r.item \in D
        BY <1>12, <2>1
      <3>2. Cardinality(D \ {r.item}) = Cardinality(D) - 1
        BY ONLY <3>1, FS_RemoveElement
      <3> QED
        BY ONLY <2>1, <3>2
    <2>3. Cardinality(D) = Cardinality(E) + 1
      <3> DEFINE n == Cardinality(D)
                 m == Cardinality(E)
      <3>1. n \in Nat /\ m \in Nat /\ m = n - 1
        BY ONLY <1>12, <2>2
      <3> SUFFICES n = m + 1
        OBVIOUS
      <3> HIDE DEF n, m
      <3> QED
        BY ONLY <3>1
    <2>4. Paid(q, r.side, u, G, C)
      BY <1>1, <1>7, <1>12, <1>14, <2>3 DEF Paid
    <2> QED
      BY <1>5, <1>6, <1>8, <1>9, <1>10, <2>4 DEF Fine
  <1> QED
    BY <1>13, <1>14

--------------------------------------------------------------------------------
(* Tags: steps that change something about a calm tag.                      *)

\* The item of the step has u after it just when it gets it.
LEMMA HasTurned ==
  ASSUME TagTyped, Pairs, Gap, NEW u, Calm(u), NEW c \in TagClients, NEW r \in TagRecord, requests[c] = r,
         TagSteps(c), ReadOK(r, u, Have(u)), Turning(r, u),
         NEW q \in TagRecord, requests'[c] = q, q.step = "put"
  PROVE  /\ Stepped(r, q) /\ q.doc = "map" /\ tags' = tags /\ counts' = counts
         /\ r.side \in Sides /\ r.item # Missing /\ r.item \in Images \cup Classes
         /\ Has(r.side, r.item, u)' <=> r.op = "add"
  <1>1. /\ Phase(r) /\ r.side \in Sides /\ r.doc = "map" /\ Reading(r) /\ r.step # "put"
    BY DEF TagTyped, TagRecord, Turning, Reading
  <1>2. r.item \in Items(r.side)
    BY <1>1 DEF Phase, Turning, Items
  <1>3. r.item # Missing /\ r.item \in Images \cup Classes
    BY <1>2, TagsAssumption DEF Items
  <1>4. /\ Stepped(r, q) /\ q.doc = r.doc
        /\ \/ r.step = "look" /\ ~Exists(r) /\ Reads
           \/ r.step = "drop" /\ Dropped(r)
    BY <1>1, OwnGap
  <1>5. tags' = tags /\ counts' = counts
    BY <1>1, <1>4 DEF Reads, Dropped
  <1>6. q.op = r.op /\ q.side = r.side /\ q.item = r.item /\ q.ids = r.ids
    BY <1>4 DEF Stepped, Alike
  <1>7. Brings(q, r.side, r.item, u) <=> r.op # "drop class" /\ u \in r.ids
    BY <1>1, <1>4, <1>6 DEF Brings, Between
  <1>8. r.op # "drop class" => (u \in r.ids <=> r.op = "add")
    BY <1>1 DEF Turning, ReadOK
  <1>9. Brings(q, r.side, r.item, u) <=> r.op = "add"
    BY <1>7, <1>8
  <1>10. ~Holds(r.side, r.item, u)'
    <2>1. CASE r.step = "drop" /\ Dropped(r)
      BY <1>1, <1>3, <2>1, HoldsStep
    <2>2. CASE r.step = "look" /\ ~Exists(r) /\ Reads
      <3>1. ~Holds(r.side, r.item, u)
        BY <1>1, <2>2, ExistsOf DEF Holds
      <3> QED
        BY <1>1, <1>3, <2>2, <3>1, HoldsStep
    <2> QED
      BY <1>4, <2>1, <2>2
  <1>11. \A d \in TagClients \ {c}, x \in TagRecord : requests'[d] = x => ~Brings(x, r.side, r.item, u)
    BY <1>3, Alone4, StepWho
  <1>12. Has(r.side, r.item, u)' <=>
           \/ Holds(r.side, r.item, u)'
           \/ \E d \in TagClients, x \in TagRecord : requests'[d] = x /\ Brings(x, r.side, r.item, u)
    BY DEF Has
  <1>13. (\E d \in TagClients, x \in TagRecord : requests'[d] = x /\ Brings(x, r.side, r.item, u))
           <=> Brings(q, r.side, r.item, u)
    BY <1>11
  <1>14. Has(r.side, r.item, u)' <=> r.op = "add"
    BY ONLY <1>9, <1>10, <1>12, <1>13
  <1> QED
    BY <1>1, <1>3, <1>4, <1>5, <1>14

LEMMA FineAllNext ==
  ASSUME NEW u, NEW G, NEW D, Have(u)' = G, Column(u)' = D
  PROVE  FineAll(u)' <=>
           /\ \A d \in TagClients, x \in TagRecord : requests'[d] = x => Fine(x, u, G, D, tags')
           /\ \A s \in Sides : (\A d \in TagClients, x \in TagRecord : requests'[d] = x => ~Owes(x, s, u))
                                 => CountIn(D, s) = DueOf(G, s)
           /\ u \in made' \ tags' => \E d \in TagClients, x \in TagRecord : requests'[d] = x /\ Creates(x, u)
  BY DEF FineAll

LEMMA DueSame ==
  ASSUME NEW H, NEW G, NEW s, \A i : <<s, i>> \in G <=> <<s, i>> \in H
  PROVE  DueOf(G, s) = DueOf(H, s)
  <1>1. {i \in Items(s) : <<s, i>> \in G} = {i \in Items(s) : <<s, i>> \in H}
    OBVIOUS
  <1> QED
    BY <1>1 DEF DueOf

\* Requests that touch a calm tag are undisturbed, and bound to no other.
LEMMA CalmUnbound ==
  ASSUME Pairs, NEW u, Calm(u), NEW c \in TagClients, NEW r \in TagRecord, requests[c] = r, u \in Touched(r)
  PROVE  ~Clashes(r) /\ \A d \in TagClients \ {c}, x \in TagRecord : requests[d] = x => ~Bound(x, r)
  <1>1. ~Clashes(r)
    BY DEF Calm
  <1>2. ASSUME NEW d \in TagClients \ {c}, NEW x \in TagRecord, requests[d] = x, Bound(x, r)
        PROVE  FALSE
    <2>1. Bound(r, x)
      BY <1>2, BoundSym
    <2> QED
      BY <1>1, <1>2, <2>1 DEF Pairs
  <1> QED
    BY <1>1, <1>2

\* A document is taken to be rewritten: from here its tags are the new ones.
LEMMA FineTurnedStep ==
  ASSUME TagTyped, Pairs, Gap, NEW u, Calm(u), FineAll(u), NEW c \in TagClients, NEW r \in TagRecord,
         requests[c] = r, TagSteps(c), Turning(r, u),
         NEW q \in TagRecord, requests'[c] = q, q.step = "put"
  PROVE  FineAll(u)'
  <1> DEFINE H == Have(u)
             C == Column(u)
  <1>1. /\ Phase(r) /\ r.doc = "map" /\ Reading(r) /\ u # Missing
        /\ \/ r.op \in {"add", "remove"} /\ r.tag = u
           \/ r.op = "drop class" /\ u \in r.ids
    <2>1. Phase(r)
      BY DEF TagTyped
    <2>2. u # Missing
      BY TagsAssumption DEF Calm
    <2> QED
      BY <2>1, <2>2 DEF Turning, Reading
  <1>2. u \in Touched(r) /\ (r.op = "drop class" => u \in r.seen /\ r.tag = Missing)
    BY <1>1 DEF Phase, Touched, Reading
  <1>3. /\ \A d \in TagClients, x \in TagRecord : requests[d] = x => Fine(x, u, H, C, tags)
        /\ \A s \in Sides : (\A d \in TagClients, x \in TagRecord : requests[d] = x => ~Owes(x, s, u))
                              => CountIn(C, s) = DueOf(H, s)
    BY DEF FineAll
  <1>4. Fine(r, u, H, C, tags) /\ ReadOK(r, u, H)
    BY <1>3 DEF Fine
  <1>5. /\ Stepped(r, q) /\ q.doc = "map" /\ tags' = tags /\ counts' = counts
        /\ r.side \in Sides /\ r.item # Missing /\ r.item \in Images \cup Classes
        /\ Has(r.side, r.item, u)' <=> r.op = "add"
    BY <1>4, HasTurned
  <1>6. u \in tags
    BY <1>1, <1>2, <1>4 DEF Fine, Told, Reading
  <1>7. \A s \in Sides : ~Owes(r, s, u)
    BY <1>1, <1>2 DEF Owes, Between, Past, Reading
  <1> PICK G : G = Have(u)'
    OBVIOUS
  <1>8. /\ \A s, i : s # r.side \/ i # r.item => (<<s, i>> \in G <=> <<s, i>> \in H)
        /\ <<r.side, r.item>> \in G <=> r.op = "add"
    <2>1. \A s \in Sides, i \in Images \cup Classes :
            s # r.side \/ i # r.item => (Has(s, i, u)' <=> Has(s, i, u))
      BY <1>4, HasStep
    <2>2. \A s, i : /\ <<s, i>> \in G <=> s \in Sides /\ i \in Images \cup Classes /\ Has(s, i, u)'
                    /\ <<s, i>> \in H <=> s \in Sides /\ i \in Images \cup Classes /\ Has(s, i, u)
      BY DEF Have
    <2> HIDE DEF H
    <2> QED
      BY <1>5, <2>1, <2>2
  <1>9. Column(u)' = C
    BY <1>5 DEF Column
  <1> HIDE DEF H, C
  <1>10. \A d \in TagClients \ {c} : requests'[d] = requests[d]
    BY StepWho
  <1>11. \A d \in TagClients \ {c}, x \in TagRecord :
           requests[d] = x => Fine(x, u, G, C, tags) /\ ~Owes(x, r.side, u)
    <2>1. \A d \in TagClients \ {c}, x \in TagRecord : requests[d] = x => ~Bound(x, r)
      BY <1>2, CalmUnbound
    <2> QED
      BY <1>3, <1>5, <1>6, <1>8, <2>1, FineTurned
  <1>12. CountIn(C, r.side) = DueOf(H, r.side)
    BY <1>3, <1>5, <1>7, <1>11
  <1>13. Fine(q, u, G, C, tags) /\ Owes(q, r.side, u)
    BY <1>1, <1>4, <1>5, <1>8, <1>12, OwnTurned
  <1>14. ASSUME NEW s \in Sides, \A d \in TagClients, x \in TagRecord : requests'[d] = x => ~Owes(x, s, u)
         PROVE  CountIn(C, s) = DueOf(G, s)
    <2>1. s # r.side
      BY <1>13, <1>14
    <2>2. \A d \in TagClients, x \in TagRecord : requests[d] = x => ~Owes(x, s, u)
      BY <1>7, <1>10, <1>14
    <2>3. DueOf(G, s) = DueOf(H, s)
      BY <1>8, <2>1, DueSame
    <2> QED
      BY <1>3, <2>2, <2>3
  <1>15. \A d \in TagClients, x \in TagRecord : requests'[d] = x => Fine(x, u, G, C, tags')
    BY <1>5, <1>10, <1>11, <1>13
  <1> QED
    BY <1>5, <1>6, <1>9, <1>14, <1>15, FineAllNext

\* Any other step leaves the items that have the tag.
LEMMA HaveSame ==
  ASSUME TagTyped, Pairs, Gap, NEW u, Calm(u), FineAll(u), NEW c \in TagClients, NEW r \in TagRecord,
         requests[c] = r, TagSteps(c),
         Turning(r, u) => \A q \in TagRecord : requests'[c] = q => q.step # "put"
  PROVE  Have(u)' = Have(u)
  <1>1. ReadOK(r, u, Have(u))
    BY DEF FineAll, Fine
  <1>2. \A s \in Sides, i \in Images \cup Classes : Has(s, i, u)' <=> Has(s, i, u)
    BY <1>1, HasStep
  <1> QED
    BY <1>2 DEF Have

LEMMA PutFollowed ==
  ASSUME TagTyped, NEW c \in TagClients, NEW r \in TagRecord, requests[c] = r, TagSteps(c), r.step = "put",
         ~Exists(r), Writes(r)
  PROVE  Followed(c, r)
  <1>1. AddDocument(c)
    BY TagDocumentRead, IdsRead, DocumentLookedFor, DocumentDeleted, TagChecked, CountRead, PageScanned
       DEF TagSteps
  <1> QED
    BY <1>1, PutBy

\* Another request while a count of u is written.
LEMMA OtherCounted ==
  ASSUME NEW x \in TagRecord, NEW r \in TagRecord, ~Bound(x, r), NEW u, r.tag = u,
         NEW H, NEW C, NEW D, NEW T, u \in T, Fine(x, u, H, C, T), \A s \in Sides \ {r.side} : D[s] = C[s]
  PROVE  Fine(x, u, H, D, T) /\ ~Owes(x, r.side, u)
  <1>1. x.side = r.side => x.tag # u /\ ~Sweeps(x)
    BY DEF Bound
  <1>2. ReadOK(x, u, H) /\ Told(x, u, H, C, T) /\ \A s \in Sides : Owes(x, s, u) => Paid(x, s, u, H, C)
    BY DEF Fine
  <1>3. ~Owes(x, r.side, u)
    BY <1>1 DEF Owes, Sweeps
  <1>4. \A s \in Sides : Owes(x, s, u) => Paid(x, s, u, H, D)
    <2> SUFFICES ASSUME NEW s \in Sides, Owes(x, s, u)
                 PROVE  Paid(x, s, u, H, D)
      OBVIOUS
    <2>1. s # r.side
      BY <1>3
    <2>2. D[s] = C[s] /\ CountIn(D, s) = CountIn(C, s)
      BY <2>1 DEF CountIn
    <2> QED
      BY <1>2, <2>2 DEF Paid
  <1>5. Told(x, u, H, D, T)
    BY <1>2 DEF Told
  <1> QED
    BY <1>2, <1>3, <1>4, <1>5 DEF Fine

\* A count of u is written by its request, which ends or goes on.
LEMMA FineCountStep ==
  ASSUME TagTyped, Pairs, Gap, NEW u, Calm(u), FineAll(u), NEW c \in TagClients, NEW r \in TagRecord,
         requests[c] = r, TagSteps(c), r.doc = "count", r.tag = u,
         r.step = "drop" \/ (r.step = "put" /\ Writes(r) /\ ~Exists(r))
  PROVE  FineAll(u)'
  <1> DEFINE H == Have(u)
             C == Column(u)
  <1>1. /\ Phase(r) /\ u \in TagIds /\ u # Missing /\ r.side \in Sides /\ r.op \in TagOps /\ r.op # "delete"
        /\ u \in Touched(r) /\ counts \in [Sides -> [TagIds -> Nat \cup {Missing}]] /\ Missing \notin Nat
    <2>1. Phase(r) /\ counts \in [Sides -> [TagIds -> Nat \cup {Missing}]]
      BY DEF TagTyped
    <2>2. u \in TagIds /\ u # Missing /\ Missing \notin Nat /\ r.side \in Sides /\ r.op \in TagOps
      BY TagsAssumption DEF Calm, TagRecord
    <2>3. r.op = "delete" => <<r.side, r.tag>> \in removed
      BY <2>1 DEF Phase
    <2> QED
      BY <2>1, <2>2, <2>3 DEF Calm, Touched
  <1>2. r.op = "drop class" => u \notin r.ids /\ u \in r.seen
    BY <1>1 DEF Phase, TagOps
  <1>3. r.op \in {"add", "remove", "drop class"} /\ Past(r) /\ Noted(r, u) /\ Owes(r, r.side, u)
    <2>1. r.op \in {"add", "remove", "drop class"}
      BY <1>1 DEF Phase, TagOps
    <2> QED
      BY <2>1 DEF Past, Noted, Owes
  <1>4. /\ \A d \in TagClients, x \in TagRecord : requests[d] = x => Fine(x, u, H, C, tags)
        /\ \A s \in Sides : (\A d \in TagClients, x \in TagRecord : requests[d] = x => ~Owes(x, s, u))
                              => CountIn(C, s) = DueOf(H, s)
    BY DEF FineAll
  <1>5. Fine(r, u, H, C, tags)
    BY <1>4
  <1>6. r.n = DueOf(H, r.side) /\ r.n \in Nat
    BY <1>1, <1>3, <1>5, DueTyped DEF Fine, Paid
  <1>7. u \in tags
    BY <1>2, <1>3, <1>5 DEF Fine, Told
  <1>8. Have(u)' = H
    BY HaveSame DEF Turning, Reading
  <1> PICK D : D = Column(u)'
    OBVIOUS
  <1>9. /\ Dropped(r) \/ Put(r)
        /\ r.step = "drop" => Dropped(r)
        /\ r.step = "put" => Put(r)
    BY DropStep, PutStep
  <1>10. tags' = tags
    BY <1>9 DEF Dropped, Put
  <1>11. /\ \A s \in Sides \ {r.side} : D[s] = C[s]
         /\ r.step = "drop" => D[r.side] = Missing
         /\ r.step = "put" => D[r.side] = r.n
    <2>1. /\ r.step = "drop" => counts' = [counts EXCEPT ![r.side][u] = Missing]
          /\ r.step = "put" => counts' = [counts EXCEPT ![r.side][u] = r.n]
      BY <1>9 DEF Dropped, Put
    <2> QED
      BY <1>1, <2>1, ColumnOf
  <1> HIDE DEF H, C
  <1>12. \A d \in TagClients \ {c} : requests'[d] = requests[d]
    BY StepWho
  <1>13. \A d \in TagClients \ {c}, x \in TagRecord :
           requests[d] = x => Fine(x, u, H, D, tags) /\ ~Owes(x, r.side, u)
    <2>1. \A d \in TagClients \ {c}, x \in TagRecord : requests[d] = x => ~Bound(x, r)
      BY <1>1, CalmUnbound
    <2> QED
      BY <1>4, <1>7, <1>11, <2>1, OtherCounted
  <1>14. \A s \in Sides \ {r.side} : CountIn(D, s) = CountIn(C, s)
    BY <1>11 DEF CountIn
  <1>15. \A s \in Sides \ {r.side} : (\A d \in TagClients, x \in TagRecord : requests'[d] = x => ~Owes(x, s, u))
                                       => CountIn(D, s) = DueOf(H, s)
    <2> SUFFICES ASSUME NEW s \in Sides \ {r.side},
                        \A d \in TagClients, x \in TagRecord : requests'[d] = x => ~Owes(x, s, u)
                 PROVE  CountIn(D, s) = DueOf(H, s)
      OBVIOUS
    <2>1. ~Owes(r, s, u)
      BY DEF Owes
    <2>2. \A d \in TagClients, x \in TagRecord : requests[d] = x => ~Owes(x, s, u)
      BY <1>12, <2>1
    <2> QED
      BY <1>4, <1>14, <2>2
  <1>16. CASE r.step = "drop"
    <2>1. PICK q \in TagRecord : requests'[c] = q /\ q.step = "put" /\ q.doc = r.doc /\ Stepped(r, q)
      BY <1>16, DropStep
    <2>2. /\ q.op = r.op /\ q.side = r.side /\ q.tag = r.tag /\ q.ids = r.ids /\ q.seen = r.seen /\ q.n = r.n
      BY <2>1 DEF Stepped, Alike, Steady4
    <2>3. ReadOK(q, u, H)
      BY <1>3, <2>1, <2>2 DEF ReadOK, Reading, Between
    <2>4. Noted(q, u) /\ Past(q) /\ Owes(q, r.side, u) /\ \A s \in Sides : Owes(q, s, u) => s = r.side
      BY <1>3, <2>1, <2>2 DEF Noted, Past, Owes
    <2>5. Paid(q, r.side, u, H, D)
      BY <1>6, <1>11, <1>16, <2>2, <2>4 DEF Paid
    <2>6. Told(q, u, H, D, tags)
      BY <1>3, <1>7, <2>2 DEF Told
    <2>7. Fine(q, u, H, D, tags)
      BY <2>3, <2>4, <2>5, <2>6 DEF Fine
    <2>8. \A d \in TagClients, x \in TagRecord : requests'[d] = x => Fine(x, u, H, D, tags')
      BY <1>10, <1>12, <1>13, <2>1, <2>7
    <2>9. \A s \in Sides : (\A d \in TagClients, x \in TagRecord : requests'[d] = x => ~Owes(x, s, u))
                             => CountIn(D, s) = DueOf(H, s)
      BY <1>15, <2>1, <2>4
    <2> QED
      BY <1>7, <1>8, <1>10, <2>8, <2>9, FineAllNext
  <1>17. CASE r.step = "put"
    <2>1. Followed(c, r)
      BY <1>17, PutFollowed
    <2>2. Ends(c, TRUE) \/ \E q : Turns(c, q) /\ NextTag(r, q) /\ r.op = "drop class"
      BY <1>3, <2>1 DEF Followed, Lowered
    <2>3. ASSUME NEW q \in TagRecord, requests'[c] = q
          PROVE  Fine(q, u, H, D, tags)
      <3>1. NextTag(r, q) /\ r.op = "drop class"
        <4>1. ~Ends(c, TRUE)
          BY <2>3, Ended, NoRequestIsNone DEF TagTyped
        <4>2. \A k : Turns(c, k) => k = q
          BY <2>3 DEF Turns, Goes, TagTyped
        <4> QED
          BY <2>2, <4>1, <4>2
      <3>2. /\ q.op = r.op /\ q.side = r.side /\ q.seen = r.seen /\ q.doc = r.doc
            /\ q.tag \in r.ids /\ q.ids = r.ids \ {q.tag} /\ q.step = "check"
        BY <3>1 DEF NextTag, Alike
      <3>3. u \notin r.ids
        BY <1>2, <3>1
      <3>4. ReadOK(q, u, H)
        BY <3>1, <3>2 DEF ReadOK, Reading, Between
      <3>5. \A s \in Sides : ~Owes(q, s, u)
        BY <3>1, <3>2, <3>3 DEF Owes
      <3>6. Told(q, u, H, D, tags)
        BY <1>7, <3>1, <3>2 DEF Told
      <3> QED
        BY <3>4, <3>5, <3>6 DEF Fine
    <2>4. \A d \in TagClients, x \in TagRecord : requests'[d] = x => Fine(x, u, H, D, tags')
      BY <1>10, <1>12, <1>13, <2>3
    <2>5. CountIn(D, r.side) = DueOf(H, r.side)
      BY <1>1, <1>6, <1>11, <1>17 DEF CountIn
    <2>6. \A s \in Sides : (\A d \in TagClients, x \in TagRecord : requests'[d] = x => ~Owes(x, s, u))
                             => CountIn(D, s) = DueOf(H, s)
      BY <1>15, <2>5
    <2> QED
      BY <1>7, <1>8, <1>10, <2>4, <2>6, FineAllNext
  <1> QED
    BY <1>16, <1>17

\* Another request while the document of u is deleted or added.
LEMMA OtherTold ==
  ASSUME NEW x \in TagRecord, NEW r \in TagRecord, ~Bound(x, r), NEW u, r.tag = u, r.op \in {"create", "update"},
         NEW H, NEW C, NEW T, NEW S, r.op = "update" \/ (u \in T => u \in S), Fine(x, u, H, C, T)
  PROVE  Fine(x, u, H, C, S)
  <1>1. Told(x, u, H, C, T)
    BY DEF Fine
  <1>2. x.op = "create" => x.tag # u
    BY DEF Bound
  <1>3. r.op = "update" => x.op # "drop class" /\ x.tag # u
    <2>1. x.op = "drop class" /\ r.op = "update" => {x.op, r.op} = {"update", "drop class"}
      OBVIOUS
    <2> QED
      BY <2>1 DEF Bound
  <1>4. Told(x, u, H, C, S)
    BY <1>1, <1>2, <1>3 DEF Told
  <1> QED
    BY <1>4 DEF Fine

\* The document of the tag itself is deleted or put.
LEMMA FineDocumentStep ==
  ASSUME TagTyped, Pairs, Gap, NEW u, Calm(u), FineAll(u), NEW c \in TagClients, NEW r \in TagRecord,
         requests[c] = r, TagSteps(c), r.doc = "tag", r.tag = u,
         r.step = "drop" \/ (r.step = "put" /\ Writes(r) /\ ~Exists(r))
  PROVE  FineAll(u)'
  <1> DEFINE H == Have(u)
             C == Column(u)
  <1>1. Phase(r) /\ u \in TagIds /\ r.side \in Sides /\ r.op \in TagOps /\ u \in Touched(r)
    BY DEF TagTyped, Calm, TagRecord, Touched
  <1>2. r.op \in {"create", "update"}
    <2>1. r.op = "delete" => <<r.side, r.tag>> \in removed
      BY <1>1 DEF Phase
    <2>2. r.op # "delete"
      BY <1>1, <2>1 DEF Calm
    <2> QED
      BY <1>1, <2>2 DEF Phase, TagOps
  <1>3. /\ \A d \in TagClients, x \in TagRecord : requests[d] = x => Fine(x, u, H, C, tags)
        /\ \A s \in Sides : (\A d \in TagClients, x \in TagRecord : requests[d] = x => ~Owes(x, s, u))
                              => CountIn(C, s) = DueOf(H, s)
    BY DEF FineAll
  <1>4. Fine(r, u, H, C, tags)
    BY <1>3
  <1>5. \A s \in Sides : ~Owes(r, s, u)
    BY <1>2 DEF Owes
  <1>6. Have(u)' = H
    BY HaveSame DEF Turning, Reading
  <1>7. /\ r.step = "drop" => Dropped(r)
        /\ r.step = "put" => Put(r)
    BY DropStep, PutStep
  <1>8. Column(u)' = C
    <2>1. counts' = counts
      BY <1>7 DEF Dropped, Put
    <2> QED
      BY <2>1 DEF Column
  <1>9. /\ r.step = "drop" => tags' = tags \ {u}
        /\ r.step = "put" => tags' = tags \cup {u}
    BY <1>7 DEF Dropped, Put
  <1> HIDE DEF H, C
  <1>10. r.step = "drop" => r.op = "update"
    BY <1>2, <1>4 DEF Fine, Told
  <1>11. /\ \A d \in TagClients \ {c} : requests'[d] = requests[d]
         /\ requests'[c] \in TagRecord \cup {NoRequest}
    BY StepWho
  <1>12. \A d \in TagClients \ {c}, x \in TagRecord : requests[d] = x => Fine(x, u, H, C, tags')
    <2>1. \A d \in TagClients \ {c}, x \in TagRecord : requests[d] = x => ~Bound(x, r)
      BY <1>1, CalmUnbound
    <2>2. r.op = "update" \/ (u \in tags => u \in tags')
      BY <1>9, <1>10
    <2> QED
      BY <1>2, <1>3, <2>1, <2>2, OtherTold
  <1>13. ASSUME NEW s \in Sides, \A d \in TagClients, x \in TagRecord : requests'[d] = x => ~Owes(x, s, u)
         PROVE  CountIn(C, s) = DueOf(H, s)
    <2>1. \A d \in TagClients, x \in TagRecord : requests[d] = x => ~Owes(x, s, u)
      BY <1>5, <1>11, <1>13
    <2> QED
      BY <1>3, <2>1
  <1>14. CASE r.step = "drop"
    <2>1. PICK q \in TagRecord : requests'[c] = q /\ q.step = "put" /\ q.doc = r.doc /\ Stepped(r, q)
      BY <1>14, DropStep
    <2>2. q.op = "update" /\ q.tag = u /\ q.doc = "tag"
      BY <1>10, <1>14, <2>1 DEF Stepped, Alike
    <2>3. Fine(q, u, H, C, tags')
      <3>1. ReadOK(q, u, H)
        BY <2>2 DEF ReadOK
      <3>2. \A s \in Sides : ~Owes(q, s, u)
        BY <2>2 DEF Owes
      <3>3. Told(q, u, H, C, tags')
        BY <2>2 DEF Told
      <3> QED
        BY <3>1, <3>2, <3>3 DEF Fine
    <2>4. Creates(q, u)
      BY <2>1, <2>2 DEF Creates
    <2>5. \A d \in TagClients, x \in TagRecord : requests'[d] = x => Fine(x, u, H, C, tags')
      BY <1>11, <1>12, <2>1, <2>3
    <2> QED
      BY <1>6, <1>8, <1>13, <2>1, <2>4, <2>5, FineAllNext
  <1>15. CASE r.step = "put"
    <2>1. Followed(c, r)
      BY <1>15, PutFollowed
    <2>2. requests'[c] = NoRequest
      BY <1>2, <2>1, Ended DEF Followed, TagTyped
    <2>3. u \in tags'
      BY <1>9, <1>15
    <2>4. \A d \in TagClients, x \in TagRecord : requests'[d] = x => Fine(x, u, H, C, tags')
      BY <1>11, <1>12, <2>2, NoRequestIsNone
    <2> QED
      BY <1>6, <1>8, <1>13, <2>3, <2>4, FineAllNext
  <1> QED
    BY <1>14, <1>15

\* What is known of a calm tag survives every step of a request.
LEMMA FineStep ==
  ASSUME TagTyped, Pairs, Gap, NEW u, Calm(u), FineAll(u), NEW c \in TagClients, NEW r \in TagRecord,
         requests[c] = r, TagSteps(c)
  PROVE  FineAll(u)'
  <1> DEFINE Writing == r.step = "drop" \/ (r.step = "put" /\ Writes(r) /\ ~Exists(r))
  <1>1. r.doc \in {"tag", "count", "map"}
    BY DEF TagRecord
  <1>2. CASE Turning(r, u) /\ \E q \in TagRecord : requests'[c] = q /\ q.step = "put"
    BY <1>2, FineTurnedStep
  <1>3. CASE r.doc # "map" /\ r.tag = u /\ Writing
    BY <1>1, <1>3, FineCountStep, FineDocumentStep
  <1>4. CASE /\ ~(Turning(r, u) /\ \E q \in TagRecord : requests'[c] = q /\ q.step = "put")
             /\ ~(r.doc # "map" /\ r.tag = u /\ Writing)
    <2>1. Turning(r, u) => \A q \in TagRecord : requests'[c] = q => q.step # "put"
      BY <1>4
    <2>2. r.doc # "map" /\ r.tag = u => r.step # "drop" /\ ~(r.step = "put" /\ Writes(r) /\ ~Exists(r))
      BY <1>4
    <2>3. Settles(c, r, u, Have(u), Column(u), tags)
      BY <2>1, <2>2, SettledTag
    <2>4. Have(u)' = Have(u)
      BY <2>1, HaveSame
    <2>5. \A s \in Sides : counts'[s][u] = counts[s][u]
      <3>1. r.side \in Sides /\ u \in TagIds /\ counts \in [Sides -> [TagIds -> Nat \cup {Missing}]]
        BY DEF TagTyped, Calm, TagRecord
      <3>2. CASE counts' = counts
        BY <3>2
      <3>3. ASSUME NEW n, r.doc = "count", counts' = [counts EXCEPT ![r.side][r.tag] = n],
                   r.step = "drop" \/ (r.step = "put" /\ Writes(r) /\ ~Exists(r))
            PROVE  \A s \in Sides : counts'[s][u] = counts[s][u]
        <4>1. r.tag # u
          BY <2>2, <3>3
        <4> QED
          BY ONLY <3>1, <3>3, <4>1
      <3>4. CASE Reads
        BY <3>2, <3>4 DEF Reads
      <3>5. CASE r.step = "drop" /\ Dropped(r)
        BY <3>2, <3>3, <3>5 DEF Dropped
      <3>6. CASE r.step = "put" /\ Writes(r) /\ ~Exists(r) /\ Put(r)
        BY <3>2, <3>3, <3>6 DEF Put
      <3> QED
        BY <3>4, <3>5, <3>6, StepStore
    <2>6. u \in tags' <=> u \in tags
      BY <2>2, StepStore DEF Reads, Dropped, Put
    <2>7. SameView(u)
      BY <2>4, <2>5, <2>6 DEF SameView, Column
    <2> QED
      BY <2>3, <2>7, FineQuiet
  <1> QED
    BY <1>2, <1>3, <1>4

--------------------------------------------------------------------------------
(* Tags: what is known of a calm tag when a request begins or is dropped.   *)

LEMMA FineAkin ==
  ASSUME NEW x, NEW y, Akin(x, y), NEW u
  PROVE  /\ \A H, C, T : Fine(y, u, H, C, T) <=> Fine(x, u, H, C, T)
         /\ \A s : Owes(y, s, u) <=> Owes(x, s, u)
         /\ Creates(y, u) <=> Creates(x, u)
         /\ \A s, i : Brings(y, s, i, u) <=> Brings(x, s, i, u)
  <1>1. /\ y.side = x.side /\ y.op = x.op /\ y.tag = x.tag /\ y.item = x.item /\ y.step = x.step
        /\ y.doc = x.doc /\ y.ids = x.ids /\ y.seen = x.seen /\ y.n = x.n /\ y.todo = x.todo
    BY DEF Akin, Steady4
  <1>2. /\ Reading(y) <=> Reading(x)
        /\ Between(y) <=> Between(x)
        /\ Past(y) <=> Past(x)
        /\ Noted(y, u) <=> Noted(x, u)
        /\ Creates(y, u) <=> Creates(x, u)
    BY <1>1 DEF Reading, Between, Past, Noted, Creates
  <1>3. \A H : ReadOK(y, u, H) <=> ReadOK(x, u, H)
    BY <1>1, <1>2 DEF ReadOK
  <1>4. \A s : Owes(y, s, u) <=> Owes(x, s, u)
    BY <1>1, <1>2 DEF Owes
  <1>5. \A s, H, C : Paid(y, s, u, H, C) <=> Paid(x, s, u, H, C)
    BY <1>1, <1>2 DEF Paid
  <1>6. \A H, C, T : Told(y, u, H, C, T) <=> Told(x, u, H, C, T)
    BY <1>1 DEF Told
  <1>7. \A s, i : Brings(y, s, i, u) <=> Brings(x, s, i, u)
    BY <1>1, <1>2 DEF Brings
  <1> QED
    BY <1>2, <1>3, <1>4, <1>5, <1>6, <1>7 DEF Fine

\* A tag that was never made is nowhere.
LEMMA UnmadeNowhere ==
  ASSUME TagTyped, NEW u \in TagIds \ made
  PROVE  /\ u \notin tags
         /\ \A s \in Sides : Column(u)[s] = Missing
         /\ \A p : p \notin Have(u)
  <1>1. u \notin tags /\ \A s \in Sides : counts[s][u] = Missing
    BY DEF TagTyped
  <1>2. \A s \in Sides : \A i : ~Holds(s, i, u)
    BY DocTyped DEF Holds
  <1>3. \A d \in TagClients, x \in TagRecord : \A s, i : requests[d] = x => ~Brings(x, s, i, u)
    BY DEF TagTyped, Phase, Brings
  <1>4. \A s \in Sides : \A i : ~Has(s, i, u)
    BY <1>2, <1>3 DEF Has
  <1> QED
    BY <1>1, <1>4, ColumnOf DEF Have

\* A request that begins knows nothing yet, and owes nothing.
LEMMA FineBegins ==
  ASSUME TagTyped, NEW r \in TagRecord, Starts(r), NEW u \in TagIds
  PROVE  /\ Fine(r, u, Have(u), Column(u), tags)
         /\ \A s : ~Owes(r, s, u)
         /\ u \in made' \ made => Creates(r, u)
         /\ \A s, i : ~Brings(r, s, i, u)
  <1>1. u # Missing
    BY TagsAssumption
  <1>2. ~Reading(r) /\ ~Between(r) /\ ~Past(r)
    BY DEF Starts, Reading, Between, Past
  <1>3. r.ids = {} /\ r.seen = {} /\ r.todo = <<>>
    BY DEF Starts, Blank
  <1>4. ReadOK(r, u, Have(u))
    <2>1. Range(r.todo) = {}
      BY <1>3 DEF Range
    <2> QED
      BY <1>2, <2>1 DEF ReadOK
  <1>5. \A s : ~Owes(r, s, u)
    BY <1>1, <1>2, <1>3 DEF Owes, Starts
  <1>6. Told(r, u, Have(u), Column(u), tags)
    <2>1. CASE r.op = "create" /\ r.tag = u
      <3>1. u \in TagIds \ made /\ r.step = "look"
        BY <2>1 DEF Starts
      <3>2. u \notin tags /\ (\A s \in Sides : Column(u)[s] = Missing) /\ \A p : p \notin Have(u)
        BY <3>1, UnmadeNowhere
      <3> HIDE DEF Have, Column
      <3> QED
        BY <2>1, <3>1, <3>2 DEF Told
    <2>2. CASE ~(r.op = "create" /\ r.tag = u)
      BY <1>3, <2>2 DEF Told, Starts
    <2> QED
      BY <2>1, <2>2
  <1>7. u \in made' \ made => Creates(r, u)
    BY DEF Starts, Creates
  <1>8. \A s, i : ~Brings(r, s, i, u)
    BY <1>2 DEF Brings
  <1> QED
    BY <1>4, <1>5, <1>6, <1>7, <1>8 DEF Fine

\* What is known of a tag survives a request that begins.
LEMMA FineAsk ==
  ASSUME TagTyped, NEW c \in TagClients, NEW r \in TagRecord, Ask(c, r), Starts(r), NEW u \in TagIds, FineAll(u)
  PROVE  FineAll(u)'
  <1> DEFINE H == Have(u)
             C == Column(u)
  <1>1. requests[c] = NoRequest /\ tags' = tags /\ counts' = counts /\ maps' = maps
    BY AskedHow DEF Reads
  <1>2. PICK q \in TagRecord : requests'[c] = q /\ Akin(r, q)
    BY AskedHow
  <1>3. /\ \A d \in TagClients \ {c} : requests[d] = NoRequest => requests'[d] = NoRequest
        /\ \A d \in TagClients \ {c}, x \in TagRecord : requests[d] = x =>
             \E y \in TagRecord : requests'[d] = y /\ Akin(x, y)
        /\ \A d \in TagClients : requests[d] \in TagRecord \cup {NoRequest}
        /\ NoRequest \notin TagRecord
    BY AskedHow, NoRequestIsNone DEF TagTyped
  <1>4. \A d \in TagClients \ {c}, y \in TagRecord : requests'[d] = y =>
          \E x \in TagRecord : requests[d] = x /\ Akin(x, y)
    BY ONLY <1>3
  <1>5. /\ \A s, i : ~Brings(q, s, i, u)
        /\ \A s : ~Owes(q, s, u)
        /\ Fine(q, u, H, C, tags)
        /\ u \in made' \ made => Creates(q, u)
    BY <1>2, FineBegins, FineAkin
  <1>6. Have(u)' = H
    <2>1. \A s, i : Holds(s, i, u)' <=> Holds(s, i, u)
      BY <1>1 DEF Holds, Range
    <2>2. ASSUME NEW s, NEW i
          PROVE  (\E d \in TagClients, x \in TagRecord : requests'[d] = x /\ Brings(x, s, i, u))
                   <=> \E d \in TagClients, x \in TagRecord : requests[d] = x /\ Brings(x, s, i, u)
      <3>1. ASSUME NEW d \in TagClients, NEW x \in TagRecord, requests'[d] = x, Brings(x, s, i, u)
            PROVE  \E y \in TagRecord : requests[d] = y /\ Brings(y, s, i, u)
        BY <1>2, <1>4, <1>5, <3>1, FineAkin
      <3>2. ASSUME NEW d \in TagClients, NEW x \in TagRecord, requests[d] = x, Brings(x, s, i, u)
            PROVE  \E y \in TagRecord : requests'[d] = y /\ Brings(y, s, i, u)
        BY <1>1, <1>3, <3>2, FineAkin
      <3> QED
        BY <3>1, <3>2
    <2>3. \A s, i : Has(s, i, u)' <=> Has(s, i, u)
      BY <2>1, <2>2 DEF Has
    <2> QED
      BY <2>3 DEF Have
  <1>7. Column(u)' = C
    BY <1>1 DEF Column
  <1>8. /\ \A d \in TagClients, x \in TagRecord : requests[d] = x => Fine(x, u, H, C, tags)
        /\ \A s \in Sides : (\A d \in TagClients, x \in TagRecord : requests[d] = x => ~Owes(x, s, u))
                              => CountIn(C, s) = DueOf(H, s)
        /\ u \in made \ tags => \E d \in TagClients, x \in TagRecord : requests[d] = x /\ Creates(x, u)
    BY DEF FineAll
  <1> HIDE DEF H, C
  <1>9. \A d \in TagClients, x \in TagRecord : requests'[d] = x => Fine(x, u, H, C, tags')
    <2> SUFFICES ASSUME NEW d \in TagClients, NEW x \in TagRecord, requests'[d] = x
                 PROVE  Fine(x, u, H, C, tags)
      BY <1>1
    <2>1. CASE d = c
      BY <1>2, <1>5, <2>1
    <2>2. CASE d # c
      <3>1. PICK y \in TagRecord : requests[d] = y /\ Akin(y, x)
        BY <1>4, <2>2
      <3> QED
        BY <1>8, <3>1, FineAkin
    <2> QED
      BY <2>1, <2>2
  <1>10. ASSUME NEW s \in Sides, \A d \in TagClients, x \in TagRecord : requests'[d] = x => ~Owes(x, s, u)
         PROVE  CountIn(C, s) = DueOf(H, s)
    <2>1. ASSUME NEW d \in TagClients, NEW x \in TagRecord, requests[d] = x
          PROVE  ~Owes(x, s, u)
      <3>1. d # c
        BY <1>1, <1>3, <2>1
      <3>2. PICK y \in TagRecord : requests'[d] = y /\ Akin(x, y)
        BY <1>3, <2>1, <3>1
      <3> QED
        BY <1>10, <3>2, FineAkin
    <2> QED
      BY <1>8, <2>1
  <1>11. ASSUME u \in made' \ tags'
         PROVE  \E d \in TagClients, x \in TagRecord : requests'[d] = x /\ Creates(x, u)
    <2>1. CASE u \in made
      <3>1. PICK d \in TagClients, x \in TagRecord : requests[d] = x /\ Creates(x, u)
        BY <1>1, <1>8, <1>11, <2>1
      <3>2. d # c
        BY <1>1, <1>3, <3>1
      <3>3. PICK y \in TagRecord : requests'[d] = y /\ Akin(x, y)
        BY <1>3, <3>1, <3>2
      <3> QED
        BY <3>1, <3>3, FineAkin
    <2>2. CASE u \notin made
      BY <1>2, <1>5, <1>11, <2>2
    <2> QED
      BY <2>1, <2>2
  <1> QED
    BY <1>6, <1>7, <1>9, <1>10, <1>11, FineAllNext

\* What is known of a tag that stays calm survives a dropped request.
LEMMA FineAbandon ==
  ASSUME TagTyped, NEW c \in TagClients, Abandon(c), NEW u \in TagIds, Calm(u)', FineAll(u)
  PROVE  FineAll(u)'
  <1> DEFINE H == Have(u)
             C == Column(u)
  <1>1. /\ tags' = tags /\ counts' = counts /\ maps' = maps /\ made' = made /\ requests'[c] = NoRequest
        /\ \A d \in TagClients \ {c} : requests'[d] = requests[d]
    BY AbandonedHow DEF Reads
  <1>2. PICK r \in TagRecord : requests[c] = r
    BY AbandonedHow
  <1>3. u \notin Touched(r) /\ Phase(r)
    BY <1>2, CalmAbandon DEF TagTyped
  <1>4. r.tag # u /\ u \notin r.ids
    BY <1>3 DEF Touched, Phase
  <1>5. (\A s : ~Owes(r, s, u)) /\ ~Creates(r, u) /\ \A s, i : ~Brings(r, s, i, u)
    BY <1>4 DEF Owes, Creates, Brings
  <1>6. \A d \in TagClients, x \in TagRecord : requests'[d] = x <=> d # c /\ requests[d] = x
    BY <1>1, NoRequestIsNone
  <1>7. Have(u)' = H
    <2>1. \A s, i : Holds(s, i, u)' <=> Holds(s, i, u)
      BY <1>1 DEF Holds, Range
    <2>2. ASSUME NEW s, NEW i
          PROVE  (\E d \in TagClients, x \in TagRecord : requests'[d] = x /\ Brings(x, s, i, u))
                   <=> \E d \in TagClients, x \in TagRecord : requests[d] = x /\ Brings(x, s, i, u)
      BY <1>2, <1>5, <1>6
    <2>3. \A s, i : Has(s, i, u)' <=> Has(s, i, u)
      BY <2>1, <2>2 DEF Has
    <2> QED
      BY <2>3 DEF Have
  <1>8. Column(u)' = C
    BY <1>1 DEF Column
  <1>9. /\ \A d \in TagClients, x \in TagRecord : requests[d] = x => Fine(x, u, H, C, tags)
        /\ \A s \in Sides : (\A d \in TagClients, x \in TagRecord : requests[d] = x => ~Owes(x, s, u))
                              => CountIn(C, s) = DueOf(H, s)
        /\ u \in made \ tags => \E d \in TagClients, x \in TagRecord : requests[d] = x /\ Creates(x, u)
    BY DEF FineAll
  <1> HIDE DEF H, C
  <1>10. ASSUME NEW s \in Sides, \A d \in TagClients, x \in TagRecord : requests'[d] = x => ~Owes(x, s, u)
         PROVE  CountIn(C, s) = DueOf(H, s)
    <2>1. \A d \in TagClients, x \in TagRecord : requests[d] = x => ~Owes(x, s, u)
      BY <1>2, <1>5, <1>6, <1>10
    <2> QED
      BY <1>9, <2>1
  <1>11. u \in made' \ tags' => \E d \in TagClients, x \in TagRecord : requests'[d] = x /\ Creates(x, u)
    BY <1>1, <1>2, <1>5, <1>6, <1>9
  <1>12. \A d \in TagClients, x \in TagRecord : requests'[d] = x => Fine(x, u, H, C, tags')
    BY <1>1, <1>6, <1>9
  <1> QED
    BY <1>7, <1>8, <1>10, <1>11, <1>12, FineAllNext

\* Nobody is writing: who has u is who holds it.
LEMMA DueAtRest ==
  ASSUME TagTyped, NEW u, NEW s \in Sides,
         \A c \in TagClients, r \in TagRecord : requests[c] = r => u \notin Touched(r)
  PROVE  DueOf(Have(u), s) = Cardinality({i \in Items(s) : Holds(s, i, u)})
  <1>1. \A d \in TagClients, x \in TagRecord : \A i : requests[d] = x => ~Brings(x, s, i, u)
    BY DEF TagTyped, Phase, Brings, Touched
  <1>2. \A i : Has(s, i, u) <=> Holds(s, i, u)
    BY <1>1 DEF Has
  <1>3. \A i \in Items(s) : <<s, i>> \in Have(u) <=> Holds(s, i, u)
    BY <1>2, HaveOf DEF Items
  <1>4. {i \in Items(s) : <<s, i>> \in Have(u)} = {i \in Items(s) : Holds(s, i, u)}
    BY <1>3
  <1> QED
    BY <1>4 DEF DueOf

\* At the beginning the counts are the numbers of items.
LEMMA FineInit ==
  ASSUME TagTyped, Begun0, NEW u \in TagIds
  PROVE  FineAll(u)
  <1>1. \A c \in TagClients, r \in TagRecord : requests[c] # r
    BY NoRequestIsNone DEF Begun0
  <1>2. ASSUME NEW s \in Sides
        PROVE  CountIn(Column(u), s) = DueOf(Have(u), s)
    <2>1. CountIn(Column(u), s) = Count(s, u)
      BY ColumnOf DEF CountIn, Count
    <2>2. Count(s, u) = Cardinality({i \in Items(s) : Holds(s, i, u)})
      BY DEF Begun0
    <2>3. DueOf(Have(u), s) = Cardinality({i \in Items(s) : Holds(s, i, u)})
      BY <1>1, DueAtRest
    <2> QED
      BY ONLY <2>1, <2>2, <2>3, Zenon
  <1>3. made \ tags = {}
    BY DEF Begun0
  <1> QED
    BY <1>1, <1>2, <1>3 DEF FineAll

\* Of every calm tag the requests know and owe what is true.
Accounted ==
  TagTyped /\ Pairs /\ Gap /\ \A u \in TagIds : Calm(u) => FineAll(u)

\* The invariant about calm tags holds at the beginning.
LEMMA AccountedInit ==
  ASSUME TagInit
  PROVE  Accounted
  <1>1. TagTyped /\ Begun0
    BY InitTyped
  <1>2. \A c \in TagClients, r \in TagRecord : requests[c] # r
    BY <1>1, NoRequestIsNone DEF Begun0
  <1>3. Pairs /\ Gap
    BY <1>2 DEF Pairs, Gap
  <1> QED
    BY <1>1, <1>3, FineInit DEF Accounted

\* The invariant about calm tags is kept.
LEMMA AccountedNext ==
  ASSUME Accounted, TagNext \/ UNCHANGED tagVars
  PROVE  Accounted'
  <1>0. TagTyped /\ Pairs /\ Gap /\ \A u \in TagIds : Calm(u) => FineAll(u)
    BY DEF Accounted
  <1>1. ASSUME NEW c \in TagClients, TagRequests(c)
        PROVE  Accounted'
    <2>1. PICK r \in TagRecord : Ask(c, r) /\ Starts(r)
      BY <1>0, <1>1, BegunHow
    <2>2. TagTyped' /\ Pairs' /\ Gap'
      BY <1>0, <2>1, AskTyped, PairsAsk, GapAsk
    <2>3. ASSUME NEW u \in TagIds, Calm(u)'
          PROVE  FineAll(u)'
      <3>1. Calm(u)
        BY <1>0, <2>1, <2>3, CalmAsk
      <3> QED
        BY <1>0, <2>1, <3>1, FineAsk
    <2> QED
      BY <2>2, <2>3 DEF Accounted
  <1>2. ASSUME NEW c \in TagClients, TagSteps(c)
        PROVE  Accounted'
    <2>1. Running(c)
      BY <1>2 DEF TagSteps, ReadTagDocument, ReadImageTagIds, LookForDocument, DeleteDocument, AddDocument,
                  CheckTag, ReadTagCount, ScanPage, At
    <2>2. PICK r \in TagRecord : requests[c] = r
      BY <1>0, <2>1, NotRunning
    <2>3. TagTyped' /\ Pairs' /\ Gap'
      BY <1>0, <1>2, <2>2, StepTyped, PairsStep, GapStep
    <2>4. ASSUME NEW u \in TagIds, Calm(u)'
          PROVE  FineAll(u)'
      <3>1. Calm(u)
        BY <1>0, <1>2, <2>2, <2>4, CalmStep
      <3> QED
        BY <1>0, <1>2, <2>2, <3>1, FineStep
    <2> QED
      BY <2>3, <2>4 DEF Accounted
  <1>3. ASSUME NEW c \in TagClients, Abandon(c)
        PROVE  Accounted'
    <2>1. TagTyped' /\ Pairs' /\ Gap'
      BY <1>0, <1>3, AbandonedHow, PairsAbandon, GapAbandon
    <2>2. ASSUME NEW u \in TagIds, Calm(u)'
          PROVE  FineAll(u)'
      <3>1. Calm(u)
        BY <1>0, <1>3, <2>2, CalmAbandon
      <3> QED
        BY <1>0, <1>3, <2>2, <3>1, FineAbandon
    <2> QED
      BY <2>1, <2>2 DEF Accounted
  <1>4. CASE UNCHANGED tagVars
    <2>1. TagTyped'
      <3>1. /\ tags' = tags /\ counts' = counts /\ maps' = maps /\ requests' = requests
            /\ made' = made /\ removed' = removed /\ loose' = loose
        BY <1>4 DEF tagVars
      <3>2. \A s : TagDocs(s)' = TagDocs(s)
        BY <3>1, Zenon DEF TagDocs
      <3>3. \A x : Phase(x)' <=> Phase(x)
        BY ONLY <3>1, <3>2, Zenon DEF Phase, TagDocs
      <3>4. AskedTyped /\ StoreTyped
        BY <1>0, TypesSplit
      <3>5. AskedTyped'
        BY ONLY <3>1, <3>3, <3>4, Zenon DEF AskedTyped
      <3>6. StoreTyped'
        BY ONLY <3>1, <3>4 DEF StoreTyped, TagDocs
      <3> QED
        BY <3>5, <3>6, TypesSplitNext
    <2>2. Pairs' /\ Gap'
      BY <1>0, <1>4 DEF tagVars, Pairs, Gap, Exists, Place
    <2>3. ASSUME NEW u
          PROVE  Calm(u)' = Calm(u) /\ FineAll(u)' = FineAll(u)
      <3>1. Calm(u)' = Calm(u)
        BY <1>4 DEF tagVars, Calm
      <3>2. FineAll(u)' = FineAll(u)
        BY <1>4 DEF tagVars, FineAll, Have, Has, Holds, Range, Column
      <3> QED
        BY <3>1, <3>2
    <2> QED
      BY <1>0, <2>1, <2>2, <2>3 DEF Accounted
  <1> QED
    BY <1>1, <1>2, <1>3, <1>4 DEF TagNext

--------------------------------------------------------------------------------
(* Tags: deletions that nobody disturbs.                                    *)

\* Nothing of the tag is left on the side of the request.
Clear(r) ==
  /\ r.tag \notin tags /\ counts[r.side][r.tag] = Missing
  /\ \A d \in Range(maps[r.side]) : r.tag \notin d.ids

\* What is already gone while a deletion is under way, and where the rest is
\* still to be found unless documents moved.
Sweep(r) ==
  /\ r.doc # "tag" \/ r.step = "put" => r.tag \notin tags
  /\ r.doc = "map" \/ (r.doc = "count" /\ r.step \in {"put", "scan"}) => counts[r.side][r.tag] = Missing
  /\ r.side = "class" => ~More(r)
  /\ r.doc # "map" /\ r.step # "scan" => r.offset = 0
  /\ r.step = "scan" /\ ~HasMoved(r) =>
       \A p \in DOMAIN maps[r.side] : r.tag \in maps[r.side][p].ids =>
         p > r.offset \/ (r.side = "class" /\ maps[r.side][p] \in Range(r.todo))
  /\ r.doc = "map" /\ r.step # "scan" /\ ~HasMoved(r) =>
       /\ ~More(r)
       /\ \A d \in Range(maps[r.side]) : r.tag \in d.ids =>
            \/ d.item = r.item /\ r.step \in {"look", "drop"}
            \/ d \in Range(r.todo)
  /\ r.doc = "map" /\ r.step # "scan" => r.tag \notin r.ids

\* Every deletion nobody disturbed is where Sweep says.
Sweeping == \A c \in TagClients, r \in TagRecord : requests[c] = r /\ r.op = "delete" /\ ~Clashes(r) => Sweep(r)

\* What becomes of a deletion.
Swept(c, r) ==
  \/ \E q : Turns(c, q) /\ Sweep(q)'
  \/ Ends(c, TRUE) /\ (HasMoved(r) \/ Clear(r)')

\* A deletion that goes on has the rest of the tag's documents before it.
LEMMA WentOnSwept ==
  ASSUME NEW c, NEW r, NEW k, k.side = r.side, k.tag = r.tag, HasMoved(k) <=> HasMoved(r),
         k.side = "class" => ~More(k),
         k.tag \notin tags', counts'[k.side][k.tag] = Missing,
         ~HasMoved(k) /\ ~More(k) =>
           \A d \in Range(maps'[k.side]) : k.tag \in d.ids => d \in Range(k.todo),
         ~HasMoved(k) /\ More(k) /\ (\A d \in Range(k.todo) : k.tag \notin d.ids) =>
           \A p \in DOMAIN maps'[k.side] : k.tag \in maps'[k.side][p].ids => p > k.offset,
         k.doc # "tag", WentOn(c, k)
  PROVE  Swept(c, r)
  <1>1. CASE \E q : Turns(c, q) /\ NextOne(k, q)
    <2>1. PICK q : Turns(c, q) /\ NextOne(k, q)
      BY <1>1
    <2>2. /\ q.side = k.side /\ q.tag = k.tag /\ (More(q) <=> More(k)) /\ q.step = "look" /\ q.doc = "map"
          /\ HasMoved(q) <=> HasMoved(k) \/ More(k)
      BY <2>1 DEF NextOne, Alike
    <2>3. q.tag \notin q.ids
      BY <2>1, <2>2 DEF NextOne
    <2>4. ~HasMoved(q) => \A d \in Range(maps'[q.side]) : q.tag \in d.ids => d.item = q.item \/ d \in Range(q.todo)
      BY <2>1, <2>2 DEF NextOne
    <2>5. Sweep(q)'
      BY <2>2, <2>3, <2>4 DEF Sweep
    <2> QED
      BY <2>1, <2>5 DEF Swept
  <1>2. CASE /\ \A d \in Range(k.todo) : k.tag \notin d.ids
             /\ More(k) /\ \E q : Turns(c, q) /\ Stepped(k, q) /\ q.doc = k.doc /\ q.step = "scan"
    <2>1. PICK q : Turns(c, q) /\ Stepped(k, q) /\ q.doc = k.doc /\ q.step = "scan"
      BY <1>2
    <2>2. /\ q.side = k.side /\ q.tag = k.tag /\ (More(q) <=> More(k)) /\ q.offset = k.offset
          /\ q.ids = k.ids /\ (HasMoved(q) <=> HasMoved(k))
      BY <2>1 DEF Stepped, Alike, Steady4
    <2>3. Sweep(q)'
      BY <1>2, <2>1, <2>2 DEF Sweep
    <2> QED
      BY <2>1, <2>3 DEF Swept
  <1>3. CASE (\A d \in Range(k.todo) : k.tag \notin d.ids) /\ ~More(k) /\ Ends(c, TRUE)
    <2>1. HasMoved(r) \/ Clear(r)'
      BY <1>3 DEF Clear
    <2> QED
      BY <1>3, <2>1 DEF Swept
  <1> QED
    BY <1>1, <1>2, <1>3 DEF WentOn

\* A deletion looks for a document.
LEMMA SweptLook ==
  ASSUME TagTyped, NEW c \in TagClients, NEW r \in TagRecord, requests[c] = r, r.op = "delete", Sweep(r),
         LookForDocument(c)
  PROVE  Swept(c, r)
  <1>1. r.step = "look" /\ tags' = tags /\ counts' = counts /\ maps' = maps /\ r.doc \in {"tag", "count", "map"}
    BY DocumentLookedFor DEF Reads, TagRecord
  <1>2. PICK q : /\ Turns(c, q) /\ Stepped(r, q) /\ q.doc = r.doc
                 /\ \/ Exists(r) /\ q.step = "drop"
                    \/ ~Exists(r) /\ q.step = "put"
    BY DocumentLookedFor
  <1>3. /\ q.side = r.side /\ q.tag = r.tag /\ q.item = r.item /\ q.ids = r.ids /\ q.offset = r.offset
        /\ q.todo = r.todo /\ (More(q) <=> More(r)) /\ (HasMoved(q) <=> HasMoved(r))
    BY <1>2 DEF Stepped, Alike, Steady4
  <1>4. q.step = "put" =>
          /\ r.doc = "tag" => r.tag \notin tags
          /\ r.doc = "count" => counts[r.side][r.tag] = Missing
          /\ r.doc = "map" => \A d \in Range(maps[r.side]) : d.item # r.item
    BY <1>2, ExistsOf
  <1>5. q.doc = r.doc /\ q.step \in {"drop", "put"}
    BY <1>2
  <1>6. Sweep(q)'
    BY <1>1, <1>3, <1>4, <1>5 DEF Sweep
  <1> QED
    BY <1>2, <1>6 DEF Swept

\* A deletion deletes a document.
LEMMA SweptDrop ==
  ASSUME TagTyped, NEW c \in TagClients, NEW r \in TagRecord, requests[c] = r, r.op = "delete", Sweep(r),
         DeleteDocument(c)
  PROVE  Swept(c, r)
  <1>1. /\ r.step = "drop" /\ r.doc \in {"tag", "count", "map"} /\ Dropped(r) /\ Phase(r) /\ r.side \in Sides
        /\ counts \in [Sides -> [TagIds -> Nat \cup {Missing}]] /\ made \subseteq TagIds
    BY DocumentDeleted, DroppedBy DEF TagRecord, TagTyped
  <1>2. PICK q : Turns(c, q) /\ Stepped(r, q) /\ q.doc = r.doc /\ q.step = "put"
    BY DocumentDeleted
  <1>3. /\ q.side = r.side /\ q.tag = r.tag /\ q.item = r.item /\ q.ids = r.ids /\ q.offset = r.offset
        /\ q.todo = r.todo /\ (More(q) <=> More(r)) /\ (HasMoved(q) <=> HasMoved(r))
    BY <1>2 DEF Stepped, Alike, Steady4
  <1>4. r.tag \in TagIds
    BY <1>1 DEF Phase
  <1>5. /\ r.doc = "tag" => r.tag \notin tags' /\ counts' = counts /\ maps' = maps
        /\ r.doc # "tag" => tags' = tags
        /\ r.doc = "count" => counts'[r.side][r.tag] = Missing /\ maps' = maps
        /\ r.doc = "map" => /\ counts' = counts
                            /\ \A d \in Range(maps'[r.side]) : d \in Range(maps[r.side]) /\ d.item # r.item
    <2>1. r.doc = "tag" => r.tag \notin tags' /\ counts' = counts /\ maps' = maps
      BY <1>1 DEF Dropped
    <2>2. r.doc # "tag" => tags' = tags
      BY <1>1 DEF Dropped
    <2>3. r.doc = "count" => counts'[r.side][r.tag] = Missing /\ maps' = maps
      BY <1>1, <1>4 DEF Dropped
    <2>4. r.doc = "map" => /\ counts' = counts
                           /\ Range(maps'[r.side]) = {d \in Range(maps[r.side]) : d.item # r.item}
      BY <1>1 DEF Dropped, Stocked
    <2> QED
      BY <2>1, <2>2, <2>3, <2>4
  <1>6. Sweep(q)'
    BY <1>1, <1>2, <1>3, <1>5 DEF Sweep
  <1> QED
    BY <1>2, <1>6 DEF Swept

\* A deletion puts a document without the tag.
LEMMA SweptPut ==
  ASSUME TagTyped, Gap, NEW c \in TagClients, NEW r \in TagRecord, requests[c] = r, r.op = "delete", ~Clashes(r),
         Sweep(r), AddDocument(c)
  PROVE  Swept(c, r)
  <1>1. /\ r.step = "put" /\ r.doc \in {"tag", "count", "map"} /\ Phase(r) /\ r.side \in Sides
        /\ r.tag \notin tags
    BY DocumentAdded DEF TagRecord, TagTyped, Sweep
  <1>2. ~Exists(r)
    BY <1>1 DEF Gap
  <1>3. /\ Followed(c, r)
        /\ Reads \/ (Writes(r) /\ ~Exists(r) /\ Put(r))
    BY <1>2, PutBy
  <1>4. CASE r.doc = "tag" \/ r.doc = "count"
    <2>1. tags' = tags /\ counts' = counts /\ maps' = maps
      BY <1>3, <1>4 DEF Reads, Writes
    <2>2. PICK q : /\ Turns(c, q) /\ Stepped(r, q) /\ q.doc = "count"
                   /\ \/ r.doc = "tag" /\ q.step = "look"
                      \/ r.doc = "count" /\ q.step = "scan"
      BY <1>3, <1>4 DEF Followed
    <2>3. /\ q.side = r.side /\ q.tag = r.tag /\ q.offset = r.offset /\ q.ids = r.ids
          /\ q.todo = r.todo /\ (More(q) <=> More(r)) /\ (HasMoved(q) <=> HasMoved(r))
      BY <2>2 DEF Stepped, Alike, Steady4
    <2>4. r.offset = 0
      BY <1>1, <1>4 DEF Sweep
    <2>5. \A p \in DOMAIN maps[r.side] : p > 0
      BY <1>1, MapsTyped
    <2>6. r.doc = "count" => counts[r.side][r.tag] = Missing
      BY <1>1 DEF Sweep
    <2>7. r.side = "class" => ~More(r)
      BY DEF Sweep
    <2>8. Sweep(q)'
      BY <1>1, <2>1, <2>2, <2>3, <2>4, <2>5, <2>6, <2>7 DEF Sweep
    <2> QED
      BY <2>2, <2>8 DEF Swept
  <1>5. CASE r.doc = "map"
    <2>1. tags' = tags /\ counts' = counts
      BY <1>3, <1>5 DEF Reads, Put
    <2>2. \A d \in Range(maps'[r.side]) : d \in Range(maps[r.side]) \/ d.ids = r.ids
      <3>1. CASE Reads
        BY <3>1 DEF Reads
      <3>2. CASE Put(r)
        <4>1. Range(maps'[r.side]) = Range(maps[r.side]) \cup {[item |-> r.item, ids |-> r.ids]}
          BY <1>5, <3>2 DEF Put, Stocked
        <4> QED
          BY <4>1
      <3> QED
        BY <1>3, <3>1, <3>2
    <2>3. /\ r.tag \notin r.ids /\ counts[r.side][r.tag] = Missing /\ (r.side = "class" => ~More(r))
          /\ ~HasMoved(r) => /\ ~More(r)
                             /\ \A d \in Range(maps[r.side]) : r.tag \in d.ids => d \in Range(r.todo)
      BY <1>1, <1>5 DEF Sweep
    <2>4. WentOn(c, r)
      BY <1>3, <1>5 DEF Followed
    <2> QED
      BY <1>1, <1>5, <2>1, <2>2, <2>3, <2>4, WentOnSwept
  <1> QED
    BY <1>1, <1>4, <1>5

\* A deletion scans a page: what it has not yet seen lies behind it.
LEMMA SweptScan ==
  ASSUME TagTyped, NEW c \in TagClients, NEW r \in TagRecord, requests[c] = r, r.op = "delete", Sweep(r),
         ScanPage(c)
  PROVE  Swept(c, r)
  <1>1. tags' = tags /\ counts' = counts /\ maps' = maps /\ r.step = "scan" /\ r.doc # "tag" /\ r.side \in Sides
        /\ r.doc \in {"tag", "count", "map"} /\ r.offset \in Nat
    BY PageScanned DEF Reads, TagRecord
  <1>2. PICK k, page : k \in TagRecord /\ Phase(k) /\ Paged(c, r, k, page)
    BY PageScanned
  <1>3. /\ k.side = r.side /\ k.tag = r.tag /\ k.doc = r.doc /\ k.step = r.step /\ k.offset \in Nat
        /\ (HasMoved(k) <=> HasMoved(r))
    BY <1>2 DEF Paged, Alike
  <1>4. r.tag \notin tags /\ counts[r.side][r.tag] = Missing /\ (r.side = "class" => ~More(r))
    BY <1>1 DEF Sweep
  <1>5. ~HasMoved(r) =>
          \A p \in DOMAIN maps[r.side] : r.tag \in maps[r.side][p].ids =>
            p > r.offset \/ (r.side = "class" /\ maps[r.side][p] \in Range(r.todo))
    BY <1>1 DEF Sweep
  <1>6. DOMAIN maps[r.side] \subseteq Nat
        /\ \A d : d \in Range(maps[r.side]) <=> \E p \in DOMAIN maps[r.side] : maps[r.side][p] = d
    <2>1. DOMAIN maps[r.side] = 1 .. Len(maps[r.side]) /\ Len(maps[r.side]) \in Nat
      BY <1>1, MapsTyped
    <2>2. \A d : d \in Range(maps[r.side]) <=> \E p \in DOMAIN maps[r.side] : maps[r.side][p] = d
      BY <1>1, MapsTyped
    <2>3. \A n \in Nat : 1 .. n \subseteq Nat
      OBVIOUS
    <2> QED
      BY ONLY <2>1, <2>2, <2>3
  <1>7. CASE r.side = "class"
    <2>1. /\ (More(k) <=> More(r)) /\ Range(k.todo) = Range(r.todo) \cup page
          /\ \/ /\ Turns(c, k)
                /\ \A p \in DOMAIN maps[r.side] :
                     r.offset < p /\ p <= k.offset => maps[r.side][p] \in page
             \/ /\ WentOn(c, k)
                /\ \A p \in DOMAIN maps[r.side] : r.offset < p => maps[r.side][p] \in page
      BY <1>2, <1>7 DEF Paged
    <2>2. CASE /\ Turns(c, k)
               /\ \A p \in DOMAIN maps[r.side] : r.offset < p /\ p <= k.offset => maps[r.side][p] \in page
      <3>1. ASSUME ~HasMoved(k), NEW p \in DOMAIN maps[r.side], r.tag \in maps[r.side][p].ids
            PROVE  p > k.offset \/ maps[r.side][p] \in Range(k.todo)
        <4>1. p > r.offset \/ maps[r.side][p] \in Range(k.todo)
          BY <1>3, <1>5, <2>1, <3>1
        <4>2. p \in Nat
          BY <1>6
        <4> QED
          BY <1>1, <1>3, <2>1, <2>2, <4>1, <4>2
      <3>2. Sweep(k)'
        BY <1>1, <1>3, <1>4, <1>7, <2>1, <3>1 DEF Sweep
      <3> QED
        BY <2>2, <3>2 DEF Swept
    <2>3. CASE /\ WentOn(c, k)
               /\ \A p \in DOMAIN maps[r.side] : r.offset < p => maps[r.side][p] \in page
      <3>1. ASSUME ~HasMoved(k), NEW d \in Range(maps[r.side]), r.tag \in d.ids
            PROVE  d \in Range(k.todo)
        <4>1. PICK p \in DOMAIN maps[r.side] : maps[r.side][p] = d
          BY <1>6
        <4> QED
          BY <1>3, <1>5, <2>1, <2>3, <3>1, <4>1
      <3> QED
        BY <1>1, <1>3, <1>4, <1>7, <2>1, <2>3, <3>1, WentOnSwept
    <2> QED
      BY <2>1, <2>2, <2>3
  <1>8. CASE r.side # "class"
    <2>1. /\ Range(k.todo) = page /\ WentOn(c, k)
          /\ \A p \in DOMAIN maps[r.side] :
               r.offset < p /\ (p <= k.offset \/ ~More(k)) => maps[r.side][p] \in page
      BY <1>2, <1>8 DEF Paged
    <2>2. ASSUME ~HasMoved(k), ~More(k), NEW d \in Range(maps[r.side]), r.tag \in d.ids
          PROVE  d \in Range(k.todo)
      <3>1. PICK p \in DOMAIN maps[r.side] : maps[r.side][p] = d
        BY <1>6
      <3> QED
        BY <1>3, <1>5, <1>8, <2>1, <2>2, <3>1
    <2>3. ASSUME ~HasMoved(k), \A d \in Range(k.todo) : r.tag \notin d.ids,
                 NEW p \in DOMAIN maps[r.side], r.tag \in maps[r.side][p].ids
          PROVE  p > k.offset
      <3>1. p > r.offset /\ p \in Nat
        BY <1>3, <1>5, <1>6, <1>8, <2>3
      <3>2. ~(p <= k.offset)
        BY <1>1, <2>1, <2>3, <3>1
      <3> QED
        BY <1>3, <3>1, <3>2
    <2> QED
      BY <1>1, <1>3, <1>4, <1>8, <2>1, <2>2, <2>3, WentOnSwept
  <1> QED
    BY <1>7, <1>8

\* Every step of a deletion nobody disturbs keeps Sweep, or ends it clear.
LEMMA SweptStep ==
  ASSUME TagTyped, Gap, NEW c \in TagClients, NEW r \in TagRecord, requests[c] = r, r.op = "delete", ~Clashes(r),
         Sweep(r), TagSteps(c)
  PROVE  Swept(c, r)
  <1>1. ~ReadTagDocument(c) /\ ~ReadImageTagIds(c) /\ ~CheckTag(c) /\ ~ReadTagCount(c)
    BY TagDocumentRead, IdsRead, TagChecked, CountRead
  <1> QED
    BY <1>1, SweptLook, SweptDrop, SweptPut, SweptScan DEF TagSteps

\* What another request does to a deletion that it does not disturb.
LEMMA SweepOther ==
  ASSUME TagTyped, NEW x \in TagRecord, x.op = "delete", Sweep(x), NEW r \in TagRecord, Phase(r), ~Bound(r, x),
         \/ Reads
         \/ r.step = "drop" /\ Dropped(r)
         \/ r.step = "put" /\ Writes(r) /\ ~Exists(r) /\ Put(r)
  PROVE  Sweep(x)'
  <1>1. r.side # x.side /\ (r.tag = x.tag => r.op = "drop class")
    BY DEF Bound, Sweeps
  <1>2. x.side \in Sides /\ r.side \in Sides /\ counts \in [Sides -> [TagIds -> Nat \cup {Missing}]]
    BY DEF TagRecord, TagTyped
  <1>3. counts'[x.side] = counts[x.side]
    <2>1. \/ counts' = counts
          \/ counts' = [counts EXCEPT ![r.side][r.tag] = Missing]
          \/ counts' = [counts EXCEPT ![r.side][r.tag] = r.n]
      BY DEF Reads, Dropped, Put
    <2> QED
      BY ONLY <1>1, <1>2, <2>1
  <1>4. maps'[x.side] = maps[x.side]
    <2>1. CASE r.doc # "map" \/ Reads
      BY <2>1 DEF Reads, Dropped, Put
    <2>2. CASE r.doc = "map" /\ ~Reads
      <3>1. \A s \in Sides \ {r.side} : maps'[s] = maps[s]
        BY <2>2 DEF Dropped, Put, Stocked
      <3> QED
        BY <1>1, <1>2, <3>1
    <2> QED
      BY <2>1, <2>2
  <1>5. x.tag \notin tags => x.tag \notin tags'
    <2>1. r.doc = "tag" => r.tag # x.tag
      BY <1>1 DEF Phase
    <2> QED
      BY <2>1 DEF Reads, Dropped, Put
  <1> QED
    BY <1>3, <1>4, <1>5 DEF Sweep

\* Deletions nobody disturbs are swept, whoever steps.
LEMMA SweepingStep ==
  ASSUME TagTyped, Pairs, Gap, Sweeping, NEW c \in TagClients, NEW r \in TagRecord, requests[c] = r, TagSteps(c)
  PROVE  Sweeping'
  <1> SUFFICES ASSUME NEW d \in TagClients, NEW x \in TagRecord, requests'[d] = x, x.op = "delete", ~Clashes(x)
               PROVE  Sweep(x)'
    BY DEF Sweeping
  <1>1. CASE d = c
    <2>1. Same(r, x)
      BY <1>1, StepWho
    <2>2. r.op = "delete" /\ ~Clashes(r)
      BY <2>1 DEF Same, Alike
    <2>3. Swept(c, r)
      BY <2>2, SweptStep DEF Sweeping
    <2>4. ~Ends(c, TRUE)
      BY <1>1, Ended, NoRequestIsNone DEF TagTyped
    <2>5. \A q : Turns(c, q) => q = x
      BY <1>1 DEF Turns, Goes, TagTyped
    <2> QED
      BY <2>3, <2>4, <2>5 DEF Swept
  <1>2. CASE d # c
    <2>1. requests[d] = x
      BY <1>2, StepWho
    <2>2. ~Bound(r, x)
      BY <1>2, <2>1, BoundSym DEF Pairs
    <2>3. Sweep(x)
      BY <2>1 DEF Sweeping
    <2>4. Phase(r)
      BY DEF TagTyped
    <2> QED
      BY <2>2, <2>3, <2>4, StepStore, SweepOther
  <1> QED
    BY <1>1, <1>2

LEMMA AkinSweep ==
  ASSUME NEW x, NEW y, Akin(x, y)
  PROVE  Sweep(y) <=> Sweep(x)
  BY DEF Akin, Steady4, Sweep

\* One that begins has swept nothing.
LEMMA SweepingAsk ==
  ASSUME TagTyped, Sweeping, NEW c \in TagClients, NEW r \in TagRecord, Ask(c, r), Starts(r)
  PROVE  Sweeping'
  <1> SUFFICES ASSUME NEW d \in TagClients, NEW y \in TagRecord, requests'[d] = y, y.op = "delete", ~Clashes(y)
               PROVE  Sweep(y)'
    BY DEF Sweeping
  <1>1. tags' = tags /\ counts' = counts /\ maps' = maps
    BY AskedHow DEF Reads
  <1>2. Sweep(y)' <=> Sweep(y)
    BY <1>1 DEF Sweep
  <1>3. CASE d = c
    <2>1. Akin(r, y)
      BY <1>3, AskedHow
    <2>2. r.op = "delete"
      BY <2>1 DEF Akin
    <2>3. r.doc = "tag" /\ r.step = "look" /\ r.offset = 0 /\ ~More(r)
      BY <2>2 DEF Starts, Blank
    <2>4. Sweep(r)
      BY <2>3 DEF Sweep
    <2> QED
      BY <1>2, <2>1, <2>4, AkinSweep
  <1>4. CASE d # c
    <2>1. requests[d] \in TagRecord
      <3>1. requests[d] = NoRequest => requests'[d] = NoRequest
        BY <1>4, AskedHow
      <3> QED
        BY <3>1, NoRequestIsNone DEF TagTyped
    <2>2. PICK x \in TagRecord : requests[d] = x
      BY <2>1
    <2>3. Akin(x, y) /\ (Clashes(y) <=> Clashes(x) \/ Disturb(x, r))
      BY <1>4, <2>2, AskedHow
    <2>4. x.op = "delete" /\ ~Clashes(x)
      BY <2>3 DEF Akin
    <2> QED
      BY <1>2, <2>2, <2>3, <2>4, AkinSweep DEF Sweeping
  <1> QED
    BY <1>3, <1>4

\* A dropped request changes no sweep.
LEMMA SweepingAbandon ==
  ASSUME TagTyped, Sweeping, NEW c \in TagClients, Abandon(c)
  PROVE  Sweeping'
  <1>1. \A d \in TagClients, q \in TagRecord : requests'[d] = q => requests[d] = q
    BY AbandonedHow, NoRequestIsNone
  <1>2. \A x : Sweep(x)' <=> Sweep(x)
    BY AbandonedHow DEF Reads, Sweep
  <1> QED
    BY <1>1, <1>2 DEF Sweeping

\* What cannot bring a tag back that is gone.
Harmless(r, s, t) ==
  /\ r.op \in {"add", "update"} /\ r.tag = t => r.step = "tag"
  /\ r.op = "create" => r.tag # t
  /\ r.side = s => t \notin r.ids /\ \A d \in Range(r.todo) : t \notin d.ids
  /\ r.side = s /\ r.op = "remove" /\ r.tag = t => r.step = "ids"
  /\ r.side = s /\ r.op = "drop class" => r.tag # t
Blotted(s, t) ==
  t \notin tags /\ counts[s][t] = Missing /\ \A d \in Range(maps[s]) : t \notin d.ids
\* What such deletions have left, no request can bring back.
Staying ==
  \A g \in gone : /\ g \in Sides \X made /\ Blotted(g[1], g[2])
                  /\ \A c \in TagClients, r \in TagRecord : requests[c] = r => Harmless(r, g[1], g[2])

LEMMA HarmlessStepped ==
  ASSUME NEW r, NEW q, Stepped(r, q), NEW s, NEW t, Harmless(r, s, t), r.step \notin {"tag", "ids"} \/ r.tag # t
  PROVE  Harmless(q, s, t)
  BY DEF Stepped, Alike, Steady4, Harmless

LEMMA HarmlessWentOn ==
  ASSUME NEW c, NEW k, k.op = "delete", NEW s, NEW t, Harmless(k, s, t), WentOn(c, k),
         NEW q, requests'[c] = q, ~Ends(c, TRUE), \A x : Turns(c, x) => x = q
  PROVE  Harmless(q, s, t)
  <1>1. CASE NextOne(k, q)
    <2>1. /\ q.op = k.op /\ q.side = k.side
          /\ \E h \in Range(k.todo) : q.ids = h.ids \ {k.tag}
          /\ Range(q.todo) \subseteq Range(k.todo)
      BY <1>1 DEF NextOne, Alike
    <2> QED
      BY <2>1 DEF Harmless
  <1>2. CASE Stepped(k, q)
    BY <1>2 DEF Stepped, Alike, Steady4, Harmless
  <1> QED
    BY <1>1, <1>2 DEF WentOn

LEMMA HarmlessLowered ==
  ASSUME NEW c, NEW r, r.op = "drop class", NEW s, NEW t, Harmless(r, s, t), Lowered(c, r),
         NEW q, ~Ends(c, TRUE), \A x : Turns(c, x) => x = q
  PROVE  Harmless(q, s, t)
  <1>1. NextTag(r, q)
    BY DEF Lowered
  <1>2. /\ q.op = r.op /\ q.side = r.side /\ q.tag \in r.ids /\ q.ids = r.ids \ {q.tag} /\ q.todo = r.todo
    BY <1>1 DEF NextTag, Alike, Steady4
  <1> QED
    BY <1>2 DEF Harmless

\* A request that cannot bring a deleted tag back still cannot.
LEMMA HarmlessStep ==
  ASSUME TagTyped, NEW c \in TagClients, NEW r \in TagRecord, requests[c] = r, TagSteps(c),
         NEW s \in Sides, NEW t \in made, Blotted(s, t), Harmless(r, s, t),
         NEW q \in TagRecord, requests'[c] = q
  PROVE  Harmless(q, s, t)
  <1>1. ~Ends(c, TRUE) /\ ~Ends(c, FALSE)
    BY Ended, NoRequestIsNone DEF TagTyped
  <1>2. \A k : Turns(c, k) => k = q
    BY DEF Turns, Goes, TagTyped
  <1>3. t \notin tags /\ \A d \in Range(maps[s]) : t \notin d.ids
    BY DEF Blotted
  <1>4. t # Missing /\ r.op \in TagOps
    BY TagsAssumption DEF TagTyped, TagRecord
  <1>5. \A k : Stepped(r, k) /\ k = q /\ (r.step \notin {"tag", "ids"} \/ r.tag # t) => Harmless(q, s, t)
    BY HarmlessStepped
  <1>6. WentOn(c, r) /\ r.op = "delete" => Harmless(q, s, t)
    BY <1>1, <1>2, HarmlessWentOn
  <1>7. Lowered(c, r) /\ r.op = "drop class" => Harmless(q, s, t)
    BY <1>1, <1>2, HarmlessLowered
  <1>8. Followed(c, r) /\ r.step = "put" => Harmless(q, s, t)
    BY <1>1, <1>2, <1>5, <1>6, <1>7 DEF Followed
  <1>9. CASE ReadTagDocument(c)
    BY <1>1, <1>2, <1>3, <1>5, <1>9, TagDocumentRead
  <1>10. CASE ReadImageTagIds(c)
    <2>1. /\ r.step = "ids" /\ r.op \in {"add", "remove", "drop class"}
          /\ r.op = "remove" => Holds(r.side, r.item, r.tag)
          /\ Informed(r, q)
      BY <1>1, <1>2, <1>10, IdsRead
    <2>2. /\ q.op = r.op /\ q.side = r.side /\ q.tag = r.tag /\ q.todo = r.todo
          /\ \A u : u \in q.ids => (r.op = "add" /\ u = r.tag) \/ Holds(r.side, r.item, u)
      BY <2>1 DEF Informed, Alike, Steady4
    <2>3. r.side = s => \A i : ~Holds(r.side, i, t)
      BY <1>3 DEF Holds
    <2>4. r.op = "add" => r.tag # t
      BY <2>1 DEF Harmless
    <2>5. r.side = s /\ r.op = "remove" => r.tag # t
      BY <2>1, <2>3
    <2>6. r.side = s => t \notin q.ids
      BY <2>2, <2>3, <2>4
    <2> QED
      BY <2>1, <2>2, <2>4, <2>5, <2>6 DEF Harmless
  <1>11. CASE LookForDocument(c)
    BY <1>2, <1>5, <1>11, DocumentLookedFor
  <1>12. CASE DeleteDocument(c)
    BY <1>2, <1>5, <1>12, DocumentDeleted
  <1>13. CASE AddDocument(c)
    BY <1>1, <1>8, <1>13, PutBy
  <1>14. CASE CheckTag(c)
    BY <1>1, <1>2, <1>5, <1>7, <1>14, TagChecked
  <1>15. CASE ReadTagCount(c)
    <2>1. /\ r.step = "count" /\ r.op \in {"add", "remove", "drop class"} /\ Counted(r, q)
      BY <1>2, <1>15, CountRead
    <2>2. q.op = r.op /\ q.side = r.side /\ q.tag = r.tag /\ q.todo = r.todo /\ q.ids = r.ids
      BY <2>1 DEF Counted, Alike
    <2> QED
      BY <2>1, <2>2 DEF Harmless
  <1>16. CASE ScanPage(c)
    <2>1. PICK k, page : k \in TagRecord /\ Paged(c, r, k, page)
      BY <1>16, PageScanned
    <2>2. r.op = "delete" /\ r.step = "scan"
      BY <1>16, PageScanned
    <2>3. /\ k.op = r.op /\ k.side = r.side /\ k.tag = r.tag /\ k.ids = r.ids
          /\ Range(k.todo) \subseteq Range(r.todo) \cup Range(maps[r.side])
          /\ WentOn(c, k) \/ Turns(c, k)
      BY <2>1 DEF Paged, Alike
    <2>4. Harmless(k, s, t)
      BY <1>3, <2>2, <2>3 DEF Harmless
    <2> QED
      BY <1>1, <1>2, <2>2, <2>3, <2>4, HarmlessWentOn
  <1> QED
    BY <1>9, <1>10, <1>11, <1>12, <1>13, <1>14, <1>15, <1>16 DEF TagSteps

\* A deleted tag stays deleted under the steps of such requests.
LEMMA BlottedStep ==
  ASSUME TagTyped, NEW r \in TagRecord, Phase(r), NEW s \in Sides, NEW t \in made, Blotted(s, t), Harmless(r, s, t),
         \/ Reads
         \/ r.step = "drop" /\ Dropped(r)
         \/ r.step = "put" /\ Writes(r) /\ ~Exists(r) /\ Put(r)
  PROVE  Blotted(s, t)'
  <1>1. /\ t \notin tags /\ counts[s][t] = Missing /\ \A d \in Range(maps[s]) : t \notin d.ids
        /\ r.side \in Sides /\ counts \in [Sides -> [TagIds -> Nat \cup {Missing}]] /\ t \in TagIds
        /\ r.doc \in {"tag", "count", "map"} /\ r.op \in TagOps
    BY DEF Blotted, TagRecord, TagTyped
  <1>2. CASE Reads
    BY <1>1, <1>2 DEF Reads, Blotted
  <1>3. CASE r.step = "drop" /\ Dropped(r)
    <2>1. t \notin tags'
      BY <1>1, <1>3 DEF Dropped
    <2>2. counts'[s][t] = Missing
      <3>1. counts' = counts \/ counts' = [counts EXCEPT ![r.side][r.tag] = Missing]
        BY <1>3 DEF Dropped
      <3> QED
        BY ONLY <1>1, <3>1, s \in Sides
    <2>3. \A d \in Range(maps'[s]) : d \in Range(maps[s])
      <3>1. CASE r.doc = "map"
        <4>1. /\ Range(maps'[r.side]) = {d \in Range(maps[r.side]) : d.item # r.item}
              /\ \A x \in Sides \ {r.side} : maps'[x] = maps[x]
          BY <1>3, <3>1 DEF Dropped, Stocked
        <4> QED
          BY ONLY <4>1, s \in Sides
      <3>2. CASE r.doc # "map"
        BY <1>3, <3>2 DEF Dropped
      <3> QED
        BY <3>1, <3>2
    <2> QED
      BY <1>1, <2>1, <2>2, <2>3 DEF Blotted
  <1>4. CASE r.step = "put" /\ Writes(r) /\ Put(r)
    <2>1. r.doc = "tag" => r.tag # t
      BY <1>1, <1>4 DEF Phase, Writes, Harmless, TagOps
    <2>2. r.doc = "count" /\ r.side = s => r.tag # t
      BY <1>1, <1>4 DEF Phase, Writes, Harmless, TagOps
    <2>3. r.side = s => t \notin r.ids
      BY DEF Harmless
    <2>4. t \notin tags'
      BY <1>1, <1>4, <2>1 DEF Put
    <2>5. counts'[s][t] = Missing
      <3>1. counts' = counts \/ (r.doc = "count" /\ counts' = [counts EXCEPT ![r.side][r.tag] = r.n])
        BY <1>4 DEF Put
      <3> QED
        BY ONLY <1>1, <2>2, <3>1, s \in Sides
    <2>6. \A d \in Range(maps'[s]) : t \notin d.ids
      <3>1. CASE r.doc = "map"
        <4> DEFINE new == [item |-> r.item, ids |-> r.ids]
        <4>1. /\ Range(maps'[r.side]) = Range(maps[r.side]) \cup {new}
              /\ \A x \in Sides \ {r.side} : maps'[x] = maps[x]
          BY <1>4, <3>1 DEF Put, Stocked
        <4>2. new.ids = r.ids
          OBVIOUS
        <4> HIDE DEF new
        <4> QED
          BY ONLY <1>1, <2>3, <4>1, <4>2, s \in Sides
      <3>2. CASE r.doc # "map"
        BY <1>1, <1>4, <3>2 DEF Put
      <3> QED
        BY <3>1, <3>2
    <2> QED
      BY <2>4, <2>5, <2>6 DEF Blotted
  <1> QED
    BY <1>2, <1>3, <1>4

\* What an undisturbed deletion has left stays so, whoever steps.
LEMMA StayingStep ==
  ASSUME TagTyped, Pairs, Gap, Sweeping, Staying,
         NEW c \in TagClients, NEW r \in TagRecord, requests[c] = r, TagSteps(c)
  PROVE  Staying'
  <1>1. Phase(r) /\ made' = made /\ \A d \in TagClients \ {c} : requests'[d] = requests[d]
    BY StepWho DEF TagTyped
  <1>2. ASSUME NEW g \in gone
        PROVE  /\ g \in Sides \X made' /\ Blotted(g[1], g[2])'
               /\ \A d \in TagClients, x \in TagRecord : requests'[d] = x => Harmless(x, g[1], g[2])
    <2>1. PICK s \in Sides, t \in made : g = <<s, t>>
      BY <1>2 DEF Staying
    <2>2. g[1] = s /\ g[2] = t
      BY <2>1
    <2>3. Blotted(s, t) /\ \A d \in TagClients, x \in TagRecord : requests[d] = x => Harmless(x, s, t)
      BY <1>2, <2>2 DEF Staying
    <2>4. Blotted(s, t)'
      BY <1>1, <2>3, StepStore, BlottedStep
    <2>5. \A x \in TagRecord : requests'[c] = x => Harmless(x, s, t)
      BY <2>3, HarmlessStep
    <2>6. \A d \in TagClients, x \in TagRecord : requests'[d] = x => Harmless(x, s, t)
      BY <1>1, <2>3, <2>5
    <2>7. g \in Sides \X made'
      BY <1>1, <2>1
    <2> QED
      BY ONLY <2>2, <2>4, <2>6, <2>7
  <1>3. ASSUME NEW g \in gone', g \notin gone
        PROVE  /\ g \in Sides \X made' /\ Blotted(g[1], g[2])'
               /\ \A d \in TagClients, x \in TagRecord : requests'[d] = x => Harmless(x, g[1], g[2])
    <2>1. Ends(c, TRUE) \/ Ends(c, FALSE)
      <3>1. (\E q : Turns(c, q)) => gone' = gone
        BY DEF Turns, Goes
      <3> QED
        BY <1>3, <3>1, StepProceeds DEF Proceeds
    <2>2. /\ g = <<r.side, r.tag>> /\ Ends(c, TRUE) /\ r.op = "delete" /\ ~Clashes(r) /\ ~HasMoved(r)
      BY <1>3, <2>1, Ended DEF Clashes, HasMoved
    <2>3. requests'[c] = NoRequest
      BY <2>1, Ended DEF TagTyped
    <2>4. Swept(c, r)
      BY <2>2, SweptStep DEF Sweeping
    <2>5. ~\E q : Turns(c, q)
      BY <2>3, NoRequestIsNone DEF Turns, Goes, TagTyped
    <2>6. Clear(r)'
      BY <2>2, <2>4, <2>5 DEF Swept
    <2>7. r.side \in Sides /\ r.tag \in made /\ g[1] = r.side /\ g[2] = r.tag
      BY <1>1, <2>2 DEF Phase, TagRecord
    <2>8. Blotted(r.side, r.tag)'
      BY <2>6 DEF Clear, Blotted
    <2>9. ASSUME NEW d \in TagClients, NEW x \in TagRecord, requests'[d] = x
          PROVE  Harmless(x, r.side, r.tag)
      <3>1. d # c /\ requests[d] = x
        BY <1>1, <2>3, <2>9, NoRequestIsNone
      <3>2. ~Bound(r, x)
        BY <2>2, <3>1 DEF Pairs
      <3>3. x.side # r.side /\ (x.tag = r.tag => x.op = "drop class")
        BY <2>2, <3>2 DEF Bound, Sweeps
      <3> QED
        BY <3>3 DEF Harmless
    <2> QED
      BY <1>1, <2>2, <2>7, <2>8, <2>9
  <1> QED
    BY <1>2, <1>3 DEF Staying

\* No request that begins is given a deleted tag to bring back.
LEMMA StayingAsk ==
  ASSUME TagTyped, Staying, NEW c \in TagClients, NEW r \in TagRecord, Ask(c, r), Starts(r)
  PROVE  Staying'
  <1>1. /\ tags' = tags /\ counts' = counts /\ maps' = maps /\ gone' = gone
        /\ made \subseteq made' /\ made \subseteq TagIds
    BY AskedHow, AskTyped DEF Reads, TagTyped
  <1>2. \A s, t : Blotted(s, t)' <=> Blotted(s, t)
    BY <1>1 DEF Blotted
  <1>3. ASSUME NEW s \in Sides, NEW t \in made
        PROVE  Harmless(r, s, t)
    <2>1. r.ids = {} /\ Range(r.todo) = {}
      <3>1. r.ids = {} /\ r.todo = <<>>
        BY DEF Starts, Blank
      <3> QED
        BY ONLY <3>1 DEF Range
    <2>2. t # Missing
      BY <1>1, TagsAssumption
    <2>3. /\ r.op = "create" => r.tag \notin made
          /\ r.op \in {"add", "update"} /\ r.tag = t => r.step = "tag"
          /\ r.op = "remove" => r.step = "ids"
          /\ r.op = "drop class" => r.tag = Missing
      <3>1. r.op = "add" => r.step = "tag"
        BY DEF Starts
      <3>2. r.op = "update" => r.step = "tag"
        BY DEF Starts
      <3>3. r.op = "create" => r.tag \notin made
        BY DEF Starts
      <3>4. r.op = "remove" => r.step = "ids"
        BY DEF Starts
      <3>5. r.op = "drop class" => r.tag = Missing
        BY DEF Starts
      <3> QED
        BY ONLY <3>1, <3>2, <3>3, <3>4, <3>5
    <2> QED
      BY ONLY <2>1, <2>2, <2>3, t \in made DEF Harmless
  <1>4. \A x, y, s, t : Akin(x, y) /\ Harmless(x, s, t) => Harmless(y, s, t)
    <2> SUFFICES ASSUME NEW x, NEW y, NEW s, NEW t, Akin(x, y), Harmless(x, s, t)
                 PROVE  Harmless(y, s, t)
      OBVIOUS
    <2>1. /\ y.side = x.side /\ y.op = x.op /\ y.tag = x.tag /\ y.step = x.step /\ y.ids = x.ids
          /\ y.todo = x.todo
      BY DEF Akin, Steady4
    <2> QED
      BY ONLY <2>1, Harmless(x, s, t) DEF Harmless
  <1>5. ASSUME NEW d \in TagClients, NEW y \in TagRecord, requests'[d] = y
        PROVE  \E x \in TagRecord : Akin(x, y) /\ (x = r \/ requests[d] = x)
    <2>1. CASE d = c
      BY <1>5, <2>1, AskedHow
    <2>2. CASE d # c
      <3>1. requests[d] \in TagRecord
        <4>1. requests[d] = NoRequest => requests'[d] = NoRequest
          BY <2>2, AskedHow
        <4> QED
          BY <1>5, <4>1, NoRequestIsNone DEF TagTyped
      <3>2. PICK x \in TagRecord : requests[d] = x
        BY <3>1
      <3> QED
        BY <1>5, <2>2, <3>2, AskedHow
    <2> QED
      BY <2>1, <2>2
  <1>6. ASSUME NEW g \in gone, NEW d \in TagClients, NEW y \in TagRecord, requests'[d] = y
        PROVE  Harmless(y, g[1], g[2])
    <2>1. g[1] \in Sides /\ g[2] \in made /\ \A x \in TagRecord : requests[d] = x => Harmless(x, g[1], g[2])
      BY DEF Staying
    <2>2. PICK x \in TagRecord : Akin(x, y) /\ (x = r \/ requests[d] = x)
      BY <1>5, <1>6
    <2>3. Harmless(x, g[1], g[2])
      BY <1>3, <2>1, <2>2
    <2> QED
      BY ONLY <1>4, <2>2, <2>3
  <1>7. \A g \in gone : g \in Sides \X made' /\ Blotted(g[1], g[2])
    BY <1>1 DEF Staying
  <1> QED
    BY <1>1, <1>2, <1>6, <1>7 DEF Staying

\* A dropped request brings nothing back.
LEMMA StayingAbandon ==
  ASSUME TagTyped, Staying, NEW c \in TagClients, Abandon(c)
  PROVE  Staying'
  <1>1. \A d \in TagClients, q \in TagRecord : requests'[d] = q => requests[d] = q
    BY AbandonedHow, NoRequestIsNone
  <1>2. tags' = tags /\ counts' = counts /\ maps' = maps /\ gone' = gone /\ made' = made
    BY AbandonedHow DEF Reads
  <1>3. \A s, t : Blotted(s, t)' <=> Blotted(s, t)
    BY <1>2 DEF Blotted
  <1> QED
    BY <1>1, <1>2, <1>3 DEF Staying

--------------------------------------------------------------------------------
(* Tags: the theorem.                                                       *)

\* The inductive invariant.
TagsInv == Accounted /\ Sweeping /\ Staying

\* The inductive invariant holds at the beginning.
LEMMA TagsInvInit ==
  ASSUME TagInit
  PROVE  TagsInv
  <1>1. Accounted /\ Begun0
    BY InitTyped, AccountedInit
  <1>2. Sweeping /\ Staying
    BY <1>1, NoRequestIsNone DEF Begun0, Sweeping, Staying
  <1> QED
    BY <1>1, <1>2 DEF TagsInv

\* The inductive invariant is kept by every step.
LEMMA TagsInvNext ==
  ASSUME TagsInv, TagNext \/ UNCHANGED tagVars
  PROVE  TagsInv'
  <1>0. TagTyped /\ Pairs /\ Gap /\ Sweeping /\ Staying /\ Accounted
    BY DEF TagsInv, Accounted
  <1>1. Accounted'
    BY <1>0, AccountedNext
  <1>2. ASSUME NEW c \in TagClients, TagRequests(c)
        PROVE  Sweeping' /\ Staying'
    <2>1. PICK r \in TagRecord : Ask(c, r) /\ Starts(r)
      BY <1>0, <1>2, BegunHow
    <2> QED
      BY <1>0, <2>1, SweepingAsk, StayingAsk
  <1>3. ASSUME NEW c \in TagClients, TagSteps(c)
        PROVE  Sweeping' /\ Staying'
    <2>1. Running(c)
      BY <1>3 DEF TagSteps, ReadTagDocument, ReadImageTagIds, LookForDocument, DeleteDocument, AddDocument,
                  CheckTag, ReadTagCount, ScanPage, At
    <2>2. PICK r \in TagRecord : requests[c] = r
      BY <1>0, <2>1, NotRunning
    <2> QED
      BY <1>0, <1>3, <2>2, SweepingStep, StayingStep
  <1>4. ASSUME NEW c \in TagClients, Abandon(c)
        PROVE  Sweeping' /\ Staying'
    BY <1>0, <1>4, SweepingAbandon, StayingAbandon
  <1>5. CASE UNCHANGED tagVars
    <2>1. Sweeping'
      BY <1>0, <1>5 DEF tagVars, Sweeping, Sweep
    <2>2. Staying'
      BY <1>0, <1>5 DEF tagVars, Staying, Blotted
    <2> QED
      BY <1>1, <2>1, <2>2 DEF TagsInv
  <1> QED
    BY <1>1, <1>2, <1>3, <1>4, <1>5 DEF TagNext, TagsInv

\* A tag at rest is there, and counted.
LEMMA Rested ==
  ASSUME Accounted, NEW u \in TagIds, AtRest(u)
  PROVE  /\ u \in tags
         /\ Count("image", u) = Cardinality(SearchImagesByTag(u))
         /\ Count("class", u) = Cardinality(ClassesWithTag(u))
  <1>1. TagTyped
    BY DEF Accounted
  <1>2. \A c \in TagClients, r \in TagRecord : requests[c] = r => u \notin Touched(r)
    BY <1>1, NotRunning DEF AtRest
  <1>3. Calm(u) /\ u \in made
    BY <1>2 DEF Calm, AtRest
  <1>4. FineAll(u)
    BY <1>3 DEF Accounted
  <1>5. \A c \in TagClients, r \in TagRecord : requests[c] = r => ~Creates(r, u) /\ \A s \in Sides : ~Owes(r, s, u)
    <2> SUFFICES ASSUME NEW c \in TagClients, NEW r \in TagRecord, requests[c] = r
                 PROVE  ~Creates(r, u) /\ \A s \in Sides : ~Owes(r, s, u)
      OBVIOUS
    <2>1. u # r.tag /\ u \notin r.ids
      BY <1>1, <1>2 DEF TagTyped, Phase, Touched
    <2> QED
      BY <2>1 DEF Creates, Owes
  <1>6. u \in tags
    BY <1>3, <1>4, <1>5 DEF FineAll
  <1>7. ASSUME NEW s \in Sides
        PROVE  Count(s, u) = Cardinality({i \in Items(s) : Holds(s, i, u)})
    <2>1. CountIn(Column(u), s) = DueOf(Have(u), s)
      BY <1>4, <1>5 DEF FineAll
    <2>2. CountIn(Column(u), s) = Count(s, u)
      BY ColumnOf DEF CountIn, Count
    <2>3. DueOf(Have(u), s) = Cardinality({i \in Items(s) : Holds(s, i, u)})
      BY <1>1, <1>2, DueAtRest
    <2> QED
      BY ONLY <2>1, <2>2, <2>3, Zenon
  <1>8. "image" \in Sides /\ "class" \in Sides /\ Items("image") = Images /\ Items("class") = Classes
    BY DEF Sides, Items
  <1>9. {i \in Images : Holds("image", i, u)} = SearchImagesByTag(u)
    BY <1>1, <1>8, ReadsOf DEF SearchImagesByTag
  <1>10. {i \in Classes : Holds("class", i, u)} = ClassesWithTag(u)
    BY <1>1, <1>8, ReadsOf DEF ClassesWithTag
  <1>11. Count("image", u) = Cardinality({i \in Images : Holds("image", i, u)})
    BY <1>7, <1>8
  <1>12. Count("class", u) = Cardinality({i \in Classes : Holds("class", i, u)})
    BY <1>7, <1>8
  <1> QED
    BY ONLY <1>6, <1>9, <1>10, <1>11, <1>12, Zenon

\* The inductive invariant tells what the reads show.
LEMMA InvTagsWhole ==
  ASSUME TagsInv
  PROVE  TagsWhole
  <1>1. TagTyped /\ Accounted /\ Staying
    BY DEF TagsInv, Accounted
  <1>2. ASSUME NEW t \in TagIds, AtRest(t)
        PROVE  /\ t \in tags
               /\ ListImageTags[t] = Cardinality(SearchImagesByTag(t))
               /\ ListFaceClassTags[t] = Cardinality(ClassesWithTag(t))
               /\ \A i \in SearchImagesByTag(t) : GetImageTags(i)[t] = Cardinality(SearchImagesByTag(t))
               /\ \A i \in ClassesWithTag(t) : GetFaceClassTags(i)[t] = Cardinality(ClassesWithTag(t))
    <2>1. /\ t \in tags
          /\ Count("image", t) = Cardinality(SearchImagesByTag(t))
          /\ Count("class", t) = Cardinality(ClassesWithTag(t))
      BY <1>1, <1>2, Rested
    <2>2. ListImageTags[t] = Count("image", t) /\ ListFaceClassTags[t] = Count("class", t)
      BY <2>1 DEF ListImageTags, ListFaceClassTags
    <2>3. \A i \in SearchImagesByTag(t) : GetImageTags(i)[t] = Count("image", t)
      BY <2>1 DEF SearchImagesByTag, GetImageTags
    <2>4. \A i \in ClassesWithTag(t) : GetFaceClassTags(i)[t] = Count("class", t)
      BY <2>1 DEF ClassesWithTag, GetFaceClassTags
    <2> QED
      BY ONLY <2>1, <2>2, <2>3, <2>4, Zenon
  <1>3. ASSUME NEW p \in gone
        PROVE  p[2] \notin tags /\ counts[p[1]][p[2]] = Missing /\ Tagged(p[1], p[2]) = {}
    <2>1. p[1] \in Sides /\ Blotted(p[1], p[2])
      BY <1>1 DEF Staying
    <2>2. \A i : p[2] \notin IdsOf(p[1], i)
      BY <1>1, <2>1, ReadsOf DEF Blotted, Holds
    <2>3. Tagged(p[1], p[2]) = {}
      <3>1. CASE p[1] = "image"
        BY <2>2, <3>1 DEF Tagged, SearchImagesByTag
      <3>2. CASE p[1] = "class"
        BY <2>2, <3>2 DEF Tagged, ClassesWithTag
      <3> QED
        BY <2>1, <3>1, <3>2 DEF Sides
    <2> QED
      BY <2>1, <2>3 DEF Blotted
  <1> QED
    BY <1>2, <1>3 DEF TagsWhole

(* TagsWhole holds for any sets of callers, tags, images and classes, any   *)
(* page size and any number of requests.                                    *)
THEOREM TagsAreWhole == TagSpec => []TagsWhole
  <1>1. TagInit => TagsInv
    BY TagsInvInit
  <1>2. TagsInv /\ [TagNext]_tagVars => TagsInv'
    BY TagsInvNext
  <1>3. TagsInv => TagsWhole
    BY InvTagsWhole
  <1> QED
    BY <1>1, <1>2, <1>3, PTL DEF TagSpec
================================================================================
