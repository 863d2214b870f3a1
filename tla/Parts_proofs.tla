----------------------------- MODULE Parts_proofs -----------------------------
(***************************************************************************)
(* Proofs about the graph service: for any graph, any callers and any       *)
(* number of crashes and failing calls the keys of an edge nothing has      *)
(* disturbed go together, and then the queries tell one graph.              *)
(*                                                                         *)
(* Proofs about the terminal client, which shares nothing with it: whatever *)
(* keys are pressed and requests fail, a delete popup deletes what it shows,*)
(* and a face no failed request has met keeps its picture and vector.       *)
(***************************************************************************)
EXTENDS GraphStore, Tool, FiniteSetTheorems, WellFoundedInduction, TLAPS

--------------------------------------------------------------------------------
(* Walks.                                                                   *)

\* A set of numbers that is not empty has a least one.
LEMMA Least ==
  ASSUME NEW S \in SUBSET Nat, S # {}
  PROVE  \E m \in S : \A k \in S : m <= k
  <1> PICK top \in S : TRUE
    OBVIOUS
  <1> DEFINE Upto(m) == {k \in 0..top : k <= m}
             R == StrictSubsetOrdering(0..top)
             T == {u \in SUBSET (0..top) : \E m \in S : m <= top /\ u = Upto(m)}
  <1>1. IsWellFoundedOn(R, SUBSET (0..top))
    <2>1. IsFiniteSet(0..top)
      BY FS_Interval, 0 \in Int, top \in Int
    <2>2. FiniteSubsetsOf(0..top) = SUBSET (0..top)
      BY <2>1, FS_FiniteSubsetsOfFinite
    <2> QED
      BY <2>2, FS_StrictSubsetOrderingWellFounded
  <1>2. Upto(top) \in T
    OBVIOUS
  <1>3. \E u \in T : \A v \in T : ~(<<v, u>> \in R)
    <2> HIDE DEF R, T
    <2>1. T \subseteq SUBSET (0..top) /\ T # {}
      BY <1>2 DEF T
    <2> QED
      BY <1>1, <2>1, WFMin
  <1>4. PICK m \in S : m <= top /\ Upto(m) \in T /\ \A v \in T : ~(<<v, Upto(m)>> \in R)
    BY <1>3
  <1>5. ASSUME NEW k \in S, k < m
        PROVE  FALSE
    <2>1. Upto(k) \in T
      BY <1>4, <1>5
    <2>2. Upto(k) \subseteq Upto(m) /\ m \in Upto(m) /\ m \notin Upto(k)
      BY <1>4, <1>5
    <2>3. <<Upto(k), Upto(m)>> \in R
      BY <2>2 DEF StrictSubsetOrdering
    <2> QED
      BY <1>4, <2>1, <2>3
  <1> QED
    BY <1>5

LEMMA MinLeast ==
  ASSUME NEW S \in SUBSET Nat, S # {}
  PROVE  Min(S) \in S /\ \A k \in S : Min(S) <= k
  BY Least DEF Min


\* What holds of the keys when no request is under way and nothing is mixed.
Whole(e) ==
  /\ (e \in Stored <=> e \in outs) /\ (e \in Stored <=> e \in ins)
  /\ e \in Stored => nodes[From(e)] # Absent /\ nodes[To(e)] # Absent

KeyTypes ==
  /\ nodes \in [Nodes -> (SUBSET Fields) \cup {Absent}]
  /\ edges \in [Edges -> (SUBSET Fields) \cup {Absent}]
  /\ outs \subseteq Edges
  /\ ins \subseteq Edges

AllWhole == KeyTypes /\ \A e \in Edges : Whole(e)

LEMMA EndsAreNodes ==
  \A e \in Edges : From(e) \in Nodes /\ To(e) \in Nodes /\ e = <<From(e), To(e)>>
  BY EdgesAssumption DEF From, To

LEMMA WalkStops ==
  ASSUME KeyTypes, NEW from \in Nodes, NEW to, NEW d \in Nat, NEW w \in Walks(from, to, d)
  PROVE  /\ w \in [1..d -> outs]
         /\ \A k \in 1..d : w[k] \in Edges /\ From(w[k]) = Stop(from, w, k - 1)
                            /\ To(w[k]) = Stop(from, w, k)
         /\ \A k \in 0..d : Stop(from, w, k) \in Nodes
         /\ Stop(from, w, d) = to /\ Stop(from, w, 0) = from
  BY EndsAreNodes DEF Walks, Stop, KeyTypes

\* A walk may go on along an adjacency key.
LEMMA WalkOn ==
  ASSUME KeyTypes, NEW from \in Nodes, NEW d \in Nat, NEW e \in outs,
         Walks(from, From(e), d) # {}
  PROVE  Walks(from, To(e), d + 1) # {}
  <1> PICK w \in Walks(from, From(e), d) : TRUE
    OBVIOUS
  <1> DEFINE v == [k \in 1..(d + 1) |-> IF k = d + 1 THEN e ELSE w[k]]
  <1>1. v \in [1..(d + 1) -> outs] /\ v[d + 1] = e /\ \A k \in 1..d : v[k] = w[k]
    BY WalkStops
  <1> HIDE DEF v
  <1>2. \A k \in 0..d : Stop(from, v, k) = Stop(from, w, k)
    BY <1>1 DEF Stop
  <1>3. Stop(from, v, d + 1) = To(e)
    BY <1>1 DEF Stop
  <1>4. ASSUME NEW k \in 1..(d + 1)
        PROVE  From(v[k]) = Stop(from, v, k - 1)
    <2>1. CASE k = d + 1
      BY <1>1, <1>2, <2>1, WalkStops
    <2>2. CASE k \in 1..d
      <3>1. k - 1 \in 0..d
        BY <2>2
      <3> QED
        BY <1>1, <1>2, <2>2, <3>1, WalkStops
    <2> QED
      BY <2>1, <2>2
  <1> QED
    BY <1>1, <1>3, <1>4 DEF Walks

\* A walk that comes back to a node can be shortened by what lies between.
LEMMA WalkCut ==
  ASSUME KeyTypes, NEW from \in Nodes, NEW to, NEW d \in Nat, NEW w \in Walks(from, to, d),
         NEW i \in 0..d, NEW j \in 0..d, i < j, Stop(from, w, i) = Stop(from, w, j)
  PROVE  Walks(from, to, d - (j - i)) # {}
  <1> DEFINE n == d - (j - i)
             v == [k \in 1..n |-> IF k <= i THEN w[k] ELSE w[k + (j - i)]]
  <1>1. n \in Nat /\ n >= i
    OBVIOUS
  <1>0. /\ w \in [1..d -> outs]
        /\ \A k \in 1..d : From(w[k]) = Stop(from, w, k - 1)
        /\ Stop(from, w, d) = to
    BY WalkStops
  <1>2. /\ v \in [1..n -> outs]
        /\ \A k \in 1..n : v[k] = IF k <= i THEN w[k] ELSE w[k + (j - i)]
    <2>1. \A k \in 1..n : (k <= i => k \in 1..d) /\ (k > i => k + (j - i) \in 1..d)
      OBVIOUS
    <2> QED
      BY <1>0, <2>1
  <1> HIDE DEF v
  <1>3. \A k \in 0..i : Stop(from, v, k) = Stop(from, w, k)
    BY <1>1, <1>2 DEF Stop
  <1>4. \A k \in i..n : Stop(from, v, k) = Stop(from, w, k + (j - i))
    <2> SUFFICES ASSUME NEW k \in i..n
                 PROVE  Stop(from, v, k) = Stop(from, w, k + (j - i))
      OBVIOUS
    <2>1. CASE k = i
      BY <1>3, <2>1
    <2>2. CASE k > i
      BY <1>1, <1>2, <2>2 DEF Stop
    <2> QED
      BY <2>1, <2>2
  <1>5. ASSUME NEW k \in 1..n
        PROVE  From(v[k]) = Stop(from, v, k - 1)
    <2>1. CASE k <= i
      <3>1. k \in 1..d /\ k - 1 \in 0..i
        BY <2>1, <1>1
      <3> QED
        BY <1>0, <1>2, <1>3, <2>1, <3>1
    <2>2. CASE k > i
      <3>1. k + (j - i) \in 1..d /\ k - 1 \in i..n /\ (k + (j - i)) - 1 = (k - 1) + (j - i)
        BY <2>2, <1>1
      <3>2. v[k] = w[k + (j - i)]
        BY <1>2, <2>2
      <3>3. From(v[k]) = Stop(from, w, (k + (j - i)) - 1)
        BY <1>0, <3>1, <3>2
      <3> QED
        BY <1>4, <3>1, <3>3
    <2> QED
      BY <2>1, <2>2
  <1>6. Stop(from, v, n) = to
    <2>1. n \in i..n /\ n + (j - i) = d
      BY <1>1
    <2> QED
      BY <1>0, <1>4, <2>1
  <1> QED
    BY <1>2, <1>5, <1>6 DEF Walks

\* All nodes of a walk along whole edges are there if the first one is.
LEMMA StopsPresent ==
  ASSUME AllWhole, NEW from \in Present, NEW to, NEW d \in Nat, NEW w \in Walks(from, to, d)
  PROVE  /\ \A k \in 1..d : w[k] \in Stored
         /\ \A k \in 0..d : Stop(from, w, k) \in Present
  <1>1. from \in Nodes
    BY DEF Present
  <1>2. \A k \in 1..d : w[k] \in Edges /\ w[k] \in outs /\ To(w[k]) = Stop(from, w, k)
    BY <1>1, WalkStops DEF AllWhole
  <1>3. \A k \in 1..d : w[k] \in Stored /\ To(w[k]) \in Present
    BY <1>2, EndsAreNodes DEF AllWhole, Whole, Present
  <1> QED
    BY <1>2, <1>3 DEF Stop

LEMMA WalkJoins ==
  ASSUME AllWhole, NEW a \in Present, NEW b \in Nodes, NEW d \in Nat, NEW w \in Walks(a, b, d)
  PROVE  Joined(a, b)
  <1> SUFFICES ASSUME NEW reach \in SUBSET Nodes, a \in reach, b \notin reach,
                      \A e \in Stored : From(e) \in reach => To(e) \in reach
               PROVE  FALSE
    BY DEF Joined
  <1> DEFINE Out == {k \in 0..d : Stop(a, w, k) \notin reach}
  <1>1. a \in Nodes /\ KeyTypes
    BY DEF Present, AllWhole
  <1>2. /\ Stop(a, w, d) = b /\ Stop(a, w, 0) = a
        /\ \A k \in 1..d : From(w[k]) = Stop(a, w, k - 1) /\ To(w[k]) = Stop(a, w, k)
    BY <1>1, WalkStops
  <1>3. d \in Out /\ Out \subseteq Nat
    BY <1>2
  <1>4. PICK k \in Out : \A l \in Out : k <= l
    <2> HIDE DEF Out
    <2> QED
      BY <1>3, Least
  <1>5. k \in 1..d /\ k - 1 \in 0..d /\ k - 1 \notin Out
    BY <1>2, <1>4
  <1>6. From(w[k]) \in reach
    BY <1>2, <1>5
  <1>7. w[k] \in Stored
    BY <1>5, StopsPresent
  <1> QED
    BY <1>2, <1>4, <1>5, <1>6, <1>7

\* The shortest walk visits no node twice, so it is no longer than the nodes
\* there are allow.
LEMMA JoinedWalk ==
  ASSUME AllWhole, IsFiniteSet(Present), NEW a \in Nodes, NEW b \in Nodes, Joined(a, b)
  PROVE  \E d \in Nat : Walks(a, b, d) # {} /\ d + 1 <= Cardinality(Present)
  <1> DEFINE Reach == {x \in Nodes : \E d \in Nat : Walks(a, x, d) # {}}
             Depths == {d \in Nat : Walks(a, b, d) # {}}
  <1>1. KeyTypes /\ a \in Present
    BY DEF AllWhole, Joined
  <1>2. a \in Reach
    <2>1. [k \in 1..0 |-> k] \in Walks(a, a, 0)
      BY DEF Walks, Stop
    <2> QED
      BY <2>1
  <1>3. \A e \in Stored : From(e) \in Reach => To(e) \in Reach
    <2> SUFFICES ASSUME NEW e \in Stored, From(e) \in Reach
                 PROVE  To(e) \in Reach
      OBVIOUS
    <2>1. e \in Edges /\ e \in outs /\ To(e) \in Nodes
      BY EndsAreNodes DEF AllWhole, Whole, Stored
    <2>2. PICK d \in Nat : Walks(a, From(e), d) # {}
      OBVIOUS
    <2>3. Walks(a, To(e), d + 1) # {}
      BY <1>1, <2>1, <2>2, WalkOn
    <2> QED
      BY <2>1, <2>3
  <1>4. b \in Reach
    <2> HIDE DEF Reach
    <2>1. Reach \in SUBSET Nodes
      BY DEF Reach
    <2> QED
      BY <1>2, <1>3, <2>1 DEF Joined
  <1>5. PICK d \in Depths : \A e \in Depths : d <= e
    <2>1. Depths \in SUBSET Nat /\ Depths # {}
      BY <1>4
    <2> HIDE DEF Depths
    <2> QED
      BY <2>1, Least
  <1>6. PICK w \in Walks(a, b, d) : TRUE
    BY <1>5
  <1> DEFINE s == [k \in 0..d |-> Stop(a, w, k)]
  <1>7. s \in Injection(0..d, Present)
    <2>1. \A k \in 0..d : Stop(a, w, k) \in Present
      BY <1>1, <1>5, <1>6, StopsPresent
    <2>2. ASSUME NEW i \in 0..d, NEW j \in 0..d, i < j, Stop(a, w, i) = Stop(a, w, j)
          PROVE  FALSE
      <3>1. d - (j - i) \in Depths
        BY <1>1, <1>5, <1>6, <2>2, WalkCut
      <3> QED
        BY <1>5, <2>2, <3>1
    <2>3. \A i, j \in 0..d : Stop(a, w, i) = Stop(a, w, j) => i = j
      BY <2>2, <1>5
    <2> QED
      BY <2>1, <2>3 DEF Injection, IsInjective
  <1>8. Cardinality(0..d) = d + 1
    BY <1>5, FS_Interval, 0 \in Int, d \in Int
  <1>9. Cardinality(0..d) <= Cardinality(Present)
    <2> HIDE DEF s
    <2> QED
      BY <1>7, FS_Injection
  <1> QED
    BY <1>5, <1>8, <1>9

\* What the queries answer when every edge is whole.
LEMMA PathsTold ==
  ASSUME AllWhole, IsFiniteSet(Present), NEW a \in Nodes, NEW b \in Nodes,
         NEW answer \in ShortestPath(a, b)
  PROVE  /\ answer.found => Joined(a, b)
         /\ Joined(a, b) /\ Cardinality(Present) <= MaxDepth + 1 => answer.found
         /\ \A k \in DOMAIN answer.path : answer.path[k] \in Stored
  <1> DEFINE depths == {d \in 0..MaxDepth : Walks(a, b, d) # {}}
             n == Min(depths)
  <1>1. /\ ~NoPath.found
        /\ \A k \in DOMAIN NoPath.path : NoPath.path[k] \in Stored
    BY DEF NoPath
  <1>2. CASE depths = {}
    <2>1. answer = NoPath
      BY <1>2 DEF ShortestPath
    <2>2. Joined(a, b) => ~(Cardinality(Present) <= MaxDepth + 1)
      <3> SUFFICES ASSUME Joined(a, b), Cardinality(Present) <= MaxDepth + 1
                   PROVE  FALSE
        OBVIOUS
      <3>1. PICK d \in Nat : Walks(a, b, d) # {} /\ d + 1 <= Cardinality(Present)
        BY JoinedWalk
      <3>2. Cardinality(Present) \in Nat
        BY FS_CardinalityType
      <3>3. d \in depths
        BY <3>1, <3>2, BoundAssumption
      <3> QED
        BY <3>3, <1>2
    <2> QED
      BY <1>1, <2>1, <2>2
  <1>3. CASE depths # {}
    <2>1. n \in depths
      <3>1. depths \in SUBSET Nat
        OBVIOUS
      <3> HIDE DEF depths
      <3> QED
        BY <1>3, <3>1, MinLeast
    <2>2. PICK w \in Walks(a, b, n) :
             answer = IF \A k \in 0..n : Stop(a, w, k) \in Present
                      THEN [found |-> TRUE, path |-> w]
                      ELSE NoPath
      BY <1>3, Zenon DEF ShortestPath
    <2>3. n \in Nat
      BY <2>1
    <2> HIDE DEF n
    <2>4. CASE a \in Present
      <3>1. Joined(a, b)
        BY <2>2, <2>3, <2>4, WalkJoins
      <3>2. /\ \A k \in 1..n : w[k] \in Stored
            /\ \A k \in 0..n : Stop(a, w, k) \in Present
        BY <2>2, <2>3, <2>4, StopsPresent
      <3>3. DOMAIN w = 1..n
        BY DEF Walks
      <3> QED
        BY <2>2, <3>1, <3>2, <3>3
    <2>5. CASE a \notin Present
      <3>1. ~Joined(a, b)
        BY <2>5 DEF Joined
      <3>2. Stop(a, w, 0) \notin Present /\ 0 \in 0..n
        BY <2>3, <2>5 DEF Stop
      <3> QED
        BY <1>1, <2>2, <3>1, <3>2
    <2> QED
      BY <2>4, <2>5
  <1> QED
    BY <1>2, <1>3

LEMMA NeighborsTold ==
  ASSUME AllWhole, NEW n \in Nodes
  PROVE  {r.edge : r \in Neighbors(n, "both")} = EdgesAt(n) \cap Stored
  <1> DEFINE leaving == {e \in outs : From(e) = n}
             reaching == {e \in ins : To(e) = n}
             Answer(e, m) == [node |-> m, edge |-> e,
                              properties |-> IF e \in Stored THEN edges[e] ELSE {}]
  <1>1. /\ outs = Stored /\ ins = Stored /\ Stored \subseteq Edges
        /\ \A e \in Stored : From(e) \in Present /\ To(e) \in Present
    BY EndsAreNodes DEF AllWhole, KeyTypes, Whole, Stored, Present
  <1>2. Neighbors(n, "both") = {Answer(e, To(e)) : e \in {e \in leaving : To(e) \in Present}}
            \union {Answer(e, From(e)) : e \in {e \in reaching \ leaving : From(e) \in Present}}
    BY DEF Neighbors
  <1>3. \A e, m : Answer(e, m).edge = e
    OBVIOUS
  <1> HIDE DEF Answer
  <1>4. {r.edge : r \in Neighbors(n, "both")} = leaving \cup reaching
    BY <1>1, <1>2, <1>3
  <1> QED
    BY <1>1, <1>4 DEF EdgesAt

--------------------------------------------------------------------------------
(* What a request may rely on.                                              *)

OpNames == {"none", "insert_node", "update_node", "delete_node",
            "insert_edge", "update_edge", "delete_edge"}
StageNames == {"idle", "free", "from", "to", "exists", "read", "merge", "put", "put_out", "put_in",
               "outs", "ins", "cut", "cut_out", "cut_in"}

Task == [op : OpNames, at : StageNames, node : Nodes \cup {Absent}, edge : Edges \cup {Absent},
         field : SUBSET Fields, read : (SUBSET Fields) \cup {Absent}, refs : SUBSET Edges,
         met : BOOLEAN]

\* The stages of a request, and what it has found out at each.
Shape(t) ==
  \/ t.op = "none" /\ t.at = "idle"
  \/ t.op = "insert_node" /\ t.at \in {"free", "put"} /\ t.node \in Nodes
  \/ /\ t.op = "update_node" /\ t.at \in {"read", "merge"} /\ t.node \in Nodes
     /\ t.at = "merge" => t.read # Absent
  \/ /\ t.op = "delete_node" /\ t.at \in {"outs", "ins", "cut", "cut_out", "cut_in"}
     /\ t.node \in Nodes /\ t.refs \subseteq EdgesAt(t.node)
     /\ t.at \in {"cut_out", "cut_in"} => t.edge \in t.refs
  \/ /\ t.op = "insert_edge" /\ t.edge \in Edges
     /\ t.at \in {"from", "to", "exists", "put", "put_out", "put_in"}
  \/ /\ t.op = "update_edge" /\ t.at \in {"read", "merge"} /\ t.edge \in Edges
     /\ t.at = "merge" => t.read # Absent
  \/ /\ t.op = "delete_edge" /\ t.at \in {"cut", "cut_out", "cut_in"}
     /\ t.edge \in Edges /\ t.refs = {t.edge}

\* How far a request has come with one of its edges.
WholeUnlessMixed(e) == e \notin mixed => Whole(e)
HasEnd(n) == nodes[n] # Absent

Inserting(t, e) ==
  /\ t.at \in {"from", "to", "exists", "put"} => WholeUnlessMixed(e)
  /\ t.at \in {"to", "exists", "put", "put_out", "put_in"} => HasEnd(From(e))
  /\ t.at \in {"exists", "put", "put_out", "put_in"} => HasEnd(To(e))
  /\ t.at \in {"put_out", "put_in"} => e \in Stored
  /\ t.at = "put_in" => e \in outs

Updating(t, e) ==
  /\ WholeUnlessMixed(e)
  /\ t.at = "merge" /\ e \notin mixed => e \in Stored

Deleting(t, e) ==
  IF t.at \in {"cut_out", "cut_in"} /\ e = t.edge
  THEN e \notin Stored /\ (t.at = "cut_in" => e \notin outs)
  ELSE /\ WholeUnlessMixed(e)
       /\ t.at = "ins" /\ e \notin mixed /\ e \in Stored /\ From(e) = t.node => e \in t.refs
       /\ t.at \in {"cut", "cut_out", "cut_in"} /\ e \notin mixed /\ e \in Stored
            => e \in t.refs

Stage(t, e) ==
  /\ t.op = "insert_edge" => Inserting(t, e)
  /\ t.op = "update_edge" => Updating(t, e)
  /\ t.op \in {"delete_edge", "delete_node"} => Deleting(t, e)

\* What a request knows of an edge, unless it met another one there.
Knows(t, e) ==
  IF e \in Touched(t) THEN (~t.met \/ e \notin mixed) => Stage(t, e)
  ELSE WholeUnlessMixed(e)

Apart(c, d) ==
  \A e \in Touched(task[c]) \cap Touched(task[d]) :
    task[c].met /\ task[d].met /\ e \in mixed

GraphTypeOK ==
  /\ KeyTypes
  /\ task \in [Callers -> Task]
  /\ mixed \subseteq Edges
  /\ \A c \in Callers : Shape(task[c])
  /\ IsFiniteSet(Present)

GraphInv ==
  /\ GraphTypeOK
  /\ \A c, d \in Callers : c # d => Apart(c, d)
  /\ \A c \in Callers : \A e \in Touched(task[c]) : Knows(task[c], e)
  /\ \A e \in Edges : (\A c \in Callers : e \notin Touched(task[c])) => WholeUnlessMixed(e)

\* A step of one caller that leaves the edges it does not touch alone.
Same(e) ==
  /\ (e \in Stored)' = (e \in Stored)
  /\ (e \in outs)' = (e \in outs)
  /\ (e \in ins)' = (e \in ins)
  /\ HasEnd(From(e)) => HasEnd(From(e))'
  /\ HasEnd(To(e)) => HasEnd(To(e))'

Local(c) ==
  /\ \A d \in Callers \ {c} : task'[d] = task[d]
  /\ Touched(task[c])' \subseteq Touched(task[c])
  /\ Touched(task[c])' # {} => task'[c].met = task[c].met
  /\ \/ mixed' = mixed
     \/ ~task[c].met /\ \E e \in Touched(task[c]) : mixed' = mixed \ {e}
  /\ \A e \in Edges \ Touched(task[c]) : Same(e)
  /\ \A e \in Touched(task[c]) : Knows(task[c], e) => Knows(task[c], e)'

LEMMA TouchedEdges ==
  ASSUME NEW t, Shape(t)
  PROVE  Touched(t) \subseteq Edges
  BY DEF Shape, Touched, EdgesAt

\* What is known of an edge that a step leaves alone is still so.
LEMMA SameWhole ==
  ASSUME NEW e, Same(e), Whole(e)
  PROVE  Whole(e)'
  BY DEF Same, Whole, HasEnd

LEMMA SameStage ==
  ASSUME NEW d, task'[d] = task[d], NEW e, Same(e), (e \in mixed)' = (e \in mixed),
         Stage(task[d], e)
  PROVE  Stage(task[d], e)'
  <1>1. WholeUnlessMixed(e) => WholeUnlessMixed(e)'
    BY SameWhole DEF WholeUnlessMixed
  <1>2. Inserting(task[d], e) => Inserting(task[d], e)'
    BY <1>1 DEF Inserting, Same
  <1>3. Updating(task[d], e) => Updating(task[d], e)'
    BY <1>1 DEF Updating, Same
  <1>4. Deleting(task[d], e) => Deleting(task[d], e)'
    BY <1>1 DEF Deleting, Same
  <1> QED
    BY <1>2, <1>3, <1>4 DEF Stage

\* Such a step keeps what every request may rely on.
LEMMA LocalKeeps ==
  ASSUME GraphInv, GraphTypeOK', NEW c \in Callers, Local(c)
  PROVE  GraphInv'
  <1>1. \A d \in Callers : Touched(task[d])' \subseteq Touched(task[d])
    BY DEF Local
  <1>2. \A d \in Callers : Touched(task[d]) \subseteq Edges
    BY TouchedEdges DEF GraphInv, GraphTypeOK
  <1>3. ASSUME NEW e \in Touched(task[c]), NEW d \in Callers, d # c, e \in Touched(task[d])
        PROVE  mixed' = mixed /\ task[c].met /\ task[d].met /\ e \in mixed
    BY <1>3 DEF GraphInv, Apart, Local
  <1>4. ASSUME NEW a \in Callers, NEW d \in Callers, a # d
        PROVE  Apart(a, d)'
    <2> SUFFICES ASSUME NEW e \in Touched(task[a])', e \in Touched(task[d])'
                 PROVE  task'[a].met /\ task'[d].met /\ e \in mixed'
      BY DEF Apart
    <2>1. e \in Touched(task[a]) /\ e \in Touched(task[d])
      BY <1>1
    <2>2. task[a].met /\ task[d].met /\ e \in mixed
      BY <1>4, <2>1 DEF GraphInv, Apart
    <2>3. task'[a].met /\ task'[d].met
      BY <2>2 DEF Local
    <2>4. e \in mixed'
      <3>1. CASE mixed' = mixed
        BY <2>2, <3>1
      <3>2. CASE mixed' # mixed
        <4>1. ~task[c].met
          BY <3>2 DEF Local
        <4>2. PICK x \in Touched(task[c]) : mixed' = mixed \ {x}
          BY <3>2 DEF Local
        <4>3. e # x
          BY <2>1, <2>2, <4>1, <4>2, <1>3, <3>2
        <4> QED
          BY <2>2, <4>2, <4>3
      <3> QED
        BY <3>1, <3>2
    <2> QED
      BY <2>3, <2>4
  <1>5. ASSUME NEW e \in Edges, e \notin Touched(task[c])
        PROVE  Same(e) /\ (e \in mixed)' = (e \in mixed)
    BY <1>5 DEF Local
  <1>6. ASSUME NEW d \in Callers, NEW e \in Touched(task[d])'
        PROVE  Knows(task[d], e)'
    <2>1. e \in Touched(task[d]) /\ e \in Edges
      BY <1>1, <1>2
    <2>2. Knows(task[d], e)
      BY <2>1 DEF GraphInv
    <2>3. CASE d = c
      BY <2>1, <2>2, <2>3 DEF Local
    <2>4. CASE d # c
      <3>1. task'[d] = task[d]
        BY <2>4 DEF Local
      <3>2. CASE e \in Touched(task[c])
        BY <1>3, <2>1, <2>4, <3>1, <3>2 DEF Knows
      <3>3. CASE e \notin Touched(task[c])
        <4>1. Same(e) /\ (e \in mixed)' = (e \in mixed)
          BY <1>5, <2>1, <3>3
        <4>2. Stage(task[d], e) => Stage(task[d], e)'
          BY <3>1, <4>1, SameStage
        <4> QED
          BY <1>6, <2>1, <2>2, <3>1, <4>1, <4>2 DEF Knows
      <3> QED
        BY <3>2, <3>3
    <2> QED
      BY <2>3, <2>4
  <1>7. ASSUME NEW e \in Edges, \A d \in Callers : e \notin Touched(task[d])'
        PROVE  WholeUnlessMixed(e)'
    <2>1. CASE e \in Touched(task[c])
      <3>1. Knows(task[c], e)'
        BY <2>1 DEF Local, GraphInv
      <3> QED
        BY <1>7, <3>1 DEF Knows
    <2>2. CASE e \notin Touched(task[c])
      <3>1. Same(e) /\ (e \in mixed)' = (e \in mixed)
        BY <1>5, <2>2
      <3>2. \A d \in Callers : e \notin Touched(task[d])
        BY <1>7, <2>2 DEF Local
      <3> QED
        BY <3>1, <3>2, SameWhole DEF GraphInv, WholeUnlessMixed
    <2> QED
      BY <2>1, <2>2
  <1> QED
    BY <1>4, <1>6, <1>7 DEF GraphInv

--------------------------------------------------------------------------------
(* The steps of a request.                                                  *)

LEMMA IdleTask ==
  Idle \in Task /\ Shape(Idle) /\ Touched(Idle) = {} /\ Idle.at = "idle"
  <1>1. Idle.op = "none" /\ Idle.at = "idle"
    BY DEF Idle
  <1>2. Idle \in Task
    <2>1. FALSE \in BOOLEAN /\ {} \in SUBSET Fields /\ {} \in SUBSET Edges
      BY Zenon
    <2>2. "none" \in OpNames /\ "idle" \in StageNames
      BY DEF OpNames, StageNames
    <2> QED
      BY <2>1, <2>2, Zenon DEF Idle, Task
  <1> QED
    BY <1>1, <1>2 DEF Shape, Touched

\* The request of a caller, as a step changes it.
LEMMA Going ==
  ASSUME GraphTypeOK, NEW c \in Callers, NEW at \in StageNames, Goto(c, at)
  PROVE  /\ task'[c] \in Task
         /\ task' = [task EXCEPT ![c] = task'[c]]
         /\ task'[c].at = at /\ task'[c].op = task[c].op /\ task'[c].node = task[c].node
         /\ task'[c].edge = task[c].edge /\ task'[c].read = task[c].read
         /\ task'[c].refs = task[c].refs /\ task'[c].met = task[c].met
         /\ Touched(task[c])' = Touched(task[c])
  <1>1. task[c] \in Task
    BY DEF GraphTypeOK
  <1>2. task' = [task EXCEPT ![c] = [task[c] EXCEPT !.at = at]] /\ c \in DOMAIN task
    BY DEF Goto, GraphTypeOK
  <1>3. /\ task'[c] \in Task
        /\ task' = [task EXCEPT ![c] = task'[c]]
        /\ task'[c].at = at /\ task'[c].op = task[c].op /\ task'[c].node = task[c].node
        /\ task'[c].edge = task[c].edge /\ task'[c].read = task[c].read
        /\ task'[c].refs = task[c].refs /\ task'[c].met = task[c].met
    BY <1>1, <1>2 DEF Task
  <1> QED
    BY <1>3 DEF Touched, EdgesAt

LEMMA TypesGoOn ==
  ASSUME GraphTypeOK, KeyTypes', mixed' \subseteq Edges, NEW c \in Callers,
         task'[c] \in Task, Shape(task[c])', task' = [task EXCEPT ![c] = task'[c]],
         nodes' = nodes \/ \E n \in Nodes : \E x : nodes' = [nodes EXCEPT ![n] = x]
  PROVE  /\ GraphTypeOK'
         /\ \A d \in Callers \ {c} : task'[d] = task[d]
  <1>1. IsFiniteSet(Present)'
    <2>1. CASE nodes' = nodes
      <3>1. Present' = Present
        BY <2>1 DEF Present
      <3> QED
        BY <3>1 DEF GraphTypeOK
    <2>2. CASE \E n \in Nodes : \E x : nodes' = [nodes EXCEPT ![n] = x]
      <3>1. PICK n \in Nodes : Present' \subseteq Present \cup {n}
        BY <2>2 DEF Present, GraphTypeOK, KeyTypes
      <3>2. IsFiniteSet(Present \cup {n})
        BY FS_AddElement DEF GraphTypeOK
      <3>3. IsFiniteSet(Present')
        BY <3>1, <3>2, FS_Subset
      <3> QED
        BY <3>3
    <2> QED
      BY <2>1, <2>2
  <1>2. task' \in [Callers -> Task]
    BY DEF GraphTypeOK
  <1>3. \A d \in Callers \ {c} : task'[d] = task[d]
    BY DEF GraphTypeOK
  <1>4. \A d \in Callers : Shape(task[d])'
    <2>1. \A d \in Callers \ {c} : Shape(task[d])'
      BY <1>3 DEF GraphTypeOK, Shape
    <2> QED
      BY <2>1
  <1> QED
    BY <1>1, <1>2, <1>3, <1>4 DEF GraphTypeOK

LEMMA Ending ==
  ASSUME GraphTypeOK, NEW c \in Callers, End(c)
  PROVE  /\ task'[c] = Idle /\ task'[c] \in Task /\ Shape(task[c])'
         /\ task' = [task EXCEPT ![c] = task'[c]]
         /\ Touched(task[c])' = {}
  <1>1. task'[c] = Idle
    BY DEF End, GraphTypeOK
  <1>2. Shape(task[c])'
    BY <1>1, IdleTask
  <1>3. Touched(task[c])' = {}
    BY <1>1, IdleTask
  <1> QED
    BY <1>1, <1>2, <1>3, IdleTask DEF End

\* A step that changes no key, and leaves what is mixed alone.
LEMMA KeysStay ==
  ASSUME UNCHANGED table
  PROVE  /\ \A e : Same(e)
         /\ \A e : Whole(e)' = Whole(e)
         /\ \A e : (e \in Stored)' = (e \in Stored)
         /\ \A n : HasEnd(n)' = HasEnd(n)
         /\ KeyTypes => KeyTypes'
  BY DEF table, Same, Whole, HasEnd, KeyTypes, Stored

LEMMA RefuseLocal ==
  ASSUME GraphTypeOK, NEW c \in Callers, Refuse(c),
         \A e \in Touched(task[c]) : Knows(task[c], e) => WholeUnlessMixed(e)
  PROVE  GraphTypeOK' /\ Local(c)
  <1>1. UNCHANGED table /\ mixed' = mixed /\ nodes' = nodes /\ End(c)
    BY DEF Refuse, table
  <1>2. GraphTypeOK' /\ \A d \in Callers \ {c} : task'[d] = task[d]
    BY <1>1, Ending, KeysStay, TypesGoOn DEF GraphTypeOK
  <1>3. Touched(task[c])' = {}
    BY <1>1, Ending
  <1>4. \A e \in Touched(task[c]) : Knows(task[c], e) => Knows(task[c], e)'
    BY <1>1, <1>3, KeysStay DEF Knows, WholeUnlessMixed
  <1>5. \A e \in Edges \ Touched(task[c]) : Same(e)
    BY <1>1, KeysStay
  <1>6. Touched(task[c])' \subseteq Touched(task[c]) /\ ~(Touched(task[c])' # {})
    BY <1>3
  <1> QED
    BY <1>1, <1>2, <1>4, <1>5, <1>6, Zenon DEF Local

\* A request goes on to its next stage, without a write.
LEMMA GoesOn ==
  ASSUME GraphTypeOK, NEW c \in Callers, UNCHANGED <<table, mixed>>,
         task' = [task EXCEPT ![c] = task'[c]], task'[c] \in Task, Shape(task[c])',
         Touched(task[c])' = Touched(task[c]), task'[c].met = task[c].met,
         \A e \in Touched(task[c]) : Stage(task[c], e) => Stage(task[c], e)'
  PROVE  GraphTypeOK' /\ Local(c)
  <1>1. UNCHANGED table /\ mixed' = mixed /\ nodes' = nodes
    BY DEF table
  <1>2. GraphTypeOK' /\ \A d \in Callers \ {c} : task'[d] = task[d]
    BY <1>1, KeysStay, TypesGoOn DEF GraphTypeOK
  <1>3. \A e \in Touched(task[c]) : Knows(task[c], e) => Knows(task[c], e)'
    BY <1>1 DEF Knows
  <1>4. \A e \in Edges \ Touched(task[c]) : Same(e)
    BY <1>1, KeysStay
  <1>5. Touched(task[c])' \subseteq Touched(task[c])
    OBVIOUS
  <1> QED
    BY <1>1, <1>2, <1>3, <1>4, <1>5, Zenon DEF Local

\* The edges a request touches are told by its operation.
LEMMA TouchedBy ==
  ASSUME NEW t
  PROVE  /\ t.op \in {"insert_edge", "update_edge", "delete_edge"} => Touched(t) = {t.edge}
         /\ t.op = "delete_node" => Touched(t) = EdgesAt(t.node)
         /\ t.op \in {"none", "insert_node", "update_node"} => Touched(t) = {}
  BY DEF Touched

LEMMA CheckFreeLocal ==
  ASSUME GraphTypeOK, NEW c \in Callers, CheckFree(c)
  PROVE  GraphTypeOK' /\ Local(c)
  <1>1. task[c].op = "insert_node" /\ task[c].at = "free" /\ Shape(task[c])
    BY DEF CheckFree, At, GraphTypeOK
  <1>2. Touched(task[c]) = {}
    BY <1>1, TouchedBy
  <1>3. CASE Refuse(c)
    BY <1>2, <1>3, RefuseLocal
  <1>4. CASE Goto(c, "put") /\ UNCHANGED <<table, mixed>>
    <2>1. "put" \in StageNames
      BY DEF StageNames
    <2>2. Shape(task[c])'
      BY <1>1, <1>4, <2>1, Going DEF Shape
    <2> QED
      BY <1>2, <1>4, <2>1, <2>2, Going, GoesOn
  <1> QED
    BY <1>3, <1>4 DEF CheckFree

LEMMA ReadNodeLocal ==
  ASSUME GraphTypeOK, NEW c \in Callers, ReadNode(c)
  PROVE  GraphTypeOK' /\ Local(c)
  <1>1. /\ task[c].op = "update_node" /\ task[c].at = "read" /\ Shape(task[c])
        /\ task[c] \in Task /\ c \in DOMAIN task
    BY DEF ReadNode, At, GraphTypeOK
  <1>2. Touched(task[c]) = {} /\ task[c].node \in Nodes
    BY <1>1, TouchedBy DEF Shape
  <1>3. CASE Refuse(c)
    BY <1>2, <1>3, RefuseLocal
  <1>4. CASE /\ nodes[task[c].node] # Absent
             /\ task' = [task EXCEPT ![c].at = "merge", ![c].read = nodes[task[c].node]]
             /\ UNCHANGED <<table, mixed>>
    <2>1. "merge" \in StageNames
      BY DEF StageNames
    <2>2. nodes[task[c].node] \in (SUBSET Fields) \cup {Absent}
      BY <1>2 DEF GraphTypeOK, KeyTypes
    <2>3. /\ task'[c] \in Task /\ task' = [task EXCEPT ![c] = task'[c]]
          /\ task'[c].op = task[c].op /\ task'[c].at = "merge"
          /\ task'[c].node = task[c].node /\ task'[c].read # Absent
          /\ task'[c].met = task[c].met
      BY <1>1, <1>4, <2>1, <2>2 DEF Task
    <2>4. Shape(task[c])' /\ Touched(task[c])' = {}
      BY <1>1, <2>3, TouchedBy DEF Shape
    <2> QED
      BY <1>2, <1>4, <2>3, <2>4, GoesOn
  <1> QED
    BY <1>3, <1>4 DEF ReadNode

\* Writing a node takes no end away.
LEMMA WriteNodeLocal ==
  ASSUME GraphTypeOK, NEW c \in Callers, PutNode(c) \/ MergeNode(c)
  PROVE  GraphTypeOK' /\ Local(c)
  <1>1. Shape(task[c]) /\ task[c] \in Task
    BY DEF GraphTypeOK
  <1>2. Touched(task[c]) = {} /\ task[c].node \in Nodes /\ End(c)
        /\ edges' = edges /\ outs' = outs /\ ins' = ins /\ mixed' = mixed
    BY <1>1, TouchedBy DEF Shape, PutNode, MergeNode, At
  <1>3. PICK x \in SUBSET Fields : nodes' = [nodes EXCEPT ![task[c].node] = x]
    <2>1. CASE PutNode(c)
      BY <2>1 DEF PutNode
    <2>2. CASE MergeNode(c)
      <3>1. task[c].op = "update_node" /\ task[c].at = "merge"
        BY <2>2 DEF MergeNode, At
      <3>2. task[c].read \in SUBSET Fields /\ task[c].field \in SUBSET Fields
        BY <1>1, <3>1 DEF Shape, Task
      <3> QED
        BY <2>2, <3>2 DEF MergeNode
    <2> QED
      BY <2>1, <2>2
  <1>4. x # Absent
    BY AbsentAssumption
  <1>5. KeyTypes'
    BY <1>2, <1>3 DEF GraphTypeOK, KeyTypes
  <1>6. GraphTypeOK' /\ \A d \in Callers \ {c} : task'[d] = task[d]
    BY <1>2, <1>3, <1>5, Ending, TypesGoOn DEF GraphTypeOK
  <1>7. \A e \in Edges : Same(e)
    BY <1>2, <1>3, <1>4, EndsAreNodes DEF Same, HasEnd, Stored, GraphTypeOK, KeyTypes
  <1>8. Touched(task[c])' = {}
    BY <1>2, Ending
  <1> QED
    BY <1>2, <1>6, <1>7, <1>8 DEF Local

LEMMA CheckEndLocal ==
  ASSUME GraphTypeOK, NEW c \in Callers,
         \/ CheckEnd(c, "from", From(task[c].edge), "to")
         \/ CheckEnd(c, "to", To(task[c].edge), "exists")
  PROVE  GraphTypeOK' /\ Local(c)
  <1>1. /\ task[c].op = "insert_edge" /\ task[c].at \in {"from", "to"} /\ Shape(task[c])
        /\ Touched(task[c]) = {task[c].edge} /\ task[c].edge \in Edges
    BY TouchedBy DEF CheckEnd, At, GraphTypeOK, Shape
  <1>2. CASE Refuse(c)
    BY <1>1, <1>2, RefuseLocal DEF Knows, Stage, Inserting, WholeUnlessMixed
  <1>3. ASSUME NEW next \in {"to", "exists"}, Goto(c, next), UNCHANGED <<table, mixed>>,
               next = "to" => task[c].at = "from" /\ HasEnd(From(task[c].edge)),
               next = "exists" => task[c].at = "to" /\ HasEnd(To(task[c].edge))
        PROVE  GraphTypeOK' /\ Local(c)
    <2>1. next \in StageNames
      BY DEF StageNames
    <2>2. Shape(task[c])'
      BY <1>1, <1>3, <2>1, Going DEF Shape
    <2>3. \A e \in Touched(task[c]) : Stage(task[c], e) => Stage(task[c], e)'
      BY <1>1, <1>3, <2>1, Going, KeysStay DEF Stage, Inserting, WholeUnlessMixed
    <2> QED
      BY <1>3, <2>1, <2>2, <2>3, Going, GoesOn
  <1> QED
    BY <1>2, <1>3 DEF CheckEnd, At, HasEnd

LEMMA CheckEdgeLocal ==
  ASSUME GraphTypeOK, NEW c \in Callers, CheckEdge(c)
  PROVE  GraphTypeOK' /\ Local(c)
  <1>1. /\ task[c].op = "insert_edge" /\ task[c].at = "exists" /\ Shape(task[c])
        /\ Touched(task[c]) = {task[c].edge} /\ task[c].edge \in Edges
    BY TouchedBy DEF CheckEdge, At, GraphTypeOK, Shape
  <1>2. CASE Refuse(c)
    BY <1>1, <1>2, RefuseLocal DEF Knows, Stage, Inserting, WholeUnlessMixed
  <1>3. CASE Goto(c, "put") /\ UNCHANGED <<table, mixed>>
    <2>1. "put" \in StageNames
      BY DEF StageNames
    <2>2. Shape(task[c])'
      BY <1>1, <1>3, <2>1, Going DEF Shape
    <2>3. \A e \in Touched(task[c]) : Stage(task[c], e) => Stage(task[c], e)'
      BY <1>1, <1>3, <2>1, Going, KeysStay DEF Stage, Inserting, WholeUnlessMixed
    <2> QED
      BY <1>3, <2>1, <2>2, <2>3, Going, GoesOn
  <1> QED
    BY <1>2, <1>3 DEF CheckEdge

\* A request writes or deletes a key of one of its edges.
LEMMA WritesKey ==
  ASSUME GraphTypeOK, NEW c \in Callers, NEW e0 \in Touched(task[c]),
         KeyTypes', nodes' = nodes,
         \A e \in Edges \ {e0} : /\ (e \in Stored)' = (e \in Stored)
                                 /\ (e \in outs)' = (e \in outs)
                                 /\ (e \in ins)' = (e \in ins),
         mixed' = mixed \/ (~task[c].met /\ mixed' = mixed \ {e0}),
         task' = [task EXCEPT ![c] = task'[c]], task'[c] \in Task, Shape(task[c])',
         Touched(task[c])' \subseteq Touched(task[c]),
         Touched(task[c])' # {} => task'[c].met = task[c].met,
         \A e \in Touched(task[c]) : Knows(task[c], e) => Knows(task[c], e)'
  PROVE  GraphTypeOK' /\ Local(c)
  <1>1. mixed' \subseteq Edges
    BY DEF GraphTypeOK
  <1>2. GraphTypeOK' /\ \A d \in Callers \ {c} : task'[d] = task[d]
    BY <1>1, TypesGoOn
  <1>3. \A e \in Edges \ Touched(task[c]) : Same(e)
    BY DEF Same, HasEnd
  <1> QED
    BY <1>2, <1>3, SMT DEF Local

LEMMA PutEdgeLocal ==
  ASSUME GraphTypeOK, NEW c \in Callers, PutEdge(c)
  PROVE  GraphTypeOK' /\ Local(c)
  <1> PICK e0 \in Edges : e0 = task[c].edge
    BY DEF PutEdge, At, GraphTypeOK, Shape
  <1>1. /\ task[c].op = "insert_edge" /\ task[c].at = "put" /\ Shape(task[c])
        /\ Touched(task[c]) = {e0}
    BY TouchedBy DEF PutEdge, At, GraphTypeOK
  <1>2. /\ Goto(c, "put_out") /\ "put_out" \in StageNames
        /\ UNCHANGED <<nodes, outs, ins, mixed>> /\ edges' = [edges EXCEPT ![e0] = {}]
    BY DEF PutEdge, StageNames
  <1>3. KeyTypes'
    BY <1>2 DEF GraphTypeOK, KeyTypes
  <1>4. /\ (e0 \in Stored)'
        /\ \A e \in Edges \ {e0} : (e \in Stored)' = (e \in Stored)
    <2>1. {} # Absent
      BY AbsentAssumption
    <2> QED
      BY <1>2, <2>1 DEF Stored, GraphTypeOK, KeyTypes
  <1>5. Shape(task[c])'
    BY <1>1, <1>2, Going DEF Shape
  <1>6. Stage(task[c], e0) => Stage(task[c], e0)'
    BY <1>1, <1>2, <1>4, Going DEF Stage, Inserting, HasEnd
  <1>7. Knows(task[c], e0) => Knows(task[c], e0)'
    BY <1>1, <1>2, <1>6, Going DEF Knows
  <1> QED
    BY <1>1, <1>2, <1>3, <1>4, <1>5, <1>7, Going, WritesKey

LEMMA PutOutLocal ==
  ASSUME GraphTypeOK, NEW c \in Callers, PutOut(c)
  PROVE  GraphTypeOK' /\ Local(c)
  <1> PICK e0 \in Edges : e0 = task[c].edge
    BY DEF PutOut, At, GraphTypeOK, Shape
  <1>1. /\ task[c].op = "insert_edge" /\ task[c].at = "put_out" /\ Shape(task[c])
        /\ Touched(task[c]) = {e0}
    BY TouchedBy DEF PutOut, At, GraphTypeOK
  <1>2. /\ Goto(c, "put_in") /\ "put_in" \in StageNames
        /\ UNCHANGED <<nodes, edges, ins, mixed>> /\ outs' = outs \cup {e0}
    BY DEF PutOut, StageNames
  <1>3. KeyTypes'
    BY <1>2 DEF GraphTypeOK, KeyTypes
  <1>4. \A e : (e \in Stored)' = (e \in Stored)
    BY <1>2 DEF Stored
  <1>5. Shape(task[c])'
    BY <1>1, <1>2, Going DEF Shape
  <1>6. Stage(task[c], e0) => Stage(task[c], e0)'
    BY <1>1, <1>2, <1>4, Going DEF Stage, Inserting, HasEnd
  <1>7. Knows(task[c], e0) => Knows(task[c], e0)'
    BY <1>1, <1>2, <1>6, Going DEF Knows
  <1> QED
    BY <1>1, <1>2, <1>3, <1>4, <1>5, <1>7, Going, WritesKey

LEMMA PutInLocal ==
  ASSUME GraphTypeOK, NEW c \in Callers, PutIn(c)
  PROVE  GraphTypeOK' /\ Local(c)
  <1> PICK e0 \in Edges : e0 = task[c].edge
    BY DEF PutIn, At, GraphTypeOK, Shape
  <1>1. /\ task[c].op = "insert_edge" /\ task[c].at = "put_in" /\ Shape(task[c])
        /\ Touched(task[c]) = {e0} /\ task[c].met \in BOOLEAN
    BY TouchedBy DEF PutIn, At, GraphTypeOK, Task
  <1>2. /\ End(c) /\ UNCHANGED <<nodes, edges, outs>> /\ ins' = ins \cup {e0}
        /\ IF task[c].met THEN mixed' = mixed ELSE mixed' = mixed \ {e0}
    BY DEF PutIn, Settled
  <1>3. KeyTypes'
    BY <1>2 DEF GraphTypeOK, KeyTypes
  <1>4. \A e : (e \in Stored)' = (e \in Stored)
    BY <1>2 DEF Stored
  <1>5. Touched(task[c])' = {} /\ task'[c] \in Task /\ Shape(task[c])'
        /\ task' = [task EXCEPT ![c] = task'[c]]
    BY <1>2, Ending
  <1>6. Stage(task[c], e0) => Whole(e0)'
    BY <1>1, <1>2, <1>4 DEF Stage, Inserting, Whole, HasEnd
  <1>7. Knows(task[c], e0) => Knows(task[c], e0)'
    BY <1>1, <1>2, <1>5, <1>6 DEF Knows, WholeUnlessMixed
  <1>8. \A e \in Edges \ {e0} : (e \in ins)' = (e \in ins)
    BY <1>2
  <1> QED
    BY <1>1, <1>2, <1>3, <1>4, <1>5, <1>7, <1>8, WritesKey

LEMMA ReadEdgeLocal ==
  ASSUME GraphTypeOK, NEW c \in Callers, ReadEdge(c)
  PROVE  GraphTypeOK' /\ Local(c)
  <1>1. /\ task[c].op = "update_edge" /\ task[c].at = "read" /\ Shape(task[c])
        /\ task[c] \in Task /\ c \in DOMAIN task
        /\ Touched(task[c]) = {task[c].edge} /\ task[c].edge \in Edges
    BY TouchedBy DEF ReadEdge, At, GraphTypeOK, Shape
  <1>2. CASE Refuse(c)
    BY <1>1, <1>2, RefuseLocal DEF Knows, Stage, Updating, WholeUnlessMixed
  <1>3. CASE /\ edges[task[c].edge] # Absent
             /\ task' = [task EXCEPT ![c].at = "merge", ![c].read = edges[task[c].edge]]
             /\ UNCHANGED <<table, mixed>>
    <2>1. "merge" \in StageNames
      BY DEF StageNames
    <2>2. edges[task[c].edge] \in (SUBSET Fields) \cup {Absent}
      BY <1>1 DEF GraphTypeOK, KeyTypes
    <2>3. /\ task'[c] \in Task /\ task' = [task EXCEPT ![c] = task'[c]]
          /\ task'[c].op = task[c].op /\ task'[c].at = "merge"
          /\ task'[c].edge = task[c].edge /\ task'[c].read # Absent
          /\ task'[c].met = task[c].met
      BY <1>1, <1>3, <2>1, <2>2 DEF Task
    <2>4. Shape(task[c])' /\ Touched(task[c])' = {task[c].edge}
      BY <1>1, <2>3, TouchedBy DEF Shape
    <2>5. \A e \in Touched(task[c]) : Stage(task[c], e) => Stage(task[c], e)'
      BY <1>1, <1>3, <2>3, KeysStay DEF Stage, Updating, WholeUnlessMixed, Stored
    <2> QED
      BY <1>1, <1>3, <2>3, <2>4, <2>5, GoesOn
  <1> QED
    BY <1>2, <1>3 DEF ReadEdge

LEMMA MergeEdgeLocal ==
  ASSUME GraphTypeOK, NEW c \in Callers, MergeEdge(c)
  PROVE  GraphTypeOK' /\ Local(c)
  <1> PICK e0 \in Edges : e0 = task[c].edge
    BY DEF MergeEdge, At, GraphTypeOK, Shape
  <1>1. /\ task[c].op = "update_edge" /\ task[c].at = "merge" /\ Shape(task[c])
        /\ Touched(task[c]) = {e0}
        /\ task[c].read \in (SUBSET Fields) \cup {Absent} /\ task[c].read # Absent
    BY TouchedBy DEF MergeEdge, At, GraphTypeOK, Task, Shape
  <1>2. /\ End(c) /\ UNCHANGED <<nodes, outs, ins, mixed>>
        /\ edges' = [edges EXCEPT ![e0] = task[c].read]
    BY DEF MergeEdge
  <1>3. KeyTypes'
    BY <1>1, <1>2 DEF GraphTypeOK, KeyTypes
  <1>4. /\ (e0 \in Stored)'
        /\ \A e \in Edges \ {e0} : (e \in Stored)' = (e \in Stored)
    BY <1>1, <1>2 DEF Stored, GraphTypeOK, KeyTypes
  <1>5. Touched(task[c])' = {} /\ task'[c] \in Task /\ Shape(task[c])'
        /\ task' = [task EXCEPT ![c] = task'[c]]
    BY <1>2, Ending
  <1>6. Stage(task[c], e0) => WholeUnlessMixed(e0)'
    BY <1>1, <1>2, <1>4 DEF Stage, Updating, Whole, WholeUnlessMixed
  <1>7. Knows(task[c], e0) => Knows(task[c], e0)'
    BY <1>1, <1>2, <1>5, <1>6 DEF Knows, WholeUnlessMixed
  <1> QED
    BY <1>1, <1>2, <1>3, <1>4, <1>5, <1>7, WritesKey

\* The two scans find the whole edges at the node that is being deleted.
LEMMA ScanLocal ==
  ASSUME GraphTypeOK, NEW c \in Callers, ScanOuts(c) \/ ScanIns(c)
  PROVE  GraphTypeOK' /\ Local(c)
  <1>1. /\ task[c].op = "delete_node" /\ task[c].at \in {"outs", "ins"} /\ Shape(task[c])
        /\ task[c] \in Task /\ c \in DOMAIN task
        /\ Touched(task[c]) = EdgesAt(task[c].node)
    BY TouchedBy DEF ScanOuts, ScanIns, At, GraphTypeOK
  <1>2. outs \subseteq Edges /\ ins \subseteq Edges
    BY DEF GraphTypeOK, KeyTypes
  <1>3. CASE ScanOuts(c)
    <2> DEFINE refs == {e \in outs : From(e) = task[c].node}
    <2>1. refs \in SUBSET Edges /\ refs \subseteq EdgesAt(task[c].node)
      BY <1>2 DEF EdgesAt
    <2>2. /\ task[c].at = "outs" /\ "ins" \in StageNames /\ UNCHANGED <<table, mixed>>
          /\ task' = [task EXCEPT ![c].at = "ins", ![c].refs = refs]
      BY <1>3 DEF ScanOuts, At, StageNames
    <2>3. \A e : e \in refs <=> e \in outs /\ From(e) = task[c].node
      OBVIOUS
    <2> HIDE DEF refs
    <2>4. /\ task'[c] \in Task /\ task' = [task EXCEPT ![c] = task'[c]]
          /\ task'[c].op = task[c].op /\ task'[c].at = "ins"
          /\ task'[c].node = task[c].node /\ task'[c].refs = refs
          /\ task'[c].met = task[c].met
      BY <1>1, <2>1, <2>2 DEF Task
    <2>5. Shape(task[c])'
      BY <1>1, <2>1, <2>4 DEF Shape, EdgesAt
    <2>6. Touched(task[c])' = Touched(task[c])
      BY <1>1, <2>4, TouchedBy DEF EdgesAt, Touched
    <2>7. \A e \in Touched(task[c]) : Stage(task[c], e) => Stage(task[c], e)'
      BY <1>1, <2>2, <2>3, <2>4, KeysStay DEF Stage, Deleting, WholeUnlessMixed, Whole
    <2> QED
      BY <2>2, <2>4, <2>5, <2>6, <2>7, GoesOn
  <1>4. CASE ScanIns(c)
    <2> DEFINE refs == task[c].refs \cup {e \in ins : To(e) = task[c].node}
    <2>1. refs \in SUBSET Edges /\ refs \subseteq EdgesAt(task[c].node)
      BY <1>1, <1>2 DEF EdgesAt, Shape, Task
    <2>2. /\ task[c].at = "ins" /\ "cut" \in StageNames /\ UNCHANGED <<table, mixed>>
          /\ task' = [task EXCEPT ![c].at = "cut", ![c].refs = refs]
      BY <1>4 DEF ScanIns, At, StageNames
    <2>3. \A e : e \in refs <=> e \in task[c].refs \/ (e \in ins /\ To(e) = task[c].node)
      OBVIOUS
    <2> HIDE DEF refs
    <2>4. /\ task'[c] \in Task /\ task' = [task EXCEPT ![c] = task'[c]]
          /\ task'[c].op = task[c].op /\ task'[c].at = "cut"
          /\ task'[c].node = task[c].node /\ task'[c].refs = refs
          /\ task'[c].met = task[c].met
      BY <1>1, <2>1, <2>2 DEF Task
    <2>5. Shape(task[c])'
      BY <1>1, <2>1, <2>4 DEF Shape, EdgesAt
    <2>6. Touched(task[c])' = Touched(task[c])
      BY <1>1, <2>4, TouchedBy DEF EdgesAt, Touched
    <2>7. ASSUME NEW e \in Touched(task[c]), Stage(task[c], e)
          PROVE  Stage(task[c], e)'
      <3>1. From(e) = task[c].node \/ To(e) = task[c].node
        BY <1>1, <2>7 DEF EdgesAt
      <3>2. /\ WholeUnlessMixed(e)
            /\ e \notin mixed /\ e \in Stored /\ From(e) = task[c].node => e \in task[c].refs
        BY <1>1, <2>2, <2>7 DEF Stage, Deleting
      <3>3. e \notin mixed /\ e \in Stored => e \in refs
        BY <2>3, <3>1, <3>2 DEF WholeUnlessMixed, Whole
      <3> QED
        BY <1>1, <2>2, <2>4, <3>2, <3>3, KeysStay DEF Stage, Deleting, WholeUnlessMixed
    <2> QED
      BY <2>2, <2>4, <2>5, <2>6, <2>7, GoesOn
  <1> QED
    BY <1>3, <1>4

\* The request that deletes the keys of an edge.
LEMMA CuttingShape ==
  ASSUME GraphTypeOK, NEW c \in Callers, task[c].at \in {"cut", "cut_out", "cut_in"}
  PROVE  /\ task[c].op \in {"delete_edge", "delete_node"}
         /\ task[c].refs \subseteq Touched(task[c]) /\ task[c].refs \subseteq Edges
         /\ task[c].at # "cut" => task[c].edge \in task[c].refs
         /\ task[c] \in Task /\ Shape(task[c]) /\ c \in DOMAIN task
  <1>1. Shape(task[c]) /\ task[c] \in Task /\ c \in DOMAIN task
    BY DEF GraphTypeOK
  <1>2. task[c].op \in {"delete_edge", "delete_node"}
    BY <1>1 DEF Shape
  <1>3. task[c].refs \subseteq Edges
    BY <1>1 DEF Task
  <1> QED
    BY <1>1, <1>2, <1>3, TouchedBy DEF Shape

LEMMA CutEdgeLocal ==
  ASSUME GraphTypeOK, NEW c \in Callers, CutEdge(c)
  PROVE  GraphTypeOK' /\ Local(c)
  <1>1. task[c].at = "cut"
    BY DEF CutEdge
  <1> PICK e0 \in task[c].refs : /\ edges' = [edges EXCEPT ![e0] = Absent]
                                 /\ task' = [task EXCEPT ![c].at = "cut_out", ![c].edge = e0]
    BY DEF CutEdge
  <1>2. /\ e0 \in Edges /\ e0 \in Touched(task[c]) /\ "cut_out" \in StageNames
        /\ UNCHANGED <<nodes, outs, ins, mixed>>
    BY <1>1, CuttingShape DEF CutEdge, StageNames
  <1>3. KeyTypes'
    BY <1>2 DEF GraphTypeOK, KeyTypes
  <1>4. /\ ~(e0 \in Stored)'
        /\ \A e \in Edges \ {e0} : (e \in Stored)' = (e \in Stored)
    BY <1>2 DEF Stored, GraphTypeOK, KeyTypes
  <1>5. /\ task'[c] \in Task /\ task' = [task EXCEPT ![c] = task'[c]]
        /\ task'[c].op = task[c].op /\ task'[c].at = "cut_out"
        /\ task'[c].node = task[c].node /\ task'[c].refs = task[c].refs
        /\ task'[c].edge = e0 /\ task'[c].met = task[c].met
    BY <1>1, <1>2, CuttingShape DEF Task
  <1>6. Shape(task[c])'
    BY <1>1, <1>2, <1>5, CuttingShape DEF Shape, EdgesAt
  <1>7. Touched(task[c])' = Touched(task[c])
    <2>1. CASE task[c].op = "delete_node"
      BY <1>5, <2>1 DEF Touched, EdgesAt
    <2>2. CASE task[c].op = "delete_edge"
      <3>1. task[c].edge = e0
        BY <1>1, <2>2, CuttingShape DEF Shape
      <3> QED
        BY <1>5, <2>2, <3>1 DEF Touched
    <2> QED
      BY <1>1, <2>1, <2>2, CuttingShape
  <1>8. ASSUME NEW e \in Touched(task[c]), Stage(task[c], e)
        PROVE  Stage(task[c], e)'
    <2>1. Deleting(task[c], e) /\ e \in Edges
      BY <1>1, <1>8, CuttingShape, TouchedEdges DEF Stage
    <2>2. CASE e = e0
      BY <1>1, <1>4, <1>5, <2>2, CuttingShape DEF Stage, Deleting
    <2>3. CASE e # e0
      <3>1. Whole(e) => Whole(e)'
        BY <1>2, <1>4, <2>1, <2>3 DEF Whole
      <3>2. WholeUnlessMixed(e) => WholeUnlessMixed(e)'
        BY <1>2, <3>1 DEF WholeUnlessMixed
      <3> QED
        BY <1>1, <1>2, <1>4, <1>5, <2>1, <2>3, <3>2, CuttingShape DEF Stage, Deleting
    <2> QED
      BY <2>2, <2>3
  <1>9. \A e \in Touched(task[c]) : Knows(task[c], e) => Knows(task[c], e)'
    BY <1>2, <1>5, <1>7, <1>8 DEF Knows
  <1> QED
    BY <1>2, <1>3, <1>4, <1>5, <1>6, <1>7, <1>9, WritesKey

LEMMA CutOutLocal ==
  ASSUME GraphTypeOK, NEW c \in Callers, CutOut(c)
  PROVE  GraphTypeOK' /\ Local(c)
  <1>1. task[c].at = "cut_out"
    BY DEF CutOut
  <1> PICK e0 \in Edges : e0 = task[c].edge
    BY <1>1, CuttingShape
  <1>2. /\ e0 \in Touched(task[c]) /\ "cut_in" \in StageNames /\ Goto(c, "cut_in")
        /\ UNCHANGED <<nodes, edges, ins, mixed>> /\ outs' = outs \ {e0}
    BY <1>1, CuttingShape DEF CutOut, StageNames
  <1>3. KeyTypes'
    BY <1>2 DEF GraphTypeOK, KeyTypes
  <1>4. \A e : (e \in Stored)' = (e \in Stored)
    BY <1>2 DEF Stored
  <1>5. Shape(task[c])'
    BY <1>1, <1>2, CuttingShape, Going DEF Shape, EdgesAt
  <1>6. ASSUME NEW e \in Touched(task[c]), Stage(task[c], e)
        PROVE  Stage(task[c], e)'
    <2>1. Deleting(task[c], e)
      BY <1>1, <1>6, CuttingShape DEF Stage
    <2>2. CASE e = e0
      BY <1>1, <1>2, <1>4, <2>1, <2>2, CuttingShape, Going DEF Stage, Deleting
    <2>3. CASE e # e0
      <3>1. WholeUnlessMixed(e) => WholeUnlessMixed(e)'
        BY <1>2, <1>4, <2>3 DEF Whole, WholeUnlessMixed
      <3> QED
        BY <1>1, <1>2, <1>4, <2>1, <2>3, <3>1, CuttingShape, Going DEF Stage, Deleting
    <2> QED
      BY <2>2, <2>3
  <1>7. \A e \in Touched(task[c]) : Knows(task[c], e) => Knows(task[c], e)'
    BY <1>2, <1>6, Going DEF Knows
  <1> QED
    BY <1>2, <1>3, <1>4, <1>5, <1>7, Going, WritesKey

LEMMA CutInLocal ==
  ASSUME GraphTypeOK, NEW c \in Callers, CutIn(c)
  PROVE  GraphTypeOK' /\ Local(c)
  <1>1. task[c].at = "cut_in"
    BY DEF CutIn
  <1> PICK e0 \in Edges : e0 = task[c].edge
    BY <1>1, CuttingShape
  <1>2. /\ e0 \in Touched(task[c]) /\ task[c].met \in BOOLEAN
        /\ UNCHANGED <<nodes, edges, outs>> /\ ins' = ins \ {e0}
        /\ IF task[c].met THEN mixed' = mixed ELSE mixed' = mixed \ {e0}
    BY <1>1, CuttingShape DEF CutIn, Settled, Task
  <1>3. KeyTypes'
    BY <1>2 DEF GraphTypeOK, KeyTypes
  <1>4. /\ \A e : (e \in Stored)' = (e \in Stored)
        /\ \A e \in Edges \ {e0} : (e \in ins)' = (e \in ins) /\ (e \in mixed)' = (e \in mixed)
    BY <1>2 DEF Stored
  <1>5. Stage(task[c], e0) => Whole(e0)'
    BY <1>1, <1>2, <1>4, CuttingShape DEF Stage, Deleting, Whole
  <1>6. CASE task[c].op = "delete_edge"
    <2>1. End(c)
      BY <1>6 DEF CutIn
    <2>2. Touched(task[c])' = {} /\ task'[c] \in Task /\ Shape(task[c])'
          /\ task' = [task EXCEPT ![c] = task'[c]]
      BY <2>1, Ending
    <2>3. Knows(task[c], e0) => Knows(task[c], e0)'
      BY <1>2, <1>5, <2>2 DEF Knows, WholeUnlessMixed
    <2>4. Touched(task[c]) = {e0}
      BY <1>6, TouchedBy
    <2> QED
      BY <1>2, <1>3, <1>4, <2>2, <2>3, <2>4, WritesKey
  <1>7. CASE task[c].op = "delete_node"
    <2>1. task' = [task EXCEPT ![c].at = "cut", ![c].refs = @ \ {e0}] /\ "cut" \in StageNames
      BY <1>7 DEF CutIn, StageNames
    <2>2. /\ task'[c] \in Task /\ task' = [task EXCEPT ![c] = task'[c]]
          /\ task'[c].op = task[c].op /\ task'[c].at = "cut"
          /\ task'[c].node = task[c].node /\ task'[c].refs = task[c].refs \ {e0}
          /\ task'[c].met = task[c].met
      <3>1. task[c].refs \ {e0} \in SUBSET Edges
        BY <1>1, CuttingShape
      <3> DEFINE refs == task[c].refs \ {e0}
      <3>2. task' = [task EXCEPT ![c] = [task[c] EXCEPT !.at = "cut", !.refs = refs]]
        BY <1>1, <2>1, CuttingShape DEF Task
      <3>3. refs \in SUBSET Edges
        BY <3>1
      <3> HIDE DEF refs
      <3>4. /\ task'[c] \in Task /\ task' = [task EXCEPT ![c] = task'[c]]
            /\ task'[c].op = task[c].op /\ task'[c].at = "cut"
            /\ task'[c].node = task[c].node /\ task'[c].refs = refs
            /\ task'[c].met = task[c].met
        BY <1>1, <2>1, <3>2, <3>3, CuttingShape DEF Task
      <3> QED
        BY <3>4 DEF refs
    <2>3. Shape(task[c])'
      BY <1>1, <1>7, <2>2, CuttingShape DEF Shape, EdgesAt
    <2>4. Touched(task[c])' = Touched(task[c])
      BY <1>7, <2>2 DEF Touched, EdgesAt
    <2>5. ASSUME NEW e \in Touched(task[c]), e # e0, Stage(task[c], e)
          PROVE  Stage(task[c], e)'
      <3>1. Deleting(task[c], e) /\ e \in Edges
        BY <1>1, <2>5, CuttingShape, TouchedEdges DEF Stage
      <3>2. WholeUnlessMixed(e) => WholeUnlessMixed(e)'
        BY <1>2, <1>4, <2>5, <3>1 DEF Whole, WholeUnlessMixed
      <3> QED
        BY <1>1, <1>4, <1>7, <2>2, <2>5, <3>1, <3>2 DEF Stage, Deleting
    <2>6. Stage(task[c], e0) => Stage(task[c], e0)'
      <3>1. CASE Stage(task[c], e0)
        <4>1. e0 \notin Stored
          BY <1>1, <3>1, CuttingShape DEF Stage, Deleting
        <4> QED
          BY <1>4, <1>5, <1>7, <2>2, <3>1, <4>1 DEF Stage, Deleting, WholeUnlessMixed
      <3> QED
        BY <3>1
    <2>7. ASSUME NEW e \in Touched(task[c]), Knows(task[c], e)
          PROVE  Knows(task[c], e)'
      <3>1. e \in Edges
        BY <1>1, CuttingShape, TouchedEdges
      <3>2. CASE e = e0
        BY <1>2, <2>2, <2>4, <2>6, <2>7, <3>2 DEF Knows
      <3>3. CASE e # e0
        BY <1>2, <1>4, <2>2, <2>4, <2>5, <2>7, <3>1, <3>3 DEF Knows
      <3> QED
        BY <3>2, <3>3
    <2> QED
      BY <1>2, <1>3, <1>4, <2>2, <2>3, <2>4, <2>7, WritesKey
  <1> QED
    BY <1>1, <1>6, <1>7, CuttingShape

\* When the node goes, none of its edges that are whole is left.
LEMMA CutNodeLocal ==
  ASSUME GraphTypeOK, NEW c \in Callers, CutNode(c)
  PROVE  GraphTypeOK' /\ Local(c)
  <1> PICK n \in Nodes : n = task[c].node
    BY DEF CutNode, At, GraphTypeOK, Shape
  <1>1. /\ task[c].op = "delete_node" /\ task[c].at = "cut" /\ task[c].refs = {}
        /\ Touched(task[c]) = EdgesAt(n) /\ End(c)
        /\ nodes' = [nodes EXCEPT ![n] = Absent] /\ UNCHANGED <<edges, outs, ins, mixed>>
    BY TouchedBy DEF CutNode, At
  <1>2. KeyTypes'
    BY <1>1 DEF GraphTypeOK, KeyTypes
  <1>3. /\ task'[c] = Idle /\ Touched(task[c])' = {}
        /\ GraphTypeOK' /\ \A d \in Callers \ {c} : task'[d] = task[d]
    BY <1>1, <1>2, Ending, TypesGoOn DEF GraphTypeOK
  <1>4. \A e \in Edges : (e \in Stored)' = (e \in Stored)
    BY <1>1 DEF Stored
  <1>5. ASSUME NEW e \in Edges \ EdgesAt(n)
        PROVE  Same(e)
    <2>1. From(e) # n /\ To(e) # n
      BY DEF EdgesAt
    <2> QED
      BY <1>1, <1>4, <2>1, EndsAreNodes DEF Same, HasEnd, GraphTypeOK, KeyTypes
  <1>6. ASSUME NEW e \in EdgesAt(n), Knows(task[c], e), e \notin mixed
        PROVE  Whole(e)'
    <2>1. e \notin Stored /\ Whole(e) /\ e \in Edges
      BY <1>1, <1>6 DEF Knows, Stage, Deleting, WholeUnlessMixed, EdgesAt
    <2> QED
      BY <1>1, <1>4, <2>1 DEF Whole
  <1>7. \A e \in Touched(task[c]) : Knows(task[c], e) => Knows(task[c], e)'
    BY <1>1, <1>3, <1>6 DEF Knows, WholeUnlessMixed
  <1>8. Touched(task[c])' \subseteq Touched(task[c]) /\ ~(Touched(task[c])' # {})
    BY <1>3
  <1>9. \A e \in Edges \ Touched(task[c]) : Same(e)
    BY <1>1, <1>5
  <1>10. mixed' = mixed
    BY <1>1
  <1> QED
    BY <1>3, <1>7, <1>8, <1>9, <1>10, Zenon DEF Local

--------------------------------------------------------------------------------
(* A request begins, the process dies.                                      *)

\* A request that has not done anything yet.
Fresh(t) ==
  /\ t \in Task /\ Shape(t) /\ t.op # "none"
  /\ t.op = "insert_edge" => t.at = "from"
  /\ t.op = "update_edge" => t.at = "read"
  /\ t.op \in {"delete_edge", "delete_node"} => t.at \in {"outs", "cut"}
  /\ t.op = "delete_node" => t.at = "outs"

LEMMA IdleShape ==
  ASSUME NEW t, Shape(t)
  PROVE  t.at = "idle" => Touched(t) = {}
  BY TouchedBy DEF Shape

LEMMA BeginKeeps ==
  ASSUME GraphInv, NEW c \in Callers, NEW t, Fresh(t), Begin(c, t)
  PROVE  GraphInv'
  <1> DEFINE others == {d \in Callers : Busy(d) /\ Touched(task[d]) \cap Touched(t) # {}}
             met == others # {}
  <1>1. /\ ~Busy(c) /\ UNCHANGED table
        /\ task' = [d \in Callers |->
                        IF d = c THEN [t EXCEPT !.met = met]
                        ELSE IF d \in others THEN [task[d] EXCEPT !.met = TRUE]
                        ELSE task[d]]
        /\ mixed' = mixed \union UNION {Touched(task[d]) \cap Touched(t) : d \in others}
    BY Zenon DEF Begin
  <1>2. c \notin others /\ Touched(task[c]) = {} /\ Touched(t) \subseteq Edges
    BY <1>1, IdleShape, TouchedEdges DEF Busy, GraphInv, GraphTypeOK, Fresh
  <1>3. \A d \in Callers, e \in Touched(t) : e \in Touched(task[d]) => d \in others
    BY IdleShape DEF Busy, GraphInv, GraphTypeOK
  <1>4. \A e : e \in mixed' <=>
            e \in mixed \/ (e \in Touched(t) /\ \E d \in others : e \in Touched(task[d]))
    BY <1>1
  <1>5. others = {} \/ others # {}
    OBVIOUS
  <1>6. met \in BOOLEAN /\ others \subseteq Callers
    OBVIOUS
  <1> HIDE DEF others, met
  <1>7. /\ task'[c] \in Task /\ Shape(task[c])' /\ task'[c].met = met
        /\ task'[c].op = t.op /\ task'[c].at = t.at /\ task'[c].edge = t.edge
        /\ task'[c].node = t.node /\ task'[c].refs = t.refs
    <2>1. task'[c] = [t EXCEPT !.met = met]
      BY <1>1
    <2>2. /\ task'[c] \in Task /\ task'[c].op = t.op /\ task'[c].at = t.at
          /\ task'[c].edge = t.edge /\ task'[c].node = t.node /\ task'[c].refs = t.refs
          /\ task'[c].read = t.read
      BY <1>6, <2>1 DEF Fresh, Task
    <2>3. task'[c].met = met
      BY <2>1 DEF Fresh, Task
    <2> QED
      BY <2>2, <2>3 DEF Shape, Fresh
  <1>8. ASSUME NEW d \in Callers, d # c
        PROVE  /\ task'[d] \in Task /\ Shape(task[d])'
               /\ task'[d].met = IF d \in others THEN TRUE ELSE task[d].met
               /\ task'[d].op = task[d].op /\ task'[d].at = task[d].at
               /\ task'[d].edge = task[d].edge /\ task'[d].node = task[d].node
               /\ task'[d].refs = task[d].refs
    <2>1. task[d] \in Task /\ Shape(task[d])
      BY DEF GraphInv, GraphTypeOK
    <2>2. CASE d \in others
      <3>1. task'[d] = [task[d] EXCEPT !.met = TRUE]
        BY <1>1, <1>8, <2>2
      <3>2. /\ task'[d] \in Task /\ task'[d].op = task[d].op /\ task'[d].at = task[d].at
            /\ task'[d].edge = task[d].edge /\ task'[d].node = task[d].node
            /\ task'[d].refs = task[d].refs /\ task'[d].read = task[d].read
        BY <2>1, <3>1 DEF Task
      <3>3. task'[d].met = TRUE
        BY <2>1, <3>1 DEF Task
      <3>4. Shape(task[d])'
        BY <2>1, <3>2 DEF Shape
      <3> QED
        BY <2>2, <3>2, <3>3, <3>4
    <2>3. CASE d \notin others
      <3>1. task'[d] = task[d]
        BY <1>1, <1>8, <2>3
      <3> QED
        BY <2>1, <2>3, <3>1 DEF Shape
    <2> QED
      BY <2>2, <2>3
  <1>9. /\ Touched(task[c])' = Touched(t)
        /\ \A d \in Callers \ {c} : Touched(task[d])' = Touched(task[d])
    BY <1>7, <1>8 DEF Touched, EdgesAt
  <1>10. GraphTypeOK'
    <2>1. KeyTypes'
      BY <1>1, KeysStay DEF GraphInv, GraphTypeOK
    <2>2. Present' = Present
      BY <1>1 DEF Present, table
    <2>3. mixed' \subseteq Edges
      BY <1>2, <1>4 DEF GraphInv, GraphTypeOK
    <2>4. task' \in [Callers -> Task]
      <3>1. DOMAIN task' = Callers /\ task' = [d \in Callers |-> task'[d]]
        BY <1>1
      <3>2. \A d \in Callers : task'[d] \in Task
        BY <1>7, <1>8
      <3> QED
        BY <3>1, <3>2
    <2>5. \A d \in Callers : Shape(task[d])'
      BY <1>7, <1>8
    <2> QED
      BY <2>1, <2>2, <2>3, <2>4, <2>5 DEF GraphInv, GraphTypeOK
  <1>11. \A e : WholeUnlessMixed(e) => WholeUnlessMixed(e)'
    BY <1>1, <1>4, KeysStay DEF WholeUnlessMixed
  <1>12. ASSUME NEW a \in Callers, NEW d \in Callers, a # d
         PROVE  Apart(a, d)'
    <2> SUFFICES ASSUME NEW e \in Touched(task[a])', e \in Touched(task[d])'
                 PROVE  task'[a].met /\ task'[d].met /\ e \in mixed'
      BY DEF Apart
    <2>1. ASSUME NEW b \in Callers, b # c, e \in Touched(t), e \in Touched(task[b])
          PROVE  task'[c].met /\ task'[b].met /\ e \in mixed'
      <3>1. b \in others
        BY <1>3, <2>1
      <3>2. met
        BY <3>1 DEF met
      <3> QED
        BY <1>4, <1>7, <1>8, <2>1, <3>1, <3>2
    <2>2. CASE a = c
      BY <1>9, <1>12, <2>1, <2>2
    <2>3. CASE d = c
      BY <1>9, <1>12, <2>1, <2>3
    <2>4. CASE a # c /\ d # c
      <3>1. task[a].met /\ task[d].met /\ e \in mixed
        BY <1>9, <1>12, <2>4 DEF GraphInv, Apart
      <3> QED
        BY <1>4, <1>8, <2>4, <3>1
    <2> QED
      BY <2>2, <2>3, <2>4
  <1>13. ASSUME NEW e \in Touched(t)
         PROVE  Knows(task[c], e)'
    <2> SUFFICES ASSUME ~met \/ e \notin mixed'
                 PROVE  Stage(task[c], e)'
      BY <1>7, <1>9 DEF Knows
    <2>1. \A d \in Callers : e \notin Touched(task[d])
      <3>1. CASE ~met
        BY <1>3, <3>1 DEF met
      <3>2. CASE e \notin mixed'
        BY <1>3, <1>4, <3>2
      <3> QED
        BY <3>1, <3>2
    <2>2. WholeUnlessMixed(e)'
      BY <1>2, <1>11, <2>1 DEF GraphInv
    <2>3. /\ t.op = "insert_edge" => t.at = "from"
          /\ t.op = "update_edge" => t.at = "read"
          /\ t.op \in {"delete_edge", "delete_node"} => t.at \in {"outs", "cut"}
          /\ t.at = "cut" => e \in t.refs
      BY TouchedBy DEF Fresh, Shape
    <2> QED
      BY <1>7, <2>2, <2>3 DEF Stage, Inserting, Updating, Deleting
  <1>14. ASSUME NEW d \in Callers \ {c}, NEW e \in Touched(task[d])
         PROVE  Knows(task[d], e)'
    <2> SUFFICES ASSUME ~task'[d].met \/ e \notin mixed'
                 PROVE  Stage(task[d], e)'
      BY <1>9 DEF Knows
    <2>1. ~task[d].met \/ e \notin mixed
      BY <1>4, <1>8
    <2>2. Stage(task[d], e)
      BY <2>1 DEF GraphInv, Knows
    <2>3. /\ \A x : (x \in Stored)' = (x \in Stored)
          /\ \A n : HasEnd(n)' = HasEnd(n)
          /\ outs' = outs /\ (e \in mixed => e \in mixed')
      BY <1>1, <1>4, KeysStay DEF table
    <2>4. d \in Callers /\ d # c
      OBVIOUS
    <2>5. /\ Inserting(task[d], e) => Inserting(task[d], e)'
          /\ Updating(task[d], e) => Updating(task[d], e)'
          /\ Deleting(task[d], e) => Deleting(task[d], e)'
      BY <1>8, <1>11, <2>3, <2>4 DEF Inserting, Updating, Deleting
    <2> QED
      BY <1>8, <2>2, <2>4, <2>5 DEF Stage
  <1>15. ASSUME NEW e \in Edges, \A d \in Callers : e \notin Touched(task[d])'
         PROVE  WholeUnlessMixed(e)'
    <2>1. \A d \in Callers : e \notin Touched(task[d])
      BY <1>2, <1>9, <1>15
    <2> QED
      BY <1>11, <2>1 DEF GraphInv
  <1> QED
    BY <1>9, <1>10, <1>12, <1>13, <1>14, <1>15 DEF GraphInv

LEMMA RequestFresh ==
  ASSUME NEW c \in Callers, NodeRequest(c) \/ EdgeRequest(c)
  PROVE  \E t : Fresh(t) /\ Begin(c, t)
  <1>1. /\ {"free", "read", "outs", "from", "cut"} \subseteq StageNames
        /\ {"insert_node", "update_node", "delete_node",
            "insert_edge", "update_edge", "delete_edge"} \subseteq OpNames
        /\ Idle \in Task
    BY IdleTask DEF StageNames, OpNames
  <1>2. Idle.refs = {}
    BY DEF Idle
  <1>3. ASSUME NEW n \in Nodes
        PROVE  /\ Fresh([Idle EXCEPT !.op = "insert_node", !.at = "free", !.node = n])
               /\ \A f \in Fields : Fresh([Idle EXCEPT !.op = "update_node", !.at = "read",
                                                       !.node = n, !.field = {f}])
               /\ Fresh([Idle EXCEPT !.op = "delete_node", !.at = "outs", !.node = n])
    BY <1>1, <1>2 DEF Fresh, Task, Shape
  <1>4. ASSUME NEW e \in Edges
        PROVE  /\ Fresh([Idle EXCEPT !.op = "insert_edge", !.at = "from", !.edge = e])
               /\ Fresh([Idle EXCEPT !.op = "update_edge", !.at = "read", !.edge = e])
               /\ Fresh([Idle EXCEPT !.op = "delete_edge", !.at = "cut", !.edge = e,
                                     !.refs = {e}])
    BY <1>1, <1>2 DEF Fresh, Task, Shape
  <1> QED
    BY <1>3, <1>4 DEF NodeRequest, EdgeRequest

LEMMA CrashKeeps ==
  ASSUME GraphInv, Crash
  PROVE  GraphInv'
  <1>1. /\ task' = [c \in Callers |-> Idle] /\ UNCHANGED table
        /\ mixed' = mixed \union UNION {Touched(task[c]) : c \in Callers}
    BY DEF Crash
  <1>2. \A c \in Callers : task'[c] = Idle /\ Shape(task[c])' /\ Touched(task[c])' = {}
    BY <1>1, IdleTask
  <1>3. \A e : e \in mixed' <=> e \in mixed \/ \E c \in Callers : e \in Touched(task[c])
    BY <1>1
  <1>4. GraphTypeOK'
    <2>1. KeyTypes' /\ Present' = Present
      BY <1>1, KeysStay DEF GraphInv, GraphTypeOK, table, Present
    <2>2. mixed' \subseteq Edges
      BY <1>3, TouchedEdges DEF GraphInv, GraphTypeOK
    <2>3. task' \in [Callers -> Task]
      BY <1>1, IdleTask
    <2> QED
      BY <1>2, <2>1, <2>2, <2>3 DEF GraphInv, GraphTypeOK
  <1>5. \A e \in Edges : WholeUnlessMixed(e)'
    BY <1>1, <1>3, KeysStay DEF GraphInv, WholeUnlessMixed
  <1> QED
    BY <1>2, <1>4, <1>5 DEF GraphInv, Apart

LEMMA FailKeeps ==
  ASSUME GraphInv, NEW c \in Callers, Fail(c)
  PROVE  GraphInv'
  <1>1. UNCHANGED table /\ End(c) /\ mixed' = mixed \union Touched(task[c])
    BY DEF Fail
  <1>2. /\ task'[c] = Idle /\ task'[c] \in Task /\ Shape(task[c])'
        /\ task' = [task EXCEPT ![c] = task'[c]]
        /\ Touched(task[c])' = {}
    BY <1>1, Ending DEF GraphInv
  <1>3. mixed' \subseteq Edges /\ KeyTypes' /\ nodes' = nodes
    BY <1>1, TouchedEdges, KeysStay DEF GraphInv, GraphTypeOK, table
  <1>4. GraphTypeOK' /\ \A d \in Callers \ {c} : task'[d] = task[d]
    BY <1>2, <1>3, TypesGoOn DEF GraphInv
  <1>5. \A d \in Callers \ {c} : Touched(task[d])' = Touched(task[d])
    BY <1>4 DEF Touched, EdgesAt
  <1>6. \A e : WholeUnlessMixed(e) => WholeUnlessMixed(e)'
    BY <1>1, KeysStay DEF WholeUnlessMixed
  <1>7. ASSUME NEW a \in Callers, NEW d \in Callers, a # d
        PROVE  Apart(a, d)'
    <2> SUFFICES ASSUME NEW e \in Touched(task[a])', e \in Touched(task[d])'
                 PROVE  task'[a].met /\ task'[d].met /\ e \in mixed'
      BY DEF Apart
    <2>1. a # c /\ d # c
      BY <1>2
    <2>2. task[a].met /\ task[d].met /\ e \in mixed
      BY <1>5, <1>7, <2>1 DEF GraphInv, Apart
    <2> QED
      BY <1>1, <1>4, <2>1, <2>2
  <1>8. ASSUME NEW d \in Callers \ {c}, NEW e \in Touched(task[d])
        PROVE  Knows(task[d], e)'
    <2> SUFFICES ASSUME ~task'[d].met \/ e \notin mixed'
                 PROVE  Stage(task[d], e)'
      BY <1>5 DEF Knows
    <2>1. task'[d] = task[d]
      BY <1>4
    <2>2. Stage(task[d], e)
      BY <1>1, <2>1 DEF GraphInv, Knows
    <2>3. (e \in mixed)' = (e \in mixed)
      <3>1. e \in Touched(task[c]) => e \in mixed
        BY DEF GraphInv, Apart
      <3> QED
        BY <1>1, <3>1
    <2>4. Same(e)
      BY <1>1, KeysStay
    <2> QED
      BY <2>1, <2>2, <2>3, <2>4, SameStage
  <1>9. ASSUME NEW e \in Edges, \A d \in Callers : e \notin Touched(task[d])'
        PROVE  WholeUnlessMixed(e)'
    <2>1. CASE e \in Touched(task[c])
      BY <1>1, <2>1 DEF WholeUnlessMixed
    <2>2. CASE e \notin Touched(task[c])
      <3>1. \A d \in Callers : e \notin Touched(task[d])
        BY <1>5, <1>9, <2>2
      <3> QED
        BY <1>6, <3>1 DEF GraphInv
    <2> QED
      BY <2>1, <2>2
  <1> QED
    BY <1>2, <1>4, <1>5, <1>7, <1>8, <1>9 DEF GraphInv

--------------------------------------------------------------------------------
(* The theorem.                                                             *)

LEMMA GraphInvInit == GraphInit => GraphInv
  <1> SUFFICES ASSUME GraphInit
               PROVE  GraphInv
    OBVIOUS
  <1>1. \A c \in Callers : task[c] = Idle /\ Shape(task[c]) /\ Touched(task[c]) = {}
    BY IdleTask DEF GraphInit
  <1>2. Stored = {} /\ Present = {}
    BY DEF GraphInit, Stored, Present
  <1>3. \A e \in Edges : Whole(e)
    BY <1>2 DEF Whole, GraphInit
  <1>4. KeyTypes /\ mixed \subseteq Edges
    BY DEF KeyTypes, GraphInit
  <1>5. task \in [Callers -> Task]
    BY IdleTask DEF GraphInit
  <1>6. IsFiniteSet(Present)
    BY <1>2, FS_EmptySet
  <1> QED
    BY <1>1, <1>3, <1>4, <1>5, <1>6 DEF GraphInv, GraphTypeOK, Apart, WholeUnlessMixed

LEMMA GraphInvStep == GraphInv /\ [GraphNext]_graphVars => GraphInv'
  <1> SUFFICES ASSUME GraphInv, [GraphNext]_graphVars
               PROVE  GraphInv'
    OBVIOUS
  <1> USE DEF GraphInv
  <1>1. ASSUME NEW c \in Callers, NodeRequest(c) \/ EdgeRequest(c)
        PROVE  GraphInv'
    BY <1>1, RequestFresh, BeginKeeps
  <1>2. ASSUME NEW c \in Callers,
               \/ CheckFree(c) \/ PutNode(c) \/ ReadNode(c) \/ MergeNode(c)
               \/ InsertEdge(c) \/ ReadEdge(c) \/ MergeEdge(c) \/ DeleteKeys(c)
        PROVE  GraphTypeOK' /\ Local(c)
    <2>1. CASE CheckFree(c)
      BY <2>1, CheckFreeLocal
    <2>2. CASE PutNode(c) \/ MergeNode(c)
      BY <2>2, WriteNodeLocal
    <2>3. CASE ReadNode(c)
      BY <2>3, ReadNodeLocal
    <2>4. CASE InsertEdge(c)
      BY <2>4, CheckEndLocal, CheckEdgeLocal, PutEdgeLocal, PutOutLocal, PutInLocal
         DEF InsertEdge
    <2>5. CASE ReadEdge(c)
      BY <2>5, ReadEdgeLocal
    <2>6. CASE MergeEdge(c)
      BY <2>6, MergeEdgeLocal
    <2>7. CASE DeleteKeys(c)
      BY <2>7, ScanLocal, CutEdgeLocal, CutOutLocal, CutInLocal, CutNodeLocal DEF DeleteKeys
    <2> QED
      BY <1>2, <2>1, <2>2, <2>3, <2>4, <2>5, <2>6, <2>7
  <1>3. CASE Crash \/ \E c \in Callers : Fail(c)
    BY <1>3, CrashKeeps, FailKeeps
  <1>4. CASE UNCHANGED graphVars
    <2>1. UNCHANGED table /\ task' = task /\ mixed' = mixed /\ Present' = Present
      BY <1>4 DEF graphVars, table, Present
    <2>2. \A e : WholeUnlessMixed(e)' = WholeUnlessMixed(e)
      BY <2>1, KeysStay DEF WholeUnlessMixed
    <2>3. GraphTypeOK'
      BY <2>1, KeysStay DEF GraphTypeOK, Shape
    <2>4. \A c \in Callers : Touched(task[c])' = Touched(task[c])
      BY <2>1 DEF Touched, EdgesAt
    <2>5. \A c \in Callers : \A e : Stage(task[c], e) => Stage(task[c], e)'
      BY <2>1, <2>2, KeysStay DEF Stage, Inserting, Updating, Deleting, table
    <2> QED
      BY <2>1, <2>2, <2>3, <2>4, <2>5 DEF Apart, Knows
  <1>5. ASSUME NEW c \in Callers, GraphTypeOK', Local(c)
        PROVE  GraphInv'
    BY <1>5, LocalKeeps
  <1> QED
    BY <1>1, <1>2, <1>3, <1>4, <1>5 DEF GraphNext

\* When every edge that nothing has disturbed is whole, the queries tell one graph.
LEMMA WholeTold == GraphInv => EdgesWhole
  <1> SUFFICES ASSUME GraphInv
               PROVE  EdgesWhole
    OBVIOUS
  <1>1. ASSUME NEW e \in Quiet \ mixed
        PROVE  Whole(e)
    <2>1. \A c \in Callers : e \notin Touched(task[c])
      BY IdleShape DEF Quiet, Busy, GraphInv, GraphTypeOK
    <2> QED
      BY <2>1 DEF GraphInv, WholeUnlessMixed, Quiet
  <1>2. ASSUME Quiet = Edges, mixed = {}
        PROVE  /\ \A n \in Nodes :
                    {r.edge : r \in Neighbors(n, "both")} = EdgesAt(n) \cap Stored
               /\ \A a, b \in Nodes : \A answer \in ShortestPath(a, b) :
                    /\ answer.found => Joined(a, b)
                    /\ Joined(a, b) /\ Cardinality(Present) <= MaxDepth + 1 => answer.found
                    /\ \A k \in DOMAIN answer.path : answer.path[k] \in Stored
               /\ Stats.edges = Cardinality(outs)
    <2>1. AllWhole /\ IsFiniteSet(Present)
      BY <1>1, <1>2 DEF AllWhole, GraphInv, GraphTypeOK
    <2>2. outs = Stored
      BY <2>1 DEF AllWhole, Whole, KeyTypes, Stored
    <2> QED
      BY <2>1, <2>2, NeighborsTold, PathsTold DEF Stats
  <1>3. \A e \in Quiet \ mixed :
          /\ (e \in Stored <=> e \in outs) /\ (e \in Stored <=> e \in ins)
          /\ e \in Stored => nodes[From(e)] # Absent /\ nodes[To(e)] # Absent
    BY <1>1 DEF Whole
  <1> QED
    BY <1>2, <1>3 DEF EdgesWhole

\* EdgesWhole: an edge on which no two requests have met, and none was cut off
\* by a failing call of the storage or a crash, is stored,
\* found from its origin and found from its target, or none of the three, and has
\* both its ends; and when that is so of all edges, the neighbours, the shortest
\* paths and the statistics the queries answer (neighbors, shortest_path, stats)
\* are those of the stored edges, however many nodes there are and however they
\* are joined.
THEOREM GraphWhole == GraphSpec => []EdgesWhole
  <1>1. GraphSpec => []GraphInv
    BY GraphInvInit, GraphInvStep, PTL DEF GraphSpec
  <1> QED
    BY <1>1, WholeTold, PTL

--------------------------------------------------------------------------------
(* The client's lists.                                                      *)

\* Keys in their order are the keys.
LEMMA OrderedKeys ==
  ASSUME NEW S \in SUBSET Nat, IsFiniteSet(S)
  PROVE  InOrder(S) \in [1..Cardinality(S) -> S]
  <1> DEFINE Below(k) == {j \in S : j < k}
             Missing == {n \in 1..Cardinality(S) : \A k \in S : Cardinality(Below(k)) # n - 1}
  <1>1. Cardinality(S) \in Nat /\ \A k \in S : k \in Nat
    BY FS_CardinalityType
  <1>2. ASSUME Missing # {}
        PROVE  FALSE
    <2>1. Missing \in SUBSET Nat
      BY <1>1
    <2>2. PICK m \in Missing : \A n \in Missing : m <= n
      BY <1>2, <2>1, Least
    <2>3. m \in 1..Cardinality(S) /\ m \in Nat
      BY <1>1
    <2>4. CASE m = 1
      <3>1. S # {}
        BY <1>1, <2>3, <2>4, FS_EmptySet
      <3>2. Below(Min(S)) = {}
        <4>1. \A j \in S : Min(S) \in Nat /\ j \in Nat /\ Min(S) <= j
          BY <1>1, <3>1, MinLeast
        <4>2. \A j \in S : ~(j < Min(S))
          BY <4>1
        <4> QED
          BY <4>2
      <3>3. Cardinality(Below(Min(S))) = m - 1 /\ Min(S) \in S
        BY <2>4, <3>1, <3>2, FS_EmptySet, MinLeast
      <3> QED
        BY <3>3
    <2>5. CASE m > 1
      <3>1. m - 1 \in 1..Cardinality(S) /\ m - 1 \notin Missing
        BY <1>1, <2>2, <2>3, <2>5
      <3>2. PICK k \in S : Cardinality(Below(k)) = (m - 1) - 1
        BY <3>1
      <3> DEFINE Upto == Below(k) \cup {k}
                 Above == {j \in S : j > k}
      <3>3. IsFiniteSet(Below(k)) /\ k \notin Below(k)
        BY FS_Subset
      <3>4. Cardinality(Upto) = m - 1
        <4>1. Cardinality(Upto) = Cardinality(Below(k)) + 1
          BY <3>3, FS_AddElement
        <4> QED
          BY <2>3, <3>2, <4>1
      <3>5. Above # {}
        <4>1. \A j \in S : j < k \/ j = k \/ j > k
          BY <1>1
        <4>2. Above = {} => S = Upto
          BY <4>1
        <4> QED
          BY <1>1, <2>3, <3>4, <4>2
      <3>6. Min(Above) \in Above /\ \A j \in Above : Min(Above) <= j
        BY <3>5, MinLeast
      <3>7. Below(Min(Above)) = Upto
        <4> DEFINE a == Min(Above)
        <4>1. a \in Nat /\ k \in Nat /\ a > k /\ \A j \in S : j > k => a <= j
          BY <1>1, <3>6
        <4> HIDE DEF a
        <4>2. \A j \in S : (j < a) <=> (j < k \/ j = k)
          BY <1>1, <4>1
        <4> QED
          BY <4>2 DEF a
      <3> QED
        BY <3>4, <3>6, <3>7
    <2> QED
      BY <2>3, <2>4, <2>5
  <1>3. \A n \in 1..Cardinality(S) : \E k \in S : Cardinality(Below(k)) = n - 1
    BY <1>2
  <1> QED
    BY <1>3 DEF InOrder

--------------------------------------------------------------------------------
(* What the tabs share.                                                     *)

\* A tab's state is a record of these fields.
ListFields == {"shown", "from", "row", "page", "bucket"}
ImageFields == ListFields \cup
  {"key", "keyFrom", "file", "paths", "local", "found", "duplicate", "delete", "download",
   "action", "asked"}
FaceTabFields == ListFields \cup
  {"listed", "detected", "original", "focus", "paths", "chosen", "found", "action", "delete",
   "asked"}
StorageFields == ListFields \cup
  {"action", "detail", "upload", "paths", "confirm", "download", "delete", "asked"}
VectorFields == {"index", "shown", "from", "row", "detail", "dropdown", "action", "asked",
                 "moved"}

IsTab(t, fields) == t = [f \in fields |-> t[f]]

\* A picture whose fate nothing made doubtful is in one bucket, and was put there
\* under a key handed out for it.
StoreInv ==
  /\ stored \in [Buckets -> SUBSET (1..MaxKey)]
  /\ vectors \in [Indexes -> SUBSET Nat]
  /\ nextKey \in Nat \ {0}
  /\ \A k \in saved : k \in Nat /\ k > 0 /\ k < nextKey
  /\ \A b \in Buckets : \A k \in stored[b] \ torn :
       k < nextKey /\ \A c \in Buckets \ {b} : k \notin stored[c]
  /\ FacesPaired

LEMMA StoreInitInv == StoreInit => StoreInv
  <1> SUFFICES ASSUME StoreInit PROVE StoreInv
    OBVIOUS
  <1>1. /\ stored = [b \in Buckets |-> IF b = "faces" THEN {1} ELSE {}]
        /\ vectors = [i \in Indexes |-> IF i = "face" THEN {1} ELSE 1..MaxKey]
        /\ nextKey = 2 /\ saved = {1} /\ torn = {}
    BY DEF StoreInit
  <1>2. /\ 1 \in 1..MaxKey /\ MaxKey \in Nat
        /\ "faces" \in Buckets /\ "face" \in Indexes
    BY ToolAssumption
  <1>3. FacesPaired
    BY <1>1, <1>2 DEF FacesPaired
  <1>4. \A b \in Buckets : stored[b] = IF b = "faces" THEN {1} ELSE {}
    BY <1>1
  <1>5. stored \in [Buckets -> SUBSET (1..MaxKey)] /\ vectors \in [Indexes -> SUBSET Nat]
    BY <1>1, <1>2
  <1> QED
    BY <1>1, <1>3, <1>4, <1>5 DEF StoreInv

\* Keys that stay out of all buckets but one stay so: new pictures get new keys.
Homed(k, b) == b # "none" /\ k \in saved \ torn => \A c \in Buckets \ {b} : k \notin stored[c]

LEMMA HomedKept ==
  ASSUME saved' = saved, torn \subseteq torn',
         \A c \in Buckets : stored'[c] \cap (saved \ torn') \subseteq stored[c],
         NEW k, NEW b, Homed(k, b)
  PROVE  Homed(k, b)'
  BY DEF Homed

LEMMA ListedHomed ==
  ASSUME StoreInv, NEW b \in Buckets, NEW k \in stored[b]
  PROVE  Homed(k, b)
  BY DEF Homed, StoreInv

\* A list request changes the list only, and what it lists is in the bucket.
LEMMA PageReloaded ==
  ASSUME NEW fields, ListFields \subseteq fields, NEW t, IsTab(t, fields),
         NEW store \in [Buckets -> SUBSET (1..MaxKey)], t.bucket \in Buckets,
         NEW u \in Reloaded(t, store)
  PROVE  /\ IsTab(u, fields)
         /\ \A f \in fields \ {"shown", "from", "row", "page"} : u[f] = t[f]
         /\ \/ u.shown = t.shown /\ u.from = t.from
            \/ u.from = t.bucket /\ \A n \in DOMAIN u.shown : u.shown[n] \in store[t.bucket]
  <1> DEFINE keys == Page(t, store[t.bucket])
             more == Len(keys) > PageSize
             rows == IF more THEN SubSeq(keys, 1, PageSize) ELSE keys
             row == IF rows = <<>> THEN 0 ELSE 1
             page == Answered(t.page, more, IF more THEN keys[PageSize + 1] ELSE 0)
  <1>1. \A n \in DOMAIN rows : rows[n] \in store[t.bucket]
    <2> DEFINE rest == {k \in store[t.bucket] : t.page.marker = 0 \/ k >= t.page.marker}
    <2>1. rest \in SUBSET Nat /\ IsFiniteSet(rest) /\ rest \subseteq store[t.bucket]
      <3>1. IsFiniteSet(1..MaxKey) /\ 1..MaxKey \subseteq Nat
        BY ToolAssumption, FS_Interval
      <3>2. rest \subseteq store[t.bucket] /\ store[t.bucket] \subseteq 1..MaxKey
        OBVIOUS
      <3> HIDE DEF rest
      <3>3. IsFiniteSet(rest)
        BY <3>1, <3>2, FS_Subset
      <3> QED
        BY <3>1, <3>2, <3>3
    <2>2. keys \in [1..Cardinality(rest) -> rest] /\ Cardinality(rest) \in Nat
      BY <2>1, OrderedKeys, FS_CardinalityType DEF Page
    <2> HIDE DEF rest, keys
    <2>3. keys \in Seq(rest)
      BY <2>2
    <2>4. CASE more
      <3>1. PageSize \in Nat /\ PageSize >= 1 /\ PageSize <= Len(keys) /\ Len(keys) \in Nat
        BY <2>3, <2>4, ToolAssumption
      <3>2. \A n \in DOMAIN SubSeq(keys, 1, PageSize) : SubSeq(keys, 1, PageSize)[n] \in rest
        BY <2>3, <3>1
      <3> QED
        BY <2>1, <2>4, <3>2
    <2>5. CASE ~more
      BY <2>1, <2>2, <2>5
    <2> QED
      BY <2>4, <2>5
  <1>2. u = t \/ u = [t EXCEPT !.shown = rows, !.from = t.bucket, !.row = row, !.page = page]
    BY DEF Reloaded
  <1> HIDE DEF keys, more, rows, row, page
  <1>3. CASE u = t
    BY <1>3
  <1>4. CASE u = [t EXCEPT !.shown = rows, !.from = t.bucket, !.row = row, !.page = page]
    BY <1>1, <1>4 DEF IsTab, ListFields
  <1> QED
    BY <1>2, <1>3, <1>4

\* So does turning a page.
LEMMA PageTurned ==
  ASSUME StoreInv, NEW fields, ListFields \subseteq fields, NEW t, IsTab(t, fields),
         t.bucket \in Buckets, NEW u \in Turned(t)
  PROVE  /\ IsTab(u, fields)
         /\ \A f \in fields \ {"shown", "from", "row", "page"} : u[f] = t[f]
         /\ \/ u.shown = t.shown /\ u.from = t.from
            \/ u.from = t.bucket /\ \A n \in DOMAIN u.shown : u.shown[n] \in stored[t.bucket]
  <1>1. CASE u = t
    BY <1>1
  <1>2. ASSUME NEW p, u \in Reloaded([t EXCEPT !.page = p], stored)
        PROVE  /\ IsTab(u, fields)
               /\ \A f \in fields \ {"shown", "from", "row", "page"} : u[f] = t[f]
               /\ \/ u.shown = t.shown /\ u.from = t.from
                  \/ u.from = t.bucket /\ \A n \in DOMAIN u.shown : u.shown[n] \in stored[t.bucket]
    <2> DEFINE v == [t EXCEPT !.page = p]
    <2>1. /\ IsTab(v, fields) /\ v.bucket = t.bucket /\ v.shown = t.shown /\ v.from = t.from
          /\ \A f \in fields \ {"page"} : v[f] = t[f]
      BY DEF IsTab, ListFields
    <2> HIDE DEF v
    <2>2. stored \in [Buckets -> SUBSET (1..MaxKey)] /\ u \in Reloaded(v, stored)
      BY <1>2 DEF StoreInv, v
    <2>3. /\ IsTab(u, fields)
          /\ \A f \in fields \ {"shown", "from", "row", "page"} : u[f] = v[f]
          /\ \/ u.shown = v.shown /\ u.from = v.from
             \/ u.from = v.bucket /\ \A n \in DOMAIN u.shown : u.shown[n] \in stored[v.bucket]
      BY <2>1, <2>2, PageReloaded
    <2> QED
      BY <2>1, <2>3
  <1>3. u = t \/ \E p : u \in Reloaded([t EXCEPT !.page = p], stored)
    BY DEF Turned
  <1> QED
    BY <1>1, <1>2, <1>3

--------------------------------------------------------------------------------
(* The image tab.                                                           *)

\* Nothing over the delete popup changes what it promises.
PromiseOK(t) ==
  t.asked # Nobody /\ t.delete # 0 =>
    /\ t.found = {} /\ t.local = "closed"
    /\ t.key = 0 \/ t.asked = <<t.bucket, t.key>>

ImageInv ==
  /\ IsTab(image, ImageFields)
  /\ image.bucket \in Buckets /\ image.duplicate \in Buckets \cup {"none"}
  /\ \A n \in DOMAIN image.shown : Homed(image.shown[n], image.from)
  /\ Homed(image.key, image.keyFrom)
  /\ PromiseOK(image)

\* The fields are what they were, or of a list just asked for, or of a row.
ImageFollows ==
  /\ IsTab(image', ImageFields)
  /\ image'.bucket \in Buckets /\ image'.duplicate \in Buckets \cup {"none"}
  /\ \/ image'.shown = image.shown /\ image'.from = image.from
     \/ /\ image'.from \in Buckets
        /\ \A n \in DOMAIN image'.shown : image'.shown[n] \in stored[image'.from]
  /\ \/ image'.key = image.key /\ image'.keyFrom = image.keyFrom
     \/ image'.key = 0 \/ image'.keyFrom = "none"
     \/ /\ image'.keyFrom = image.from
        /\ \E n \in DOMAIN image.shown : image'.key = image.shown[n]

LEMMA ImageGoesOn ==
  ASSUME StoreInv, ImageInv, StoreInv', ImageFollows, PromiseOK(image)',
         saved' = saved, torn \subseteq torn',
         \A c \in Buckets : stored'[c] \cap (saved \ torn') \subseteq stored[c]
  PROVE  ImageInv'
  <1>1. \A k, b : Homed(k, b) => Homed(k, b)'
    BY HomedKept
  <1>2. \A b \in Buckets : \A k \in stored[b] : Homed(k, b)
    BY ListedHomed
  <1>3. \A n \in DOMAIN image'.shown : Homed(image'.shown[n], image'.from)
    BY <1>2 DEF ImageInv, ImageFollows
  <1>4. Homed(image'.key, image'.keyFrom)
    <2>1. \A b : Homed(0, b) /\ \A k : Homed(k, "none")
      BY DEF Homed, StoreInv
    <2> QED
      BY <2>1 DEF ImageInv, ImageFollows
  <1> QED
    BY <1>1, <1>3, <1>4 DEF ImageInv, ImageFollows, Homed

\* What changes nothing in the store keeps what holds of it.
LEMMA NothingRemoved ==
  ASSUME StoreInv, Unchanged
  PROVE  StoreInv' /\ DeletesShown'
  BY DEF StoreInv, FacesPaired, Unchanged, DeletesShown, NoRemoval

LEMMA ImageQuiet ==
  ASSUME StoreInv, ImageInv, Unchanged, ImageFollows, PromiseOK(image)'
  PROVE  StoreInv' /\ ImageInv' /\ DeletesShown'
  <1>1. StoreInv' /\ DeletesShown'
    BY NothingRemoved
  <1> QED
    BY <1>1, ImageGoesOn DEF Unchanged

\* A new picture is nobody's yet, or a face with its vector.
LEMMA PictureStored ==
  ASSUME StoreInv, NEW b \in Buckets, Store(b), torn' = torn, removed' = NoRemoval,
         \/ vectors' = vectors /\ saved' = saved
         \/ /\ vectors' = [vectors EXCEPT !["face"] = @ \cup {nextKey}]
            /\ saved' = saved \cup {nextKey}
  PROVE  /\ StoreInv' /\ DeletesShown'
         /\ \A c \in Buckets : stored'[c] \cap saved \subseteq stored[c]
  <1>1. /\ nextKey' = nextKey + 1 /\ nextKey \in 1..MaxKey
        /\ \A c \in Buckets : stored'[c] = IF c = b THEN stored[c] \cup {nextKey} ELSE stored[c]
        /\ stored' \in [Buckets -> SUBSET (1..MaxKey)]
    <2>1. stored \in [Buckets -> SUBSET (1..MaxKey)] /\ nextKey \in Nat /\ nextKey > 0
      BY DEF StoreInv
    <2>2. nextKey \in 1..MaxKey /\ nextKey' = nextKey + 1
      BY <2>1, ToolAssumption DEF Store
    <2>3. stored' = [stored EXCEPT ![b] = @ \cup {nextKey}]
      BY DEF Store
    <2> QED
      BY <2>1, <2>2, <2>3
  <1>2. /\ \A k \in saved' : k \in Nat /\ k > 0 /\ k < nextKey'
        /\ \A k \in saved : k # nextKey
    BY <1>1 DEF StoreInv
  <1>3. ASSUME NEW c \in Buckets, NEW k \in stored'[c] \ torn
        PROVE  k < nextKey' /\ \A d \in Buckets \ {c} : k \notin stored'[d]
    <2>1. CASE k = nextKey
      <3>1. \A d \in Buckets : nextKey \notin stored[d]
        BY <2>1 DEF StoreInv
      <3> QED
        BY <1>1, <2>1, <3>1
    <2>2. CASE k # nextKey
      <3>1. k \in stored[c] \ torn
        BY <1>1, <2>2
      <3>2. k < nextKey /\ k \in Nat /\ nextKey \in Nat
        BY <3>1 DEF StoreInv
      <3> QED
        BY <1>1, <2>2, <3>1, <3>2 DEF StoreInv
    <2> QED
      BY <2>1, <2>2
  <1>4. FacesPaired'
    <2>1. ASSUME NEW k \in saved \ torn
          PROVE  /\ (\E c \in Buckets : k \in stored'[c]) <=> (\E c \in Buckets : k \in stored[c])
                 /\ k \in vectors'["face"] <=> k \in vectors["face"]
      BY <1>1, <1>2 DEF StoreInv
    <2>2. saved' # saved => nextKey \in vectors'["face"] /\ nextKey \in stored'[b]
      BY <1>1, ToolAssumption DEF StoreInv
    <2>3. ASSUME NEW k \in saved' \ torn'
          PROVE  (\E c \in Buckets : k \in stored'[c]) <=> k \in vectors'["face"]
      <3>1. CASE k \in saved
        BY <2>1, <2>3, <3>1 DEF FacesPaired, StoreInv
      <3>2. CASE k \notin saved
        BY <2>2, <2>3, <3>2
      <3> QED
        BY <3>1, <3>2
    <2> QED
      BY <2>3 DEF FacesPaired
  <1>5. vectors' \in [Indexes -> SUBSET Nat]
    BY DEF StoreInv
  <1>6. DeletesShown'
    BY DEF DeletesShown, NoRemoval
  <1> QED
    BY <1>1, <1>2, <1>3, <1>4, <1>5, <1>6 DEF StoreInv

\* A picture is deleted with its vector, or becomes doubtful.
LEMMA PictureDeleted ==
  ASSUME StoreInv, NEW b \in Buckets, NEW k,
         stored' = [stored EXCEPT ![b] = @ \ {k}],
         vectors' \in {vectors, [vectors EXCEPT !["face"] = @ \ {k}]},
         UNCHANGED <<nextKey, saved>>,
         torn' = torn \/ torn' = torn \cup {k},
         k \notin torn' => /\ vectors'["face"] = vectors["face"] \ {k}
                           /\ Homed(k, b)
  PROVE  /\ StoreInv'
         /\ \A c \in Buckets : stored'[c] \subseteq stored[c]
  <1>1. /\ \A c \in Buckets : stored'[c] = IF c = b THEN stored[c] \ {k} ELSE stored[c]
        /\ stored' \in [Buckets -> SUBSET (1..MaxKey)]
    BY DEF StoreInv
  <1>2. vectors' \in [Indexes -> SUBSET Nat]
    BY DEF StoreInv
  <1>3. \A j : j # k => (j \in vectors'["face"] <=> j \in vectors["face"])
    BY ToolAssumption DEF StoreInv
  <1>4. FacesPaired'
    <2>1. ASSUME NEW j \in saved \ torn', j # k
          PROVE  (\E c \in Buckets : j \in stored'[c]) <=> j \in vectors'["face"]
      BY <1>1, <1>3, <2>1 DEF StoreInv, FacesPaired
    <2>2. ASSUME k \in saved \ torn'
          PROVE  (\E c \in Buckets : k \in stored'[c]) <=> k \in vectors'["face"]
      <3>1. torn' = torn
        BY <2>2
      <3>2. b # "none"
        BY ToolAssumption
      <3> QED
        BY <1>1, <2>2, <3>1, <3>2 DEF Homed
    <2> QED
      BY <2>1, <2>2 DEF FacesPaired
  <1> QED
    BY <1>1, <1>2, <1>4 DEF StoreInv

\* One image action.
LEMMA ImageUploads ==
  ASSUME StoreInv, ImageInv, NEW t,
         \/ t = image
         \/ t = [image EXCEPT !.local = "closed", !.file = TRUE] /\ image.local # "closed",
         UploadImage(t)
  PROVE  StoreInv' /\ ImageInv' /\ DeletesShown'
  <1> USE DEF ListFields, ImageFields, IsTab
  <1>1. /\ IsTab(t, ImageFields) /\ t.bucket \in Buckets
        /\ t.bucket = image.bucket /\ t.shown = image.shown /\ t.from = image.from
        /\ t.key = image.key /\ t.keyFrom = image.keyFrom /\ t.duplicate \in Buckets \cup {"none"}
        /\ PromiseOK(t)
    BY DEF ImageInv, PromiseOK
  <1>2. /\ image' \in {t, [t EXCEPT !.duplicate = t.bucket], [t EXCEPT !.key = 0]}
        /\ \/ Unchanged
           \/ Store(t.bucket) /\ removed' = NoRemoval /\ UNCHANGED <<vectors, saved, torn>>
    BY DEF UploadImage
  <1>3. ImageFollows /\ PromiseOK(image)'
    BY <1>1, <1>2 DEF ImageFollows, PromiseOK
  <1>4. CASE Unchanged
    BY <1>3, <1>4, ImageQuiet
  <1>5. CASE Store(t.bucket) /\ removed' = NoRemoval /\ UNCHANGED <<vectors, saved, torn>>
    <2>1. /\ StoreInv' /\ DeletesShown'
          /\ \A c \in Buckets : stored'[c] \cap saved \subseteq stored[c]
      BY <1>1, <1>5, PictureStored
    <2> QED
      BY <1>3, <1>5, <2>1, ImageGoesOn
  <1> QED
    BY <1>2, <1>4, <1>5

LEMMA ImageDecided ==
  ASSUME StoreInv, ImageInv, EnterDuplicate
  PROVE  StoreInv' /\ ImageInv' /\ DeletesShown'
  <1> USE DEF ListFields, ImageFields, IsTab
  <1> DEFINE t == [image EXCEPT !.duplicate = "none"]
  <1>1. /\ IsTab(t, ImageFields) /\ t.bucket = image.bucket
        /\ t.shown = image.shown /\ t.from = image.from
        /\ t.key = image.key /\ t.keyFrom = image.keyFrom /\ t.duplicate = "none"
        /\ PromiseOK(t)
    BY DEF ImageInv, PromiseOK
  <1>2. /\ image' \in {t, [t EXCEPT !.key = 0]}
        /\ \/ Unchanged
           \/ Store(image.duplicate) /\ removed' = NoRemoval /\ UNCHANGED <<vectors, saved, torn>>
    BY DEF EnterDuplicate, UploadDecided
  <1>3. image.duplicate \in Buckets /\ image.bucket \in Buckets
    BY DEF EnterDuplicate, ImagePopup, ImageInv
  <1> HIDE DEF t
  <1>4. ImageFollows /\ PromiseOK(image)'
    BY <1>1, <1>2, <1>3 DEF ImageFollows, PromiseOK
  <1>5. CASE Unchanged
    BY <1>4, <1>5, ImageQuiet
  <1>6. CASE Store(image.duplicate) /\ removed' = NoRemoval /\ UNCHANGED <<vectors, saved, torn>>
    <2>1. /\ StoreInv' /\ DeletesShown'
          /\ \A c \in Buckets : stored'[c] \cap saved \subseteq stored[c]
      BY <1>3, <1>6, PictureStored
    <2> QED
      BY <1>4, <1>6, <2>1, ImageGoesOn
  <1> QED
    BY <1>2, <1>5, <1>6

LEMMA ImageDeletes ==
  ASSUME StoreInv, ImageInv, NEW t, NEW asked,
         \/ t = image /\ asked = Nobody
         \/ /\ t = [image EXCEPT !.delete = 0, !.asked = Nobody]
            /\ asked = image.asked /\ image.delete # 0,
         DeleteImage(t, asked)
  PROVE  StoreInv' /\ ImageInv' /\ DeletesShown'
  <1> USE DEF ListFields, ImageFields, IsTab
  <1>1. /\ IsTab(t, ImageFields) /\ t.bucket \in Buckets
        /\ t.bucket = image.bucket /\ t.shown = image.shown /\ t.from = image.from
        /\ t.key = image.key /\ t.keyFrom = image.keyFrom /\ t.duplicate \in Buckets \cup {"none"}
        /\ PromiseOK(t)
        /\ t.key = 0 \/ asked = Nobody \/ asked = <<t.bucket, t.key>>
    BY DEF ImageInv, PromiseOK
  <1>2. CASE image' = t /\ Unchanged
    BY <1>1, <1>2, ImageQuiet DEF ImageFollows, PromiseOK
  <1>3. ASSUME t.key # 0, stored' = [stored EXCEPT ![t.bucket] = @ \ {t.key}],
               vectors' \in {vectors, [vectors EXCEPT !["face"] = @ \ {t.key}]},
               torn' = IF vectors'["face"] # vectors["face"] \ {t.key} \/ t.keyFrom # t.bucket
                       THEN torn \cup {t.key} ELSE torn,
               image' \in Reloaded(t, stored'),
               removed' = Removal(asked, <<t.bucket, t.key>>),
               UNCHANGED <<nextKey, saved>>
        PROVE  StoreInv' /\ ImageInv' /\ DeletesShown'
    <2>1. Homed(t.key, t.keyFrom)
      BY <1>1 DEF ImageInv
    <2>2. StoreInv' /\ \A c \in Buckets : stored'[c] \subseteq stored[c]
      <3>1. t.key \notin torn' => /\ vectors'["face"] = vectors["face"] \ {t.key}
                                   /\ t.keyFrom = t.bucket
        BY <1>3
      <3> QED
        BY <1>1, <1>3, <2>1, <3>1, PictureDeleted
    <2>3. /\ IsTab(image', ImageFields)
          /\ \A f \in ImageFields \ {"shown", "from", "row", "page"} : image'[f] = t[f]
          /\ \/ image'.shown = t.shown /\ image'.from = t.from
             \/ /\ image'.from = t.bucket
                /\ \A n \in DOMAIN image'.shown : image'.shown[n] \in stored'[t.bucket]
      <3>1. stored' \in [Buckets -> SUBSET (1..MaxKey)] /\ ListFields \subseteq ImageFields
        BY <2>2 DEF StoreInv
      <3> HIDE DEF ListFields, ImageFields, IsTab
      <3> PICK u, store : u = image' /\ store = stored'
        OBVIOUS
      <3>2. IsTab(t, ImageFields) /\ t.bucket \in Buckets /\ u \in Reloaded(t, store)
        BY <1>1, <1>3
      <3> QED
        BY <3>1, <3>2, PageReloaded
    <2>4. /\ image'.bucket = t.bucket /\ image'.duplicate = t.duplicate /\ image'.key = t.key
          /\ image'.keyFrom = t.keyFrom /\ image'.asked = t.asked /\ image'.delete = t.delete
          /\ image'.found = t.found /\ image'.local = t.local
      BY <2>3
    <2>5. ImageFollows /\ PromiseOK(image)'
      BY <1>1, <2>2, <2>3, <2>4 DEF ImageFollows, PromiseOK
    <2>6. DeletesShown'
      BY <1>1, <1>3 DEF DeletesShown, Removal
    <2> QED
      BY <1>3, <2>2, <2>5, <2>6, ImageGoesOn
  <1> QED
    BY <1>2, <1>3 DEF DeleteImage

\* A list request of the image tab.
LEMMA ImageLists ==
  ASSUME StoreInv, ImageInv, ListKey
  PROVE  StoreInv' /\ ImageInv' /\ DeletesShown'
  <1>1. /\ IsTab(image, ImageFields) /\ image.bucket \in Buckets
        /\ stored \in [Buckets -> SUBSET (1..MaxKey)] /\ ListFields \subseteq ImageFields
    BY DEF ImageInv, StoreInv, ImageFields
  <1> DEFINE t == [image EXCEPT !.page = FirstPage]
  <1>2. /\ IsTab(t, ImageFields) /\ t.bucket = image.bucket
        /\ t.shown = image.shown /\ t.from = image.from
        /\ \A f \in ImageFields \ {"page"} : t[f] = image[f]
    BY <1>1 DEF IsTab, ListFields, ImageFields
  <1> HIDE DEF t
  <1>3. /\ IsTab(image', ImageFields)
        /\ \A f \in ImageFields \ {"shown", "from", "row", "page"} : image'[f] = image[f]
        /\ \/ image'.shown = image.shown /\ image'.from = image.from
           \/ /\ image'.from = image.bucket
              /\ \A n \in DOMAIN image'.shown : image'.shown[n] \in stored[image.bucket]
    <2>1. CASE image' \in Reloaded(image, stored)
      BY <1>1, <2>1, PageReloaded
    <2>2. CASE image' \in Turned(image)
      BY <1>1, <2>2, PageTurned
    <2>3. CASE image' \in Reloaded(t, stored)
      <3>1. /\ IsTab(image', ImageFields)
            /\ \A f \in ImageFields \ {"shown", "from", "row", "page"} : image'[f] = t[f]
            /\ \/ image'.shown = t.shown /\ image'.from = t.from
               \/ /\ image'.from = t.bucket
                  /\ \A n \in DOMAIN image'.shown : image'.shown[n] \in stored[t.bucket]
        BY <1>1, <1>2, <2>3, PageReloaded
      <3> QED
        BY <1>2, <3>1
    <2> QED
      BY <2>1, <2>2, <2>3 DEF ListKey, t
  <1>4. /\ image'.bucket = image.bucket /\ image'.duplicate = image.duplicate
        /\ image'.key = image.key /\ image'.keyFrom = image.keyFrom
        /\ image'.asked = image.asked /\ image'.delete = image.delete
        /\ image'.found = image.found /\ image'.local = image.local
    BY <1>3 DEF ImageFields, ListFields
  <1>5. ImageFollows /\ PromiseOK(image)'
    BY <1>1, <1>3, <1>4 DEF ImageFollows, PromiseOK, ImageInv
  <1> QED
    BY <1>5, ImageQuiet DEF ListKey

LEMMA ImageStep ==
  ASSUME StoreInv, ImageInv, ImageNext
  PROVE  StoreInv' /\ ImageInv' /\ DeletesShown'
  <1>0. /\ IsTab(image, ImageFields) /\ PromiseOK(image)
        /\ image.bucket \in Buckets /\ image.duplicate \in Buckets \cup {"none"}
    BY DEF ImageInv
  <1> USE DEF ListFields, ImageFields, IsTab
  <1>1. CASE EnterFound
    BY <1>0, <1>1, ImageQuiet DEF EnterFound, ImagePopup, ImageFollows, PromiseOK
  <1>2. CASE EnterLocal
    <2> DEFINE t == [image EXCEPT !.local = "closed", !.file = TRUE]
    <2>1. image.local # "closed"
      BY <1>2 DEF EnterLocal, ImagePopup
    <2>2. CASE UploadImage(t)
      BY <2>1, <2>2, ImageUploads
    <2>3. CASE Unchanged /\ \E k : image' \in {t, [t EXCEPT !.found = {k}]}
      BY <1>0, <2>1, <2>3, ImageQuiet DEF ImageFollows, PromiseOK
    <2> QED
      BY <1>2, <2>2, <2>3 DEF EnterLocal
  <1>3. CASE EnterDuplicate
    BY <1>3, ImageDecided
  <1>4. CASE EnterDelete
    <2>1. image.delete # 0
      BY <1>4 DEF EnterDelete, ImagePopup
    <2> HIDE DEF ListFields, ImageFields, IsTab
    <2> QED
      BY <1>4, <2>1, ImageDeletes DEF EnterDelete
  <1>5. CASE EnterDownload
    BY <1>0, <1>5, ImageQuiet DEF EnterDownload, ImageFollows, PromiseOK
  <1>6. CASE EnterAction
    <2> DEFINE t == [image EXCEPT !.action = FALSE]
               k == image.shown[image.row]
    <2>1. image.found = {} /\ image.local = "closed" /\ image.delete = 0
      BY <1>6 DEF EnterAction, ImagePopup
    <2>2. CASE image' = t
      BY <1>0, <1>6, <2>2, ImageQuiet DEF EnterAction, ImageFollows, PromiseOK
    <2>3. CASE /\ image.row \in DOMAIN image.shown
               /\ image' \in {Picked(t, k), [Picked(t, k) EXCEPT !.download = k],
                              [Picked(t, k) EXCEPT !.delete = k, !.asked = Promised(t, k)]}
      <3>1. /\ IsTab(t, ImageFields) /\ t.bucket = image.bucket /\ t.from = image.from
            /\ t.shown = image.shown /\ t.duplicate = image.duplicate /\ t.found = {}
            /\ t.local = "closed" /\ t.delete = 0
        BY <1>0, <2>1
      <3> HIDE DEF t
      <3>2. /\ IsTab(image', ImageFields) /\ image'.bucket = t.bucket
            /\ image'.shown = t.shown /\ image'.from = t.from /\ image'.duplicate = t.duplicate
            /\ image'.key = k /\ image'.keyFrom = t.from
            /\ image'.found = {} /\ image'.local = "closed"
            /\ image'.delete = 0 \/ image'.asked = Promised(t, k)
        BY <2>3, <3>1 DEF Picked
      <3>3. ImageFollows
        BY <1>0, <2>3, <3>1, <3>2 DEF ImageFollows
      <3>4. PromiseOK(image)'
        BY <3>2 DEF PromiseOK, Promised
      <3> QED
        BY <1>6, <3>3, <3>4, ImageQuiet DEF EnterAction
    <2> QED
      BY <1>6, <2>2, <2>3 DEF EnterAction, Rows
  <1>7. CASE EnterPaths
    <2>1. image.delete = 0
      BY <1>7 DEF EnterPaths, ImagePopup
    <2> QED
      BY <1>0, <1>7, <2>1, ImageQuiet DEF EnterPaths, ImageFollows, PromiseOK
  <1>8. CASE EnterList
    <2>1. image.delete = 0
      BY <1>8 DEF EnterList, ImagePopup
    <2> QED
      BY <1>0, <1>8, <2>1, ImageQuiet DEF EnterList, ImageFollows, PromiseOK
  <1>9. CASE EscImage
    BY <1>0, <1>9, ImageQuiet DEF EscImage, ImagePopup, ImageFollows, PromiseOK
  <1>10. CASE TurnForm
    <2>1. image.local # "closed"
      BY <1>10 DEF TurnForm, ImagePopup
    <2> QED
      BY <1>0, <1>10, <2>1, ImageQuiet DEF TurnForm, ImageFollows, PromiseOK
  <1>11. CASE SelectRow
    BY <1>0, <1>11, ImageQuiet DEF SelectRow, ImageFollows, PromiseOK
  <1>12. CASE UploadKey
    BY <1>12, ImageUploads DEF UploadKey
  <1>13. CASE DeleteKey
    BY <1>13, ImageDeletes DEF DeleteKey
  <1>14. CASE ListKey
    BY <1>14, ImageLists
  <1>15. CASE TypePath
    BY <1>0, <1>15, ImageQuiet DEF TypePath, ImageFollows, PromiseOK
  <1>16. CASE Command
    <2>1. ASSUME NEW b \in Buckets, image' = [image EXCEPT !.bucket = b, !.asked = Nobody]
          PROVE  ImageFollows /\ PromiseOK(image)'
      BY <1>0, <2>1 DEF ImageFollows, PromiseOK
    <2>2. ASSUME NEW k, image' = [image EXCEPT !.key = k, !.keyFrom = "none", !.asked = Nobody]
          PROVE  ImageFollows /\ PromiseOK(image)'
      BY <1>0, <2>2 DEF ImageFollows, PromiseOK
    <2> QED
      BY <1>16, <2>1, <2>2, ImageQuiet DEF Command
  <1>17. CASE LeaveTab
    BY <1>0, <1>17, ImageQuiet DEF LeaveTab, ImageFollows, PromiseOK
  <1> QED
    BY <1>1, <1>2, <1>3, <1>4, <1>5, <1>6, <1>7, <1>8, <1>9, <1>10, <1>11, <1>12, <1>13, <1>14,
       <1>15, <1>16, <1>17 DEF ImageNext

--------------------------------------------------------------------------------
(* The face tab.                                                            *)

FaceInv ==
  /\ IsTab(face, FaceTabFields) /\ face.bucket \in Buckets
  /\ face.asked # Nobody /\ face.delete # 0 => face.asked = <<face.bucket, face.delete>>

\* What stays of a face tab through a list request.
FaceStays(u, t) ==
  /\ IsTab(u, FaceTabFields)
  /\ u.bucket = t.bucket /\ u.asked = t.asked /\ u.delete = t.delete

LEMMA FacesListed ==
  ASSUME NEW t, IsTab(t, FaceTabFields), t.bucket \in Buckets,
         NEW store \in [Buckets -> SUBSET (1..MaxKey)], NEW u \in Listed(t, store)
  PROVE  FaceStays(u, t)
  <1>1. PICK v \in Reloaded(t, store) : u = v \/ u = [v EXCEPT !.listed = TRUE]
    BY DEF Listed
  <1>2. ListFields \subseteq FaceTabFields
    BY DEF FaceTabFields
  <1>3. /\ IsTab(v, FaceTabFields)
        /\ \A f \in FaceTabFields \ {"shown", "from", "row", "page"} : v[f] = t[f]
    BY <1>1, <1>2, PageReloaded
  <1> QED
    BY <1>1, <1>3 DEF FaceStays, IsTab, FaceTabFields, ListFields

LEMMA FaceStep ==
  ASSUME StoreInv, FaceInv, FaceNext
  PROVE  StoreInv' /\ FaceInv' /\ DeletesShown'
  <1>0. /\ IsTab(face, FaceTabFields) /\ face.bucket \in Buckets
        /\ face.asked # Nobody /\ face.delete # 0 => face.asked = <<face.bucket, face.delete>>
        /\ stored \in [Buckets -> SUBSET (1..MaxKey)]
    BY DEF FaceInv, StoreInv
  <1> USE DEF ListFields, FaceTabFields, IsTab
  <1>1. CASE EnterChosen
    <2> DEFINE t == [face EXCEPT !.chosen = FALSE]
    <2>1. FaceInv'
      BY <1>0, <1>1 DEF EnterChosen, SaveFace, FaceInv
    <2>2. CASE Unchanged
      BY <2>1, <2>2, NothingRemoved
    <2>3. CASE Store(face.bucket) /\ torn' = torn /\ removed' = NoRemoval
               /\ \/ vectors' = vectors /\ saved' = saved
                  \/ /\ vectors' = [vectors EXCEPT !["face"] = @ \cup {nextKey}]
                     /\ saved' = saved \cup {nextKey}
      BY <1>0, <2>1, <2>3, PictureStored
    <2>4. CASE /\ nextKey' = nextKey + 1 /\ removed' = NoRemoval
               /\ UNCHANGED <<stored, vectors, saved, torn>>
      BY <2>1, <2>4 DEF StoreInv, FacesPaired, DeletesShown, NoRemoval
    <2>5. t.bucket = face.bucket
      BY <1>0
    <2> QED
      BY <1>1, <2>2, <2>3, <2>4, <2>5 DEF EnterChosen, SaveFace
  <1>2. CASE EnterSavedAction
    BY <1>0, <1>2, NothingRemoved DEF EnterSavedAction, FaceInv, Promised
  <1>3. CASE EnterSavedDelete
    <2> DEFINE t == [face EXCEPT !.delete = 0, !.asked = Nobody]
    <2>1. /\ IsTab(t, FaceTabFields) /\ t.bucket = face.bucket /\ t.asked = Nobody /\ t.delete = 0
          /\ face.delete # 0
      BY <1>0, <1>3 DEF EnterSavedDelete, FaceEnter
    <2> PICK k, asked, b : k = face.delete /\ asked = face.asked /\ b = face.bucket
      OBVIOUS
    <2>2. DeleteFace(t, k, asked)
      BY <1>3 DEF EnterSavedDelete
    <2> HIDE DEF t
    <2>3. CASE face' = t /\ Unchanged
      BY <1>0, <2>1, <2>3, NothingRemoved DEF FaceInv
    <2>4. ASSUME stored' = [stored EXCEPT ![t.bucket] = @ \ {k}],
                 vectors' \in {vectors, [vectors EXCEPT !["face"] = @ \ {k}]},
                 torn' = IF vectors'["face"] # vectors["face"] \ {k} \/ k \notin stored[t.bucket]
                         THEN torn \cup {k} ELSE torn,
                 face' \in Listed(t, stored'),
                 removed' = Removal(asked, <<t.bucket, k>>),
                 UNCHANGED <<nextKey, saved>>
          PROVE  StoreInv' /\ FaceInv' /\ DeletesShown'
      <3>1. StoreInv'
        <4>1. k \notin torn' => vectors'["face"] = vectors["face"] \ {k} /\ Homed(k, b)
          BY <1>0, <2>1, <2>4, ListedHomed
        <4> QED
          BY <1>0, <2>1, <2>4, <4>1, PictureDeleted
      <3>2. FaceStays(face', t)
        <4> PICK u, store : u = face' /\ store = stored'
          OBVIOUS
        <4>1. store \in [Buckets -> SUBSET (1..MaxKey)] /\ u \in Listed(t, store)
          BY <2>4, <3>1 DEF StoreInv
        <4> HIDE DEF ListFields, FaceTabFields, IsTab
        <4> QED
          BY <1>0, <2>1, <4>1, FacesListed
      <3>3. DeletesShown'
        BY <1>0, <2>1, <2>4 DEF DeletesShown, Removal
      <3> QED
        BY <1>0, <2>1, <3>1, <3>2, <3>3 DEF FaceInv, FaceStays
    <2> QED
      BY <2>2, <2>3, <2>4 DEF DeleteFace
  <1>4. CASE EnterFace
    BY <1>0, <1>4, NothingRemoved DEF EnterFace, FaceInv
  <1>5. CASE EscFace
    BY <1>0, <1>5, NothingRemoved DEF EscFace, FaceInv
  <1>6. CASE Detect
    <2>1. FaceInv'
      BY <1>0, <1>6 DEF Detect, FaceInv
    <2>2. CASE Unchanged
      BY <2>1, <2>2, NothingRemoved
    <2>3. ASSUME NEW b, Store(b), removed' = NoRemoval, UNCHANGED <<vectors, saved, torn>>
          PROVE  StoreInv' /\ DeletesShown'
      <3>1. CASE b \in Buckets
        BY <2>3, <3>1, PictureStored
      <3>2. CASE b \notin Buckets
        <4>1. stored' = stored /\ nextKey' = nextKey + 1
          BY <1>0, <2>3, <3>2 DEF Store
        <4> QED
          BY <2>3, <4>1 DEF StoreInv, FacesPaired, DeletesShown, NoRemoval
      <3> QED
        BY <3>1, <3>2
    <2>4. CASE /\ nextKey' = nextKey + 1 /\ removed' = NoRemoval
               /\ UNCHANGED <<stored, vectors, saved, torn>>
      BY <2>1, <2>4 DEF StoreInv, FacesPaired, DeletesShown, NoRemoval
    <2> QED
      BY <1>6, <2>1, <2>2, <2>3, <2>4 DEF Detect
  <1>7. CASE ListFacesKey
    <2> DEFINE t == [face EXCEPT !.page = FirstPage]
    <2>1. FaceStays(t, face) /\ t.bucket \in Buckets
      BY <1>0 DEF FaceStays
    <2> HIDE DEF t, ListFields, FaceTabFields, IsTab
    <2>2. ASSUME face' \in Listed(face, stored)
          PROVE  FaceStays(face', face)
      BY <1>0, <2>2, FacesListed
    <2>3. ASSUME face' \in Listed(t, stored)
          PROVE  FaceStays(face', face)
      BY <1>0, <2>1, <2>3, FacesListed DEF FaceStays
    <2>4. ASSUME face' \in Turned(face)
          PROVE  FaceStays(face', face)
      <3>1. ListFields \subseteq FaceTabFields
        BY DEF FaceTabFields
      <3>2. /\ IsTab(face', FaceTabFields)
            /\ \A f \in FaceTabFields \ {"shown", "from", "row", "page"} : face'[f] = face[f]
        BY <1>0, <2>4, <3>1, PageTurned
      <3> QED
        BY <3>2 DEF FaceStays, FaceTabFields, ListFields
    <2>5. FaceStays(face', face)
      BY <1>7, <2>2, <2>3, <2>4 DEF ListFacesKey, FaceStays, t
    <2> QED
      BY <1>0, <1>7, <2>5, NothingRemoved DEF ListFacesKey, FaceInv, FaceStays
  <1>8. CASE SelectFace
    BY <1>0, <1>8, NothingRemoved DEF SelectFace, FaceInv
  <1>9. CASE TurnField
    BY <1>0, <1>9, NothingRemoved DEF TurnField, FaceInv
  <1>10. CASE TypeFace
    BY <1>0, <1>10, NothingRemoved DEF TypeFace, FaceInv
  <1> QED
    BY <1>1, <1>2, <1>3, <1>4, <1>5, <1>6, <1>7, <1>8, <1>9, <1>10 DEF FaceNext

--------------------------------------------------------------------------------
(* The storage tab.                                                         *)

StorageInv ==
  /\ IsTab(storage, StorageFields) /\ storage.bucket \in Buckets
  /\ storage.confirm \in 0..MaxKey
  /\ storage.asked # Nobody /\ storage.delete # 0 =>
        storage.asked = <<storage.bucket, storage.delete>>

StorageStays(u, t) ==
  /\ IsTab(u, StorageFields)
  /\ u.bucket = t.bucket /\ u.asked = t.asked /\ u.delete = t.delete
  /\ u.confirm = t.confirm

LEMMA ObjectsListed ==
  ASSUME NEW t, IsTab(t, StorageFields), t.bucket \in Buckets,
         NEW store \in [Buckets -> SUBSET (1..MaxKey)], NEW u \in Reloaded(t, store)
  PROVE  StorageStays(u, t)
  <1>1. ListFields \subseteq StorageFields
    BY DEF StorageFields
  <1>2. PICK v \in Reloaded(t, store) : u = v
    OBVIOUS
  <1>3. IsTab(v, StorageFields)
    BY <1>1, <1>2, PageReloaded
  <1>4. \A f \in StorageFields \ {"shown", "from", "row", "page"} : v[f] = t[f]
    BY <1>1, <1>2, PageReloaded
  <1> QED
    BY <1>2, <1>3, <1>4 DEF StorageStays, IsTab, StorageFields, ListFields

LEMMA ObjectsTurned ==
  ASSUME StoreInv, NEW t, IsTab(t, StorageFields), t.bucket \in Buckets, NEW u \in Turned(t)
  PROVE  StorageStays(u, t)
  <1>1. ListFields \subseteq StorageFields
    BY DEF StorageFields
  <1>2. PICK v \in Turned(t) : u = v
    OBVIOUS
  <1>3. /\ IsTab(v, StorageFields)
        /\ \A f \in StorageFields \ {"shown", "from", "row", "page"} : v[f] = t[f]
    BY <1>1, <1>2, PageTurned
  <1> QED
    BY <1>2, <1>3 DEF StorageStays, IsTab, StorageFields, ListFields

\* An object put under any key, or deleted, makes that key doubtful.
LEMMA ObjectChanged ==
  ASSUME StoreInv, NEW b \in Buckets, NEW k,
         \/ stored' = [stored EXCEPT ![b] = @ \cup {k}] /\ k \in 1..MaxKey
         \/ stored' = [stored EXCEPT ![b] = @ \ {k}],
         torn' = torn \cup {k}, UNCHANGED <<vectors, nextKey, saved>>
  PROVE  StoreInv'
  <1>1. stored' \in [Buckets -> SUBSET (1..MaxKey)]
    BY DEF StoreInv
  <1>2. \A c \in Buckets : \A j : j # k => (j \in stored'[c] <=> j \in stored[c])
    BY DEF StoreInv
  <1> QED
    BY <1>1, <1>2 DEF StoreInv, FacesPaired

LEMMA StorageStep ==
  ASSUME StoreInv, StorageInv, StorageNext
  PROVE  StoreInv' /\ StorageInv' /\ DeletesShown'
  <1>0. /\ IsTab(storage, StorageFields) /\ storage.bucket \in Buckets
        /\ storage.confirm \in 0..MaxKey
        /\ storage.asked # Nobody /\ storage.delete # 0 =>
              storage.asked = <<storage.bucket, storage.delete>>
        /\ stored \in [Buckets -> SUBSET (1..MaxKey)]
    BY DEF StorageInv, StoreInv
  <1>a. ASSUME NEW t, IsTab(t, StorageFields), t.bucket = storage.bucket,
               t.confirm \in 0..MaxKey, t.asked = storage.asked, t.delete = storage.delete,
               NEW k \in 1..MaxKey, Upload(t, k)
        PROVE  StoreInv' /\ StorageInv' /\ DeletesShown'
    <2>1. CASE storage' \in Reloaded(t, stored) /\ Unchanged
      <3>1. StorageStays(storage', t)
        BY <1>0, <1>a, <2>1, ObjectsListed
      <3> QED
        BY <1>a, <1>0, <2>1, <3>1, NothingRemoved DEF StorageInv, StorageStays
    <2>2. ASSUME stored' = [stored EXCEPT ![t.bucket] = @ \cup {k}],
                 storage' \in Reloaded(t, stored'), torn' = torn \cup {k}, removed' = NoRemoval,
                 UNCHANGED <<vectors, nextKey, saved>>
          PROVE  StoreInv' /\ StorageInv' /\ DeletesShown'
      <3>1. StoreInv'
        BY <1>0, <1>a, <2>2, ObjectChanged
      <3>2. StorageStays(storage', t)
        <4> PICK u, store : u = storage' /\ store = stored'
          OBVIOUS
        <4>1. store \in [Buckets -> SUBSET (1..MaxKey)] /\ u \in Reloaded(t, store)
          BY <2>2, <3>1 DEF StoreInv
        <4> QED
          BY <1>0, <1>a, <4>1, ObjectsListed
      <3> QED
        BY <1>a, <1>0, <2>2, <3>1, <3>2 DEF StorageInv, StorageStays, DeletesShown, NoRemoval
    <2> QED
      BY <1>a, <2>1, <2>2 DEF Upload
  <1> USE DEF ListFields, StorageFields, IsTab
  <1>1. CASE EnterObjectAction
    BY <1>0, <1>1, NothingRemoved DEF EnterObjectAction, StorageInv, Promised
  <1>2. CASE EnterObjectDelete
    <2> DEFINE t == [storage EXCEPT !.delete = 0, !.asked = Nobody]
    <2>1. /\ IsTab(t, StorageFields) /\ t.bucket = storage.bucket /\ t.confirm = storage.confirm
          /\ t.asked = Nobody /\ t.delete = 0 /\ storage.delete # 0
      BY <1>0, <1>2 DEF EnterObjectDelete, StoragePopup
    <2> PICK k, asked : k = storage.delete /\ asked = storage.asked
      OBVIOUS
    <2>2. DeleteObject(t, k, asked)
      BY <1>2 DEF EnterObjectDelete
    <2> HIDE DEF t, ListFields, StorageFields, IsTab
    <2>3. CASE storage' \in Reloaded(t, stored) /\ Unchanged
      <3>1. StorageStays(storage', t)
        BY <1>0, <2>1, <2>3, ObjectsListed
      <3> QED
        BY <1>0, <2>1, <2>3, <3>1, NothingRemoved DEF StorageInv, StorageStays
    <2>4. ASSUME stored' = [stored EXCEPT ![t.bucket] = @ \ {k}],
                 storage' \in Reloaded(t, stored'), torn' = torn \cup {k},
                 removed' = Removal(asked, <<t.bucket, k>>),
                 UNCHANGED <<vectors, nextKey, saved>>
          PROVE  StoreInv' /\ StorageInv' /\ DeletesShown'
      <3>1. StoreInv'
        BY <1>0, <2>1, <2>4, ObjectChanged
      <3>2. StorageStays(storage', t)
        <4> PICK u, store : u = storage' /\ store = stored'
          OBVIOUS
        <4>1. store \in [Buckets -> SUBSET (1..MaxKey)] /\ u \in Reloaded(t, store)
          BY <2>4, <3>1 DEF StoreInv
        <4> QED
          BY <1>0, <2>1, <4>1, ObjectsListed
      <3>3. DeletesShown'
        BY <1>0, <2>1, <2>4 DEF DeletesShown, Removal
      <3> QED
        BY <1>0, <2>1, <3>1, <3>2, <3>3 DEF StorageInv, StorageStays
    <2> QED
      BY <2>2, <2>3, <2>4 DEF DeleteObject
  <1>3. CASE EnterUpload
    <2>1. CASE storage' = [storage EXCEPT !.confirm = 0] /\ Unchanged
      BY <1>0, <2>1, NothingRemoved, ToolAssumption DEF StorageInv
    <2>2. ASSUME NEW k \in 1..MaxKey, NEW t, Upload(t, k),
                 \/ t = [storage EXCEPT !.confirm = 0, !.upload = FALSE, !.paths = FALSE]
                 \/ t = [storage EXCEPT !.upload = FALSE, !.paths = FALSE]
          PROVE  StoreInv' /\ StorageInv' /\ DeletesShown'
      <3>1. /\ IsTab(t, StorageFields) /\ t.bucket = storage.bucket
            /\ t.confirm \in 0..MaxKey /\ t.asked = storage.asked /\ t.delete = storage.delete
        <4>1. 0 \in 0..MaxKey
          BY ToolAssumption
        <4>2. CASE t = [storage EXCEPT !.confirm = 0, !.upload = FALSE, !.paths = FALSE]
          BY <1>0, <4>1, <4>2
        <4>3. CASE t = [storage EXCEPT !.upload = FALSE, !.paths = FALSE]
          BY <1>0, <4>3
        <4> QED
          BY <2>2, <4>2, <4>3
      <3> HIDE DEF ListFields, StorageFields, IsTab
      <3> QED
        BY <2>2, <3>1, <1>a
    <2>3. StoragePopup = "confirm" => storage.confirm \in 1..MaxKey
      BY <1>0, ToolAssumption DEF StoragePopup
    <2> QED
      BY <1>3, <2>1, <2>2, <2>3 DEF EnterUpload
  <1>4. CASE EnterName
    <2>1. ASSUME NEW p \in BOOLEAN, storage' = [storage EXCEPT !.paths = p]
          PROVE  StorageInv'
      BY <1>0, <2>1 DEF StorageInv
    <2>2. ASSUME NEW k \in 1..MaxKey,
                 storage' = [storage EXCEPT !.paths = FALSE, !.confirm = k]
          PROVE  StorageInv'
      <3>1. k \in 0..MaxKey
        BY ToolAssumption
      <3> QED
        BY <1>0, <2>2, <3>1 DEF StorageInv
    <2>3. StorageInv'
      BY <1>4, <2>1, <2>2 DEF EnterName
    <2> QED
      BY <1>4, <2>3, NothingRemoved DEF EnterName
  <1>5. ASSUME Unchanged,
               \/ storage' \in Reloaded(storage, stored) \cup Turned(storage)
               \/ storage' \in Reloaded([storage EXCEPT !.page = FirstPage], stored)
        PROVE  StoreInv' /\ StorageInv' /\ DeletesShown'
    <2> DEFINE t == [storage EXCEPT !.page = FirstPage]
    <2>1. StorageStays(t, storage) /\ t.bucket \in Buckets
      BY <1>0 DEF StorageStays
    <2> HIDE DEF t, ListFields, StorageFields, IsTab
    <2>2. ASSUME storage' \in Reloaded(storage, stored)
          PROVE  StorageStays(storage', storage)
      BY <1>0, <2>2, ObjectsListed
    <2>3. ASSUME storage' \in Reloaded(t, stored)
          PROVE  StorageStays(storage', storage)
      BY <1>0, <2>1, <2>3, ObjectsListed DEF StorageStays
    <2>4. ASSUME storage' \in Turned(storage)
          PROVE  StorageStays(storage', storage)
      <3> PICK u \in Turned(storage) : u = storage'
        BY <2>4
      <3> QED
        BY <1>0, ObjectsTurned
    <2>5. StorageStays(storage', storage)
      BY <1>5, <2>2, <2>3, <2>4 DEF t
    <2> QED
      BY <1>0, <1>5, <2>5, NothingRemoved DEF StorageInv, StorageStays
  <1>6. CASE EnterObject
    <2>1. CASE storage' \in Reloaded(storage, stored)
      BY <1>5, <1>6, <2>1 DEF EnterObject
    <2>2. CASE storage' \in {[storage EXCEPT !.detail = FALSE, !.download = PickedKey],
                             [storage EXCEPT !.download = 0], [storage EXCEPT !.action = TRUE]}
      BY <1>0, <1>6, <2>2, NothingRemoved DEF EnterObject, StorageInv
    <2> QED
      BY <1>6, <2>1, <2>2 DEF EnterObject
  <1>7. CASE EscStorage
    <2>1. 0 \in 0..MaxKey
      BY ToolAssumption
    <2>2. ASSUME storage' = [storage EXCEPT !.delete = 0, !.asked = Nobody]
          PROVE  StorageInv'
      BY <1>0, <2>2 DEF StorageInv
    <2>3. ASSUME storage' = [storage EXCEPT !.confirm = 0]
          PROVE  StorageInv'
      BY <1>0, <2>1, <2>3 DEF StorageInv
    <2>4. ASSUME \/ storage' = [storage EXCEPT !.action = FALSE]
                 \/ storage' = [storage EXCEPT !.detail = FALSE]
                 \/ storage' = [storage EXCEPT !.paths = FALSE]
          PROVE  StorageInv'
      BY <1>0, <2>4 DEF StorageInv
    <2>5. ASSUME \/ storage' = [storage EXCEPT !.upload = FALSE]
                 \/ storage' = [storage EXCEPT !.download = 0]
                 \/ storage' = storage
          PROVE  StorageInv'
      BY <1>0, <2>5 DEF StorageInv
    <2>6. StorageInv'
      <3> HIDE DEF ListFields, StorageFields, IsTab
      <3> QED
        BY <1>7, <2>2, <2>3, <2>4, <2>5 DEF EscStorage
    <2> QED
      BY <1>7, <2>6, NothingRemoved DEF EscStorage
  <1>8. CASE TypeName
    BY <1>0, <1>8, NothingRemoved DEF TypeName, StorageInv
  <1>9. CASE DeleteObjectKey
    BY <1>0, <1>9, NothingRemoved DEF DeleteObjectKey, StorageInv, Promised
  <1>10. CASE ListObjectsKey
    <2>1. CASE storage' \in Reloaded(storage, stored) \cup Turned(storage)
                            \cup Reloaded([storage EXCEPT !.page = FirstPage], stored)
      BY <1>5, <1>10, <2>1 DEF ListObjectsKey
    <2>2. CASE storage' = [storage EXCEPT !.upload = TRUE]
               \/ \E r : storage' = [storage EXCEPT !.row = r]
      BY <1>0, <1>10, <2>2, NothingRemoved DEF ListObjectsKey, StorageInv
    <2> QED
      BY <1>10, <2>1, <2>2 DEF ListObjectsKey
  <1>11. CASE TypeBucket
    BY <1>0, <1>11, NothingRemoved DEF TypeBucket, Reaches, StorageInv
  <1> QED
    BY <1>1, <1>2, <1>3, <1>4, <1>6, <1>7, <1>8, <1>9, <1>10, <1>11 DEF StorageNext

--------------------------------------------------------------------------------
(* The vector tab.                                                          *)

VectorInv ==
  /\ IsTab(vector, VectorFields)
  /\ vector.asked # Nobody =>
        vector.action /\ (vector.moved \/ vector.asked = Meant(vector))

\* What reaches the tab under the popup notes when it brings another row there.
LEMMA UnderPopup ==
  ASSUME VectorInv, NEW t, IsTab(t, VectorFields), vector' = Under(t),
         t.asked = vector.asked, t.action = vector.action, t.moved = vector.moved
  PROVE  VectorInv'
  <1> PICK u : u = Under(t)
    OBVIOUS
  <1>1. /\ IsTab(u, VectorFields) /\ u.asked = t.asked /\ u.action = t.action
        /\ u.index = t.index /\ u.shown = t.shown /\ u.row = t.row
    BY DEF Under, IsTab, VectorFields
  <1>2. u.moved = (t.moved \/ (t.action /\ Meant(t) # Meant(vector)))
    BY DEF Under, IsTab, VectorFields
  <1>3. Meant(u) = Meant(t)
    BY ONLY <1>1 DEF Meant, Rows
  <1>4. ASSUME u.asked # Nobody
        PROVE  u.action /\ (u.moved \/ u.asked = Meant(u))
    <2>1. t.action /\ (t.moved \/ t.asked = Meant(vector))
      BY <1>1, <1>4 DEF VectorInv
    <2> QED
      BY ONLY <1>1, <1>2, <1>3, <2>1
  <1>5. vector' = u
    OBVIOUS
  <1>6. Meant(vector)' = Meant(u)
    BY <1>5 DEF Meant, Rows
  <1> QED
    BY ONLY <1>1, <1>4, <1>5, <1>6 DEF VectorInv

\* Without the popup nothing is promised.
LEMMA VectorClosed ==
  ASSUME NEW u, vector' = u, IsTab(u, VectorFields), u.asked = Nobody
  PROVE  VectorInv'
  BY DEF VectorInv

LEMMA VectorStep ==
  ASSUME StoreInv, VectorInv, VectorNext
  PROVE  StoreInv' /\ VectorInv' /\ DeletesShown'
  <1>0. /\ IsTab(vector, VectorFields)
        /\ vector.asked # Nobody => vector.action /\ (vector.moved \/ vector.asked = Meant(vector))
    BY DEF VectorInv
  <1> USE DEF VectorFields, IsTab
  <1>b. \A i : vector' = SetIndex(vector, i) => VectorInv'
    <2> TAKE i
    <2> HAVE vector' = SetIndex(vector, i)
    <2> PICK t : t = [vector EXCEPT !.index = i]
      OBVIOUS
    <2>1. /\ IsTab(t, VectorFields) /\ vector' = Under(t)
          /\ t.asked = vector.asked /\ t.action = vector.action /\ t.moved = vector.moved
      BY <1>0 DEF SetIndex
    <2> QED
      BY ONLY VectorInv, <2>1, UnderPopup
  <1>c. ASSUME NEW t, NEW ids, vector' \in Entries(t, ids), IsTab(t, VectorFields),
               \/ t = vector
               \/ t.asked = Nobody
        PROVE  VectorInv'
    <2> PICK u : u = [t EXCEPT !.shown = InOrder(ids[t.index]), !.from = t.index]
      OBVIOUS
    <2>1. IsTab(u, VectorFields) /\ u.asked = t.asked /\ u.action = t.action /\ u.moved = t.moved
      BY <1>c
    <2>2. vector' = t \/ vector' = Under(u)
      BY <1>c DEF Entries
    <2>3. CASE t.asked = Nobody
      <3>1. IsTab(Under(u), VectorFields) /\ Under(u).asked = u.asked
        BY <2>1 DEF Under
      <3> QED
        BY ONLY <1>c, <2>1, <2>2, <2>3, <3>1, VectorClosed
    <2>4. CASE t = vector
      <3>1. vector' = vector => VectorInv'
        BY VectorInv DEF VectorInv, Meant, Rows
      <3>2. vector' = Under(u) => VectorInv'
        BY ONLY VectorInv, <2>1, <2>4, UnderPopup
      <3> QED
        BY ONLY <2>2, <2>4, <3>1, <3>2
    <2> QED
      BY <1>c, <2>3, <2>4
  \* Ids of "face" that lose their vectors are doubtful.
  <1>a. ASSUME NEW i, NEW ids, NEW left, vectors' = [vectors EXCEPT ![i] = left],
               i \in Indexes => vectors[i] \ left \subseteq ids /\ left \subseteq vectors[i],
               Torn(i, ids), UNCHANGED <<stored, nextKey, saved>>
        PROVE  StoreInv'
    <2>1. vectors' \in [Indexes -> SUBSET Nat]
      BY <1>a DEF StoreInv
    <2>2. \A k \in saved \ torn' : k \in vectors'["face"] <=> k \in vectors["face"]
      BY <1>a, ToolAssumption DEF Torn, StoreInv
    <2>3. torn \subseteq torn'
      BY <1>a DEF Torn
    <2> QED
      BY <1>a, <2>1, <2>2, <2>3 DEF StoreInv, FacesPaired
  <1>1. CASE EnterIndex
    <2> DEFINE promise == IF vector.from = vector.index THEN Meant(vector) ELSE Nobody
    <2>1. vector.asked = Nobody
      BY <1>0, <1>1 DEF EnterIndex
    <2>2. ASSUME vector' = [vector EXCEPT !.dropdown = FALSE] \/ vector' = vector
          PROVE  VectorInv'
      <3> PICK u : u = vector'
        OBVIOUS
      <3>1. IsTab(u, VectorFields) /\ u.asked = Nobody
        BY <1>0, <2>1, <2>2
      <3> QED
        BY ONLY u = vector', <3>1, VectorClosed
    <2>3. ASSUME vector' = [vector EXCEPT !.action = TRUE, !.asked = promise]
          PROVE  VectorInv'
      <3> HIDE DEF promise
      <3> PICK u : u = [vector EXCEPT !.action = TRUE, !.asked = promise]
        OBVIOUS
      <3>1. /\ IsTab(u, VectorFields) /\ u.asked = promise /\ u.action = TRUE
            /\ u.index = vector.index /\ u.shown = vector.shown /\ u.row = vector.row
        BY <1>0
      <3>2. Meant(u) = Meant(vector)
        BY ONLY <3>1 DEF Meant, Rows
      <3>3. promise = Meant(vector) \/ promise = Nobody
        BY DEF promise
      <3>4. vector' = u
        BY <2>3
      <3>5. Meant(vector)' = Meant(u)
        BY <3>4 DEF Meant, Rows
      <3>6. u.asked = Nobody \/ u.asked = Meant(u)
        BY ONLY <3>1, <3>2, <3>3
      <3>7. u.action
        BY ONLY <3>1
      <3>8. vector'.action /\ (vector'.asked = Nobody \/ vector'.asked = Meant(vector)')
        BY ONLY <3>4, <3>5, <3>6, <3>7
      <3>9. IsTab(vector', VectorFields)
        BY ONLY <3>1, <3>4
      <3> QED
        BY ONLY <3>8, <3>9 DEF VectorInv
    <2>4. Unchanged
      BY <1>1 DEF EnterIndex
    <2>5. VectorInv'
      BY <1>1, <2>2, <2>3 DEF EnterIndex
    <2> QED
      BY <2>4, <2>5, NothingRemoved
  <1>2. CASE EnterVector
    <2> DEFINE t == Closed(vector)
               k == vector.shown[vector.row]
    <2>0. /\ IsTab(t, VectorFields) /\ t.asked = Nobody /\ t.index = vector.index
          /\ IsTab([t EXCEPT !.detail = TRUE], VectorFields)
          /\ [t EXCEPT !.detail = TRUE].asked = Nobody
      BY <1>0 DEF Closed
    <2> HIDE DEF t
    <2>1. CASE vector' \in {t, [t EXCEPT !.detail = TRUE]} /\ Unchanged
      BY <2>0, <2>1, NothingRemoved, VectorClosed
    <2>2. ASSUME vectors' = [vectors EXCEPT ![t.index] = @ \ {k}], Torn(t.index, {k}),
                 vector' \in Entries(t, vectors'),
                 removed' = [asked |-> vector.asked, moved |-> vector.moved, done |-> <<t.index, k>>],
                 UNCHANGED <<stored, nextKey, saved>>, vector.row \in Rows(vector)
          PROVE  StoreInv' /\ VectorInv' /\ DeletesShown'
      <3>1. StoreInv'
        BY <1>a, <2>2
      <3>2. VectorInv'
        BY <1>c, <2>0, <2>2
      <3>3. DeletesShown'
        <4>1. Meant(vector) = <<t.index, k>>
          BY <2>0, <2>2 DEF Meant
        <4>2. removed'.asked = vector.asked /\ removed'.done = <<t.index, k>>
          BY <2>2
        <4>3. removed'.moved = vector.moved
          BY <2>2
        <4>4. vector.asked # Nobody => vector.moved \/ vector.asked = Meant(vector)
          BY ONLY <1>0
        <4> QED
          BY ONLY <4>1, <4>2, <4>3, <4>4 DEF DeletesShown
      <3> QED
        BY <3>1, <3>2, <3>3
    <2> QED
      BY <1>2, <2>1, <2>2 DEF EnterVector, t
  <1>3. CASE EscVector
    <2>1. CASE vector' = Closed(vector)
      <3>1. IsTab(Closed(vector), VectorFields) /\ Closed(vector).asked = Nobody
        BY <1>0 DEF Closed
      <3> QED
        BY <1>3, <2>1, <3>1, NothingRemoved, VectorClosed DEF EscVector
    <2>2. ASSUME \/ vector' = [vector EXCEPT !.detail = FALSE]
                 \/ vector' = [vector EXCEPT !.dropdown = FALSE]
          PROVE  VectorInv'
      <3>1. /\ IsTab(vector', VectorFields) /\ vector'.asked = vector.asked
            /\ vector'.action = vector.action /\ vector'.moved = vector.moved
            /\ vector'.index = vector.index /\ vector'.shown = vector.shown
            /\ vector'.row = vector.row
        BY <1>0, <2>2
      <3>2. Meant(vector)' = Meant(vector)
        BY ONLY <3>1 DEF Meant, Rows
      <3> QED
        BY ONLY <1>0, <3>1, <3>2 DEF VectorInv
    <2> QED
      BY <1>3, <2>1, <2>2, NothingRemoved DEF EscVector
  <1>4. CASE ListVectors
    BY <1>0, <1>4, <1>c, NothingRemoved DEF ListVectors
  <1>5. CASE ClearVectors
    <2>1. PICK left \in SUBSET vectors[vector.index] :
             /\ vectors' = [vectors EXCEPT ![vector.index] = left]
             /\ Torn(vector.index, vectors[vector.index])
             /\ vector' \in Entries(vector, vectors')
      BY <1>5 DEF ClearVectors
    <2>2. removed' = NoRemoval /\ UNCHANGED <<stored, nextKey, saved>>
      BY <1>5 DEF ClearVectors
    <2>3. StoreInv'
      BY <1>a, <2>1, <2>2
    <2>4. VectorInv'
      BY <1>0, <1>c, <2>1
    <2> QED
      BY <2>2, <2>3, <2>4 DEF DeletesShown, NoRemoval
  <1>6. CASE SelectVector
    <2>1. ASSUME NEW r, vector' = Under([vector EXCEPT !.row = r])
          PROVE  VectorInv'
      <3> PICK t : t = [vector EXCEPT !.row = r]
        OBVIOUS
      <3>1. /\ IsTab(t, VectorFields) /\ vector' = Under(t)
            /\ t.asked = vector.asked /\ t.action = vector.action /\ t.moved = vector.moved
        BY <1>0, <2>1
      <3> QED
        BY ONLY VectorInv, <3>1, UnderPopup
    <2> QED
      BY <1>6, <1>b, <2>1, NothingRemoved DEF SelectVector
  <1>d. ASSUME NEW t, IsTab(t, VectorFields), vector' = [t EXCEPT !.dropdown = vector'.dropdown],
               t.asked # Nobody => t.action /\ (t.moved \/ t.asked = Meant(t))
        PROVE  VectorInv'
    <2>1. /\ IsTab(vector', VectorFields) /\ vector'.asked = t.asked
          /\ vector'.action = t.action /\ vector'.moved = t.moved
          /\ vector'.index = t.index /\ vector'.shown = t.shown /\ vector'.row = t.row
      BY <1>d
    <2>2. Meant(vector)' = Meant(t)
      BY ONLY <2>1 DEF Meant, Rows
    <2> QED
      BY ONLY <1>d, <2>1, <2>2 DEF VectorInv
  <1>7. CASE TabIndex
    <2>1. CASE vector' = [vector EXCEPT !.dropdown = TRUE]
      <3>1. vector' = [vector EXCEPT !.dropdown = vector'.dropdown]
        BY <1>0, <2>1
      <3> QED
        BY <1>0, <1>7, <1>d, <3>1, NothingRemoved DEF TabIndex
    <2> QED
      BY <1>7, <1>b, <2>1, NothingRemoved DEF TabIndex
  <1>8. CASE TypeIndex
    <2>1. PICK i \in Indexes : vector' = [SetIndex(vector, i) EXCEPT !.dropdown = FALSE]
      BY <1>8 DEF TypeIndex
    <2> PICK t, v : t = SetIndex(vector, i) /\ v = [vector EXCEPT !.index = i]
      OBVIOUS
    <2>2. /\ v.asked = vector.asked /\ v.action = vector.action /\ v.moved = vector.moved
          /\ IsTab(v, VectorFields) /\ t = Under(v)
      BY <1>0 DEF SetIndex
    <2>3. /\ IsTab(t, VectorFields) /\ t.asked = v.asked /\ t.action = v.action
          /\ t.index = v.index /\ t.shown = v.shown /\ t.row = v.row
      BY <2>2 DEF Under
    <2>4. t.moved = (v.moved \/ (v.action /\ Meant(v) # Meant(vector)))
      BY <2>2 DEF Under
    <2>5. Meant(t) = Meant(v)
      BY ONLY <2>3 DEF Meant, Rows
    <2>6. t.asked # Nobody => t.action /\ (t.moved \/ t.asked = Meant(t))
      BY ONLY <1>0, <2>2, <2>3, <2>4, <2>5
    <2>7. vector' = [t EXCEPT !.dropdown = vector'.dropdown]
      BY <2>1, <2>3
    <2> QED
      BY <1>8, <1>d, <2>3, <2>6, <2>7, NothingRemoved DEF TypeIndex
  <1> QED
    BY <1>1, <1>2, <1>3, <1>4, <1>5, <1>6, <1>7, <1>8 DEF VectorNext

--------------------------------------------------------------------------------
(* The client.                                                              *)

ToolInv ==
  /\ StoreInv /\ DeletesShown
  /\ tab = "image" => ImageInv
  /\ tab = "face" => FaceInv
  /\ tab = "storage" => StorageInv
  /\ tab = "vector" => VectorInv

LEMMA ToolInitInv == ToolInit => ToolInv
  <1> SUFFICES ASSUME ToolInit PROVE ToolInv
    OBVIOUS
  <1>1. StoreInv /\ DeletesShown
    BY StoreInitInv DEF ToolInit, StoreInit, DeletesShown, NoRemoval
  <1>2. "images" \in Buckets /\ "faces" \in Buckets /\ 0 \in 0..MaxKey
    BY ToolAssumption
  <1>3. ImageInv
    <2>1. Homed(0, "none") /\ DOMAIN <<>> = {}
      BY DEF Homed
    <2> QED
      BY <1>2, <2>1 DEF ToolInit, ImageInit, ImageInv, PromiseOK, IsTab, ImageFields, ListFields
  <1>4. FaceInv
    BY <1>2 DEF ToolInit, FaceInit, FaceInv, IsTab, FaceTabFields, ListFields
  <1>5. StorageInv
    BY <1>2 DEF ToolInit, StorageInit, StorageInv, IsTab, StorageFields, ListFields
  <1>6. VectorInv
    BY DEF ToolInit, VectorInit, VectorInv, IsTab, VectorFields
  <1> QED
    BY <1>1, <1>3, <1>4, <1>5, <1>6 DEF ToolInv

LEMMA ToolNextInv ==
  ASSUME ToolInv, [ToolNext]_toolVars
  PROVE  ToolInv'
  <1>1. CASE UNCHANGED toolVars
    BY <1>1 DEF ToolInv, toolVars, tabVars, storeVars, StoreInv, FacesPaired, DeletesShown,
                ImageInv, PromiseOK, Homed, FaceInv, StorageInv, VectorInv, Meant, Rows
  <1>2. CASE tab = "image" /\ tab' = tab /\ ImageNext
    BY <1>2, ImageStep DEF ToolInv
  <1>3. CASE tab = "face" /\ tab' = tab /\ FaceNext
    BY <1>3, FaceStep DEF ToolInv
  <1>4. CASE tab = "storage" /\ tab' = tab /\ StorageNext
    BY <1>4, StorageStep DEF ToolInv
  <1>5. CASE tab = "vector" /\ tab' = tab /\ VectorNext
    BY <1>5, VectorStep DEF ToolInv
  <1> QED
    BY <1>1, <1>2, <1>3, <1>4, <1>5 DEF ToolNext

LEMMA ToolInvariant == ToolSpec => []ToolInv
  BY ToolInitInv, ToolNextInv, PTL DEF ToolSpec

\* Whatever keys, lists and failures come between, a delete popup deletes what it
\* was opened on, for any buckets, indexes, keys and page sizes, unless a field was
\* entered anew or the vector tab's popup was given another row by a click, a list or
\* the drop-down (handler.rs, the delete popups).
THEOREM PopupsDeleteShown == ToolSpec => []DeletesShown
  BY ToolInvariant, PTL DEF ToolInv

\* A saved face keeps its picture and its vector together, unless a request that
\* parts them failed or went to another bucket (save_and_index_face,
\* delete_saved_face, delete_image).
THEOREM FacesStayPaired == ToolSpec => []FacesPaired
  <1>1. ToolInv => FacesPaired
    BY DEF ToolInv, StoreInv
  <1> QED
    BY <1>1, ToolInvariant, PTL
=============================================================================
