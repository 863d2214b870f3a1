------------------------------ MODULE GraphStore ------------------------------
(***************************************************************************)
(* The mutations of the graph service (laoflchdb_graph_service): nodes and  *)
(* edges as keys of one key-value table.  An edge is three keys: the edge   *)
(* itself, its entry among the edges leaving its origin and its entry among *)
(* the edges reaching its target.  Every mutation is a chain of single      *)
(* reads and writes of the table; no lock and no batch joins them.          *)
(*                                                                         *)
(* Abstracted: node types and edge types are part of a node's and an edge's *)
(* name, so there is one edge per name in Edges; properties are the set of  *)
(* their top-level fields.  A query is one state's answer, though it reads   *)
(* the table several times.                                                 *)
(***************************************************************************)
EXTENDS FiniteSetsExt, Integers

CONSTANTS
    Callers,        \* requests that can be under way at once
    Nodes,          \* node keys
    Edges,          \* edges that can be inserted: pairs of nodes
    Fields,         \* fields an update can set
    Ops,            \* the mutations the callers make
    MaxDepth,       \* the depth a path is asked for, brought into 1 .. 16
    MaxCrashes,     \* bound: crashes of the process and requests cut off
    Absent          \* the value of a key that is not in the table

ASSUME EdgesAssumption == Edges \subseteq Nodes \X Nodes
ASSUME BoundAssumption == MaxCrashes \in Nat /\ MaxDepth \in 1 .. 16
ASSUME AbsentAssumption == \A s \in SUBSET Fields : Absent # s

VARIABLES
    nodes,          \* N keys: the properties of each node, or Absent
    edges,          \* E keys: the properties of each edge, or Absent
    outs,           \* O keys: the edges found from their origin
    ins,            \* I keys: the edges found from their target
    task,           \* what each caller is doing
    mixed,          \* history: edges overlapping or broken-off requests may have left in pieces
    merged,         \* history: fields whose update was answered since the node was inserted
    crashes         \* history: crashes and requests cut off so far

table == <<nodes, edges, outs, ins>>
graphVars == <<nodes, edges, outs, ins, task, mixed, merged, crashes>>

From(e) == e[1]
To(e) == e[2]
EdgesAt(n) == {e \in Edges : n \in {From(e), To(e)}}

Idle == [op |-> "none", at |-> "idle", node |-> Absent, edge |-> Absent,
         field |-> {}, read |-> Absent, refs |-> {}, met |-> FALSE]

GraphInit ==
    /\ nodes = [n \in Nodes |-> Absent]
    /\ edges = [e \in Edges |-> Absent]
    /\ outs = {}
    /\ ins = {}
    /\ task = [c \in Callers |-> Idle]
    /\ mixed = {}
    /\ merged = [n \in Nodes |-> {}]
    /\ crashes = 0

(***************************************************************************)
(* Requests.                                                               *)
(***************************************************************************)
Busy(c) == task[c].at # "idle"

\* The edges whose keys a request may read or write.
Touched(t) ==
    CASE t.op \in {"insert_edge", "update_edge", "delete_edge"} -> {t.edge}
      [] t.op = "delete_node" -> EdgesAt(t.node)
      [] OTHER -> {}

\* A request begins.  Edges that it and another request both touch are from
\* now on mixed, and both requests know that they met another one.
Begin(c, t) ==
    LET others == {d \in Callers : Busy(d) /\ Touched(task[d]) \cap Touched(t) # {}}
    IN  /\ ~Busy(c)
        /\ t.op \in Ops
        /\ task' = [d \in Callers |->
                        IF d = c THEN [t EXCEPT !.met = others # {}]
                        ELSE IF d \in others THEN [task[d] EXCEPT !.met = TRUE]
                        ELSE task[d]]
        /\ mixed' = mixed \union UNION {Touched(task[d]) \cap Touched(t) : d \in others}
        /\ UNCHANGED <<table, merged, crashes>>

NodeRequest(c) ==
    \E n \in Nodes :
        \/ Begin(c, [Idle EXCEPT !.op = "insert_node", !.at = "free", !.node = n])
        \/ \E f \in Fields : Begin(c, [Idle EXCEPT !.op = "update_node", !.at = "read",
                                                   !.node = n, !.field = {f}])
        \/ Begin(c, [Idle EXCEPT !.op = "delete_node", !.at = "outs", !.node = n])

EdgeRequest(c) ==
    \E e \in Edges :
        \/ Begin(c, [Idle EXCEPT !.op = "insert_edge", !.at = "from", !.edge = e])
        \/ Begin(c, [Idle EXCEPT !.op = "update_edge", !.at = "read", !.edge = e])
        \/ Begin(c, [Idle EXCEPT !.op = "delete_edge", !.at = "cut", !.edge = e, !.refs = {e}])

At(c, op, at) == task[c].op = op /\ task[c].at = at
Goto(c, at) == task' = [task EXCEPT ![c].at = at]
End(c) == task' = [task EXCEPT ![c] = Idle]

\* The request is refused before it has written anything.
Refuse(c) == End(c) /\ UNCHANGED <<table, mixed, merged, crashes>>

(***************************************************************************)
(* insert_node, update_node.                                               *)
(***************************************************************************)
CheckFree(c) ==
    /\ At(c, "insert_node", "free")
    /\ \/ nodes[task[c].node] # Absent /\ Refuse(c)
       \/ /\ nodes[task[c].node] = Absent
          /\ Goto(c, "put")
          /\ UNCHANGED <<table, mixed, merged, crashes>>

PutNode(c) ==
    /\ At(c, "insert_node", "put")
    /\ nodes' = [nodes EXCEPT ![task[c].node] = {}]
    /\ merged' = [merged EXCEPT ![task[c].node] = {}]
    /\ End(c)
    /\ UNCHANGED <<edges, outs, ins, mixed, crashes>>

ReadNode(c) ==
    /\ At(c, "update_node", "read")
    /\ \/ nodes[task[c].node] = Absent /\ Refuse(c)
       \/ /\ nodes[task[c].node] # Absent
          /\ task' = [task EXCEPT ![c].at = "merge", ![c].read = nodes[task[c].node]]
          /\ UNCHANGED <<table, mixed, merged, crashes>>

MergeNode(c) ==
    /\ At(c, "update_node", "merge")
    /\ nodes' = [nodes EXCEPT ![task[c].node] = task[c].read \union task[c].field]
    /\ merged' = [merged EXCEPT ![task[c].node] = @ \union task[c].field]
    /\ End(c)
    /\ UNCHANGED <<edges, outs, ins, mixed, crashes>>

(***************************************************************************)
(* insert_edge: both ends are looked up, then the edge, then its three     *)
(* keys are written.                                                       *)
(***************************************************************************)
CheckEnd(c, at, n, next) ==
    /\ At(c, "insert_edge", at)
    /\ \/ nodes[n] = Absent /\ Refuse(c)
       \/ nodes[n] # Absent /\ Goto(c, next) /\ UNCHANGED <<table, mixed, merged, crashes>>

CheckEdge(c) ==
    /\ At(c, "insert_edge", "exists")
    /\ \/ edges[task[c].edge] # Absent /\ Refuse(c)
       \/ /\ edges[task[c].edge] = Absent
          /\ Goto(c, "put")
          /\ UNCHANGED <<table, mixed, merged, crashes>>

PutEdge(c) ==
    /\ At(c, "insert_edge", "put")
    /\ edges' = [edges EXCEPT ![task[c].edge] = {}]
    /\ Goto(c, "put_out")
    /\ UNCHANGED <<nodes, outs, ins, mixed, merged, crashes>>

PutOut(c) ==
    /\ At(c, "insert_edge", "put_out")
    /\ outs' = outs \union {task[c].edge}
    /\ Goto(c, "put_in")
    /\ UNCHANGED <<nodes, edges, ins, mixed, merged, crashes>>

\* Edges that a request which met no other has brought into order.
Settled(c, es) == IF task[c].met THEN mixed ELSE mixed \ es

PutIn(c) ==
    /\ At(c, "insert_edge", "put_in")
    /\ ins' = ins \union {task[c].edge}
    /\ mixed' = Settled(c, {task[c].edge})
    /\ End(c)
    /\ UNCHANGED <<nodes, edges, outs, merged, crashes>>

InsertEdge(c) ==
    \/ CheckEnd(c, "from", From(task[c].edge), "to")
    \/ CheckEnd(c, "to", To(task[c].edge), "exists")
    \/ CheckEdge(c)
    \/ PutEdge(c)
    \/ PutOut(c)
    \/ PutIn(c)

(***************************************************************************)
(* update_edge reads and writes the edge's own key only.                   *)
(***************************************************************************)
ReadEdge(c) ==
    /\ At(c, "update_edge", "read")
    /\ \/ edges[task[c].edge] = Absent /\ Refuse(c)
       \/ /\ edges[task[c].edge] # Absent
          /\ task' = [task EXCEPT ![c].at = "merge", ![c].read = edges[task[c].edge]]
          /\ UNCHANGED <<table, mixed, merged, crashes>>

MergeEdge(c) ==
    /\ At(c, "update_edge", "merge")
    /\ edges' = [edges EXCEPT ![task[c].edge] = task[c].read]
    /\ End(c)
    /\ UNCHANGED <<nodes, outs, ins, mixed, merged, crashes>>

(***************************************************************************)
(* delete_edge, delete_node.  Deleting a node scans the table for the      *)
(* edges leaving it, then for those reaching it, deletes the three keys of *)
(* each of them and its own key last.  Whether the key existed goes into   *)
(* the answer only.                                                        *)
(***************************************************************************)
ScanOuts(c) ==
    /\ At(c, "delete_node", "outs")
    /\ task' = [task EXCEPT ![c].at = "ins",
                            ![c].refs = {e \in outs : From(e) = task[c].node}]
    /\ UNCHANGED <<table, mixed, merged, crashes>>

\* Mutant: only the edges leaving the node are looked for.
ScanInsNot(c) ==
    /\ At(c, "delete_node", "ins")
    /\ Goto(c, "cut")
    /\ UNCHANGED <<table, mixed, merged, crashes>>

ScanIns(c) ==
    /\ At(c, "delete_node", "ins")
    /\ task' = [task EXCEPT ![c].at = "cut",
                            ![c].refs = @ \union {e \in ins : To(e) = task[c].node}]
    /\ UNCHANGED <<table, mixed, merged, crashes>>

CutEdge(c) ==
    /\ task[c].at = "cut"
    /\ \E e \in task[c].refs :
           /\ edges' = [edges EXCEPT ![e] = Absent]
           /\ task' = [task EXCEPT ![c].at = "cut_out", ![c].edge = e]
    /\ UNCHANGED <<nodes, outs, ins, mixed, merged, crashes>>

CutOut(c) ==
    /\ task[c].at = "cut_out"
    /\ outs' = outs \ {task[c].edge}
    /\ Goto(c, "cut_in")
    /\ UNCHANGED <<nodes, edges, ins, mixed, merged, crashes>>

\* Mutant: the entry at the target is forgotten.
CutInNot(c) ==
    LET e == task[c].edge IN
    /\ task[c].at = "cut_in"
    /\ mixed' = Settled(c, {e})
    /\ IF task[c].op = "delete_edge" THEN End(c)
       ELSE task' = [task EXCEPT ![c].at = "cut", ![c].refs = @ \ {e}]
    /\ UNCHANGED <<table, merged, crashes>>

CutIn(c) ==
    LET e == task[c].edge IN
    /\ task[c].at = "cut_in"
    /\ ins' = ins \ {e}
    /\ mixed' = Settled(c, {e})
    /\ IF task[c].op = "delete_edge" THEN End(c)
       ELSE task' = [task EXCEPT ![c].at = "cut", ![c].refs = @ \ {e}]
    /\ UNCHANGED <<nodes, edges, outs, merged, crashes>>

CutNode(c) ==
    /\ At(c, "delete_node", "cut")
    /\ task[c].refs = {}
    /\ nodes' = [nodes EXCEPT ![task[c].node] = Absent]
    /\ merged' = [merged EXCEPT ![task[c].node] = {}]
    /\ End(c)
    /\ UNCHANGED <<edges, outs, ins, mixed, crashes>>

DeleteKeys(c) ==
    ScanOuts(c) \/ ScanIns(c) \/ CutEdge(c) \/ CutOut(c) \/ CutIn(c) \/ CutNode(c)

(***************************************************************************)
(* The process dies between two writes and starts again on the same table. *)
(***************************************************************************)
Crash ==
    /\ crashes < MaxCrashes
    /\ \E c \in Callers : Busy(c)
    /\ mixed' = mixed \union UNION {Touched(task[c]) : c \in Callers}
    /\ task' = [c \in Callers |-> Idle]
    /\ crashes' = crashes + 1
    /\ UNCHANGED <<table, merged>>

\* A read or a write of the storage fails: the handler returns the error, and
\* what it has written stands.
Fail(c) ==
    /\ Busy(c)
    /\ crashes < MaxCrashes
    /\ mixed' = mixed \union Touched(task[c])
    /\ End(c)
    /\ crashes' = crashes + 1
    /\ UNCHANGED <<table, merged>>

GraphNext ==
    \/ \E c \in Callers :
          \/ NodeRequest(c) \/ EdgeRequest(c)
          \/ CheckFree(c) \/ PutNode(c) \/ ReadNode(c) \/ MergeNode(c)
          \/ InsertEdge(c) \/ ReadEdge(c) \/ MergeEdge(c) \/ DeleteKeys(c)
          \/ Fail(c)
    \/ Crash

GraphSpec == GraphInit /\ [][GraphNext]_graphVars

(***************************************************************************)
(* Queries.                                                                *)
(***************************************************************************)
Stored == {e \in Edges : edges[e] # Absent}
Present == {n \in Nodes : nodes[n] # Absent}

\* The adjacency keys tell the neighbours.  One whose node is gone is left out,
\* an edge that is gone is answered without properties.
Neighbors(n, direction) ==
    LET leaving == {e \in outs : direction # "in" /\ From(e) = n}
        reaching == {e \in ins : direction # "out" /\ To(e) = n}
        Answer(e, m) == [node |-> m, edge |-> e,
                         properties |-> IF e \in Stored THEN edges[e] ELSE {}]
    IN  {Answer(e, To(e)) : e \in {e \in leaving : To(e) \in Present}}
        \union {Answer(e, From(e)) : e \in {e \in reaching \ leaving : From(e) \in Present}}

\* The walks of d adjacency keys, and the node such a walk is at after k of them.
Stop(from, walk, k) == IF k = 0 THEN from ELSE To(walk[k])
Walks(from, to, d) ==
    {w \in [1 .. d -> outs] : /\ \A k \in 1 .. d : From(w[k]) = Stop(from, w, k - 1)
                              /\ Stop(from, w, d) = to}

\* The breadth-first search follows adjacency keys and looks at the nodes of the
\* path only when it has found one.  Which of several shortest it finds is left open.
NoPath == [found |-> FALSE, path |-> <<>>]
ShortestPath(from, to) ==
    LET depths == {d \in 0 .. MaxDepth : Walks(from, to, d) # {}}
        Answer(w) == IF \A k \in 0 .. Min(depths) : Stop(from, w, k) \in Present
                     THEN [found |-> TRUE, path |-> w]
                     ELSE NoPath
    IN  IF depths = {} THEN {NoPath}
        ELSE {Answer(w) : w \in Walks(from, to, Min(depths))}

Stats == [nodes |-> Cardinality(Present), edges |-> Cardinality(Stored)]

(***************************************************************************)
(* Properties.                                                             *)
(***************************************************************************)
\* Edges no request is working on.
Quiet == {e \in Edges : \A c \in Callers : ~Busy(c) \/ e \notin Touched(task[c])}

\* Stored edges lead from a present node to another: every set of nodes that
\* holds the first and is closed under the stored edges holds the second.
Joined(a, b) ==
    /\ a \in Present
    /\ \A reach \in SUBSET Nodes :
         a \in reach /\ (\A e \in Stored : From(e) \in reach => To(e) \in reach) => b \in reach

\* An edge is stored, found from its origin and found from its target, or none
\* of the three, and has both its ends, so that deleting a node leaves no edge
\* at it, as long as no two requests have met on it and none was cut off there by
\* a failing write or a crash (insert_edge looks the ends up and writes three
\* keys, delete_edge_keys deletes them, delete_node collects the edges from both
\* adjacency scans).  When that holds
\* of all edges, the queries tell the same graph: the neighbours are those of
\* the stored edges, a path consists of stored edges, and one is found only
\* between nodes that stored edges join, and always if the depth asked for
\* allows for as many nodes as there are.
EdgesWhole ==
    /\ \A e \in Quiet \ mixed :
        /\ (e \in Stored <=> e \in outs) /\ (e \in Stored <=> e \in ins)
        /\ e \in Stored => nodes[From(e)] # Absent /\ nodes[To(e)] # Absent
    /\ Quiet = Edges /\ mixed = {} =>
        /\ \A n \in Nodes :
             {r.edge : r \in Neighbors(n, "both")} = EdgesAt(n) \cap Stored
        /\ \A a, b \in Nodes : \A answer \in ShortestPath(a, b) :
             /\ answer.found => Joined(a, b)
             /\ Joined(a, b) /\ Cardinality(Present) <= MaxDepth + 1 => answer.found
             /\ \A k \in DOMAIN answer.path : answer.path[k] \in Stored
        /\ Stats.edges = Cardinality(outs)

(***************************************************************************)
(* Claims of the docs and comments that TLC refutes with one edge.         *)
(***************************************************************************)

\* The crate's documentation: every mutation maintains the edge key and both
\* adjacency keys.  Refuted by inserting and deleting an edge at once.
KeysMaintained ==
    \A e \in Quiet : (e \in Stored <=> e \in outs) /\ (e \in Stored <=> e \in ins)

\* The comments of insert_edge and delete_node: both ends of an edge exist, and
\* deleting a node deletes all edges at it.  Refuted by an insert beside the
\* deletion of an end, and by an insert that a crash cut off.
EndsExist ==
    \A e \in Quiet : e \in Stored => nodes[From(e)] # Absent /\ nodes[To(e)] # Absent

\* The comment of update_node: properties are merged; no answered update of a
\* node that is still there is lost.  Refuted by two updates of one node that set
\* two fields.
UpdatesKept ==
    \A n \in Nodes : nodes[n] # Absent => merged[n] \subseteq nodes[n]

=============================================================================
