------------------------------- MODULE MCParts -------------------------------
(* Small graphs, small tables and small lists of the terminal client.  A      *)
(* behaviour is one of one of the three; they share nothing.                  *)
EXTENDS GraphStore, TableRows, Tool

CONSTANTS n1, n2

VARIABLE part

TwoEdges == {<<n1, n2>>, <<n1, n1>>}

AnyCaller == Permutations(Callers)

Kinds == <<"int", "bytes">>
Value(c, n) == [kind |-> Kinds[c], n |-> n]
WholeRows == {<<Value(1, a), Value(2, b)>> : a, b \in {0, 1}}
OddRows == WholeRows \cup {<<Value(1, 1)>>, <<Empty, Value(2, 1)>>}

Comparison(c, cmp, n) ==
    [op |-> "cmp", cmp |-> cmp, left |-> [column |-> c, bare |-> TRUE],
     right |-> [literal |-> TRUE, value |-> Value(c, n)]]
Not(e) == [op |-> "not", arg |-> e]
Both(op, e, f) == [op |-> op, left |-> e, right |-> f]

Numbers == {Comparison(1, cmp, n) : cmp \in Comparisons, n \in {0, 1}}
Bytes == {Comparison(2, cmp, 1) : cmp \in {"=", "!="}}
Atoms == Numbers \cup Bytes \cup {Not(e) : e \in Numbers} \cup {[op |-> "other"]}
Pairs == {Both(op, e, f) : op \in {"and", "or"}, e \in Numbers, f \in Atoms}

Ask(filters) ==
    {[filters |-> filters, columns |-> {1, 2}, limit |-> NoLimit],
     [filters |-> filters, columns |-> {2}, limit |-> 1]}

PlainQueries ==
    Ask(<<>>) \cup UNION {Ask(<<e>>) : e \in Atoms \cup Pairs}
    \cup UNION {Ask(<<e, f>>) : e \in Numbers, f \in Atoms}
    \cup UNION {Ask(<<Not(Both("or", e, f)), Both("or", e, f)>>) : e \in Numbers, f \in Bytes}

\* Queries the refuted claims are about.
OddQueries ==
    LET columns == [op |-> "cmp", cmp |-> "=", left |-> [column |-> 1, bare |-> TRUE],
                    right |-> [literal |-> FALSE, column |-> 1]]
        cast == [op |-> "cmp", cmp |-> "=", left |-> [column |-> 1, bare |-> FALSE],
                 right |-> [literal |-> TRUE, value |-> Value(1, 1)]]
    IN  Ask(<<>>) \cup Ask(<<columns>>) \cup Ask(<<cast>>)
        \cup Ask(<<Both("or", Comparison(1, "=", 0), cast)>>)
        \cup {[filters |-> <<>>, columns |-> {}, limit |-> NoLimit]}

Condition(c, op, n) == [op |-> op, value |-> Value(c, n), values |-> {}]
OneFilter ==
    {{[column |-> 1, conditions |-> {Condition(1, op, n), Condition(1, "=", 0)}]} :
        op \in Comparisons, n \in {0, 1}}
TwoFilters ==
    {f \cup {[column |-> 2, conditions |-> {Condition(2, "!=", 1)}]} : f \in OneFilter}
PagedQueries ==
    [filters : {{}} \cup OneFilter \cup TwoFilters, offset : 0 .. 2, limit : {NoLimit, 1, 2}]

PartsInit ==
    /\ part \in {"graph", "rows", "tool"}
    /\ GraphInit /\ RowsInit
    /\ ToolInit
    /\ part # "tool" => tab = "image"

PartsNext ==
    /\ UNCHANGED part
    /\ \/ part = "graph" /\ GraphNext /\ UNCHANGED <<rowVars, toolVars>>
       \/ part = "rows" /\ RowsNext /\ UNCHANGED <<graphVars, toolVars>>
       \/ part = "tool" /\ ToolNext /\ UNCHANGED <<graphVars, rowVars>>

PartsSpec == PartsInit /\ [][PartsNext]_<<part, graphVars, rowVars, toolVars>>
=============================================================================
