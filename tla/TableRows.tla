------------------------------ MODULE TableRows ------------------------------
(***************************************************************************)
(* The rows of one table of the multi-table engine (multi_table_rocksdb)   *)
(* and the two ways of asking for them: the typed query of the access      *)
(* layer and the SQL engine, whose planner hands filters, columns and a    *)
(* limit down to the table (rocksdb_table.rs).                             *)
(*                                                                         *)
(* Abstracted: a row is the sequence of its fields in column order, a      *)
(* field its kind and its place n in the order of its kind's values.  A    *)
(* string with n in 0..9 reads as that number, one with n = 10 is a word,  *)
(* and n = -1 is the empty string.  Joins, grouping and sorting are        *)
(* DataFusion's and work on what the scan gives it.                        *)
(***************************************************************************)
EXTENDS Integers, SequencesExt

CONSTANTS
    ColumnKinds,    \* the declared kind of each column, in column order
    RowData,        \* rows the clients store: sequences of fields
    Queries,        \* SQL queries asked: [filters, columns, limit]
    TypedQueries,   \* typed queries asked: [filters, offset, limit]
    NoLimit,        \* the limit of a query that has none
    MaxRows         \* bound: rows ever added

VARIABLES
    rows,           \* the table's rows in key order: [id, data]
    nextRow,        \* the row id generator (ids grow)
    asked           \* the query the last step answered, and its answer; the
                    \* next one is asked after a change

rowVars == <<rows, nextRow, asked>>

Columns == DOMAIN ColumnKinds
Empty == [kind |-> "none", n |-> 0]     \* a field without bytes
Blank == [kind |-> "str", n |-> -1]
Word == [kind |-> "str", n |-> 10]
IsNumber(f) == f.kind = "str" => f.n \in 0 .. 9

\* What the scan shows for a row that ends before the column.
ArrowKind(kind) == IF kind \in {"str", "int", "float", "bytes"} THEN kind ELSE "str"
DefaultOf(kind) == IF ArrowKind(kind) = "str" THEN Blank ELSE [kind |-> kind, n |-> 0]

(***************************************************************************)
(* Rows.                                                                   *)
(***************************************************************************)
Nothing == [query |-> <<>>, answer |-> <<>>]

RowsInit == rows = <<>> /\ nextRow = 1 /\ asked = Nothing

AddRow ==
    /\ nextRow <= MaxRows
    /\ \E d \in RowData : rows' = Append(rows, [id |-> nextRow, data |-> d])
    /\ nextRow' = nextRow + 1
    /\ asked' = Nothing

\* update_row of a row that is not there is refused; the answer is an error.
UpdateRow ==
    /\ \E i \in DOMAIN rows, d \in RowData : rows' = [rows EXCEPT ![i].data = d]
    /\ asked' = Nothing
    /\ UNCHANGED nextRow

\* delete_row deletes the key whether it is there or not.
DeleteRow ==
    /\ \E id \in 1 .. MaxRows : rows' = SelectSeq(rows, LAMBDA r : r.id # id)
    /\ asked' = Nothing
    /\ UNCHANGED nextRow

(***************************************************************************)
(* One condition on one field.                                             *)
(***************************************************************************)
Equal(f, v) == f.kind = v.kind /\ f.kind # "none" /\ f.n = v.n

\* Strings and numbers are compared as numbers when the string reads as one.
Ordered(f, v) ==
    \/ f.kind = v.kind /\ f.kind \in {"str", "int", "float"}
    \/ /\ {f.kind, v.kind} \in {{"str", "int"}, {"str", "float"}}
       /\ IsNumber(f) /\ IsNumber(v)

Greater(f, v) == Ordered(f, v) /\ f.n > v.n
Less(f, v) == Ordered(f, v) /\ f.n < v.n

CheckCondition(data, col, cond) ==
    LET f == data[col]
        v == cond.value
        any == \E w \in cond.values : Equal(f, w)
    IN  /\ col \in DOMAIN data
        /\ CASE cond.op = "=" -> Equal(f, v)
             [] cond.op = "!=" -> ~Equal(f, v)
             [] cond.op = ">" -> Greater(f, v)
             [] cond.op = ">=" -> Equal(f, v) \/ Greater(f, v)
             [] cond.op = "<" -> Less(f, v)
             [] cond.op = "<=" -> Equal(f, v) \/ Less(f, v)
             [] cond.op = "in" -> any
             [] cond.op = "not_in" -> cond.values # {} /\ ~any
             [] cond.op = "is_null" -> f = Empty
             [] cond.op = "is_not_null" -> f # Empty

(***************************************************************************)
(* The typed query: all column filters of the table hold, each by one of   *)
(* its conditions.  The offset and the limit cut the collected rows.       *)
(***************************************************************************)
\* A condition's value as the access layer hands it on.
Received(v) == IF v = Empty THEN Blank ELSE v

QueryTable(filters) ==
    LET meets(r) == \A cf \in filters : \E cond \in cf.conditions :
                        CheckCondition(r.data, cf.column,
                                       [cond EXCEPT !.value = Received(@),
                                                    !.values = {Received(w) : w \in @}])
    IN  SelectSeq(rows, meets)

\* The range start..end is drained from the rows found; a start past the end,
\* or an end past the width of usize (an offset without a limit), panics.
Given(answer) == [given |-> TRUE, rows |-> answer]
NotGiven == [given |-> FALSE, rows |-> <<>>]

QueryRows(filters, offset, limit) ==
    LET found == QueryTable(filters)
    IN  IF offset > Len(found) \/ (limit = NoLimit /\ offset > 0) THEN NotGiven
        ELSE Given(SubSeq(found, offset + 1,
                          IF limit = NoLimit \/ offset + limit > Len(found) THEN Len(found)
                          ELSE offset + limit))

AskTyped ==
    /\ asked = Nothing
    /\ \E q \in TypedQueries :
           asked' = [query |-> q, answer |-> QueryRows(q.filters, q.offset, q.limit)]
    /\ UNCHANGED <<rows, nextRow>>

(***************************************************************************)
(* SQL: an expression is and, or, not, a comparison [op, cmp, left, right] *)
(* or something else the table does not look into.  left is [column, bare],*)
(* bare unless the planner wrapped the column in a cast; right is a        *)
(* literal or a column.                                                    *)
(***************************************************************************)
Comparisons == {"=", "!=", "<", ">", "<=", ">="}

RECURSIVE IsSupported(_)
IsSupported(e) ==
    \/ e.op \in {"and", "or"} /\ IsSupported(e.left) /\ IsSupported(e.right)
    \/ e.op = "cmp" /\ e.cmp \in Comparisons

\* The comparison that holds where cmp does not.
Opposite(cmp) ==
    CASE cmp = "=" -> "!=" [] cmp = "!=" -> "="
      [] cmp = "<" -> ">=" [] cmp = ">" -> "<="
      [] cmp = "<=" -> ">" [] cmp = ">=" -> "<"

\* A literal is compared as it is; any other right side as its text.
RightField(right) == IF right.literal THEN right.value ELSE Word

HandleComparison(e, negate) ==
    IF ~e.left.bare THEN <<>>
    ELSE <<[column |-> e.left.column,
            conditions |-> {[op |-> IF negate THEN Opposite(e.cmp) ELSE e.cmp,
                             value |-> RightField(e.right), values |-> {}]}]>>

\* The items an expression becomes (one or none) and whether the caller is to
\* turn the whole result around.  Operands that become nothing are dropped.
RECURSIVE ParseExpr(_, _)
ParseExpr(e, negate) ==
    CASE e.op \in {"and", "or"} ->
           LET items == ParseExpr(e.left, negate).items \o ParseExpr(e.right, negate).items
               turned == e.op = "and" /\ negate
               relation == IF negate THEN IF e.op = "and" THEN "or" ELSE "and" ELSE e.op
           IN  IF items = <<>> \/ (Len(items) = 1 /\ ~turned)
               THEN [items |-> items, turn |-> FALSE]
               ELSE [items |-> <<[relation |-> relation, items |-> items]>>, turn |-> turned]
      [] e.op = "not" -> ParseExpr(e.arg, ~negate)
      [] e.op = "cmp" -> [items |-> HandleComparison(e, negate), turn |-> FALSE]
      [] OTHER -> [items |-> <<>>, turn |-> FALSE]

ParseFilters(filters) ==
    LET parsed == [i \in DOMAIN filters |-> ParseExpr(filters[i], FALSE)]
    IN  [group |-> [relation |-> "and",
                    items |-> FoldLeft(LAMBDA acc, p : acc \o p.items, <<>>, parsed)],
         negate |-> FoldLeft(LAMBDA acc, p : acc # p.turn, FALSE, parsed)]

RECURSIVE CheckGroup(_, _)
CheckItem(data, item) ==
    IF "column" \in DOMAIN item
    THEN \E cond \in item.conditions : CheckCondition(data, item.column, cond)
    ELSE CheckGroup(data, item)
CheckGroup(data, group) ==
    LET checks == {CheckItem(data, group.items[i]) : i \in DOMAIN group.items}
    IN  IF group.relation = "and" THEN FALSE \notin checks
        ELSE TRUE \in checks \/ checks = {}

(***************************************************************************)
(* The scan: the rows that pass the filters, cut to the limit, are turned  *)
(* into one array per column.  A column whose values are of several kinds  *)
(* is replaced by defaults; a column of one kind that is not the declared  *)
(* one fails the scan.  Without rows or columns the batch is empty.        *)
(***************************************************************************)
ColumnArray(found, col) ==
    LET shown == [i \in DOMAIN found |->
                     LET d == found[i].data
                     IN  IF col \notin DOMAIN d THEN DefaultOf(ColumnKinds[col])
                         ELSE IF ArrowKind(d[col].kind) # d[col].kind THEN Blank ELSE d[col]]
        kinds == {shown[i].kind : i \in DOMAIN found}
    IN  IF \E k \in kinds : kinds # {k} THEN [i \in DOMAIN found |-> DefaultOf(ColumnKinds[col])]
        ELSE shown

Taken(s, limit) == IF limit = NoLimit \/ limit > Len(s) THEN s ELSE SubSeq(s, 1, limit)

FilteredRows(parsed) ==
    SelectSeq(rows, LAMBDA r : CheckGroup(r.data, parsed.group) # parsed.negate)

\* Mutant: the limit cuts the table, not the rows that pass.
ScanLimitFirst(parsed, columns, limit) ==
    LET first == Taken(rows, limit)
        found == SelectSeq(first, LAMBDA r : CheckGroup(r.data, parsed.group) # parsed.negate)
        arrays == [c \in columns |-> ColumnArray(found, c)]
    IN  IF columns = {} \/ found = <<>> THEN Given(<<>>)
        ELSE IF \E c \in columns : arrays[c][1].kind # ArrowKind(ColumnKinds[c]) THEN NotGiven
        ELSE Given([i \in DOMAIN found |-> [c \in columns |-> arrays[c][i]]])

\* A batch is a sequence of rows, each a function from the columns asked for.
Scan(parsed, columns, limit) ==
    LET found == Taken(FilteredRows(parsed), limit)
        arrays == [c \in columns |-> ColumnArray(found, c)]
    IN  IF columns = {} \/ found = <<>> THEN Given(<<>>)
        ELSE IF \E c \in columns : arrays[c][1].kind # ArrowKind(ColumnKinds[c]) THEN NotGiven
        ELSE Given([i \in DOMAIN found |-> [c \in columns |-> arrays[c][i]]])

(***************************************************************************)
(* SQL's own meaning of an expression on a row as it is shown.  What the   *)
(* table does not look into ("other") is taken to hold for every row.      *)
(***************************************************************************)
Compares(f, cmp, v) ==
    CASE cmp = "=" -> f.n = v.n [] cmp = "!=" -> f.n # v.n
      [] cmp = "<" -> f.n < v.n [] cmp = ">" -> f.n > v.n
      [] cmp = "<=" -> f.n <= v.n [] cmp = ">=" -> f.n >= v.n

RECURSIVE Holds(_, _)
Holds(e, shown) ==
    CASE e.op = "and" -> Holds(e.left, shown) /\ Holds(e.right, shown)
      [] e.op = "or" -> Holds(e.left, shown) \/ Holds(e.right, shown)
      [] e.op = "not" -> ~Holds(e.arg, shown)
      [] e.op = "cmp" -> Compares(shown[e.left.column], e.cmp,
                                  IF e.right.literal THEN e.right.value
                                  ELSE shown[e.right.column])
      [] OTHER -> TRUE

AllHold(filters, shown) == \A i \in DOMAIN filters : Holds(filters[i], shown)

Shown(batch, columns) == [i \in DOMAIN batch |-> [c \in columns |-> batch[i][c]]]

(***************************************************************************)
(* A SELECT of columns with WHERE filters and LIMIT.  The planner asks the *)
(* table which filters it takes, hands those down, and the limit with them *)
(* when none is left over; the others it applies to the batch, for which   *)
(* the scan also gives their columns.                                      *)
(***************************************************************************)
SqlAnswer(q) ==
    LET pushed == SelectSeq(q.filters, IsSupported)
        kept == SelectSeq(q.filters, LAMBDA e : ~IsSupported(e))
        columns == IF kept = <<>> THEN q.columns ELSE Columns
        batch == Scan(ParseFilters(pushed), columns,
                      IF kept = <<>> THEN q.limit ELSE NoLimit)
    IN  [batch EXCEPT !.rows =
            Shown(Taken(SelectSeq(@, LAMBDA s : AllHold(kept, s)), q.limit), q.columns)]

AskSql ==
    /\ asked = Nothing
    /\ \E q \in Queries : asked' = [query |-> q, answer |-> SqlAnswer(q)]
    /\ UNCHANGED <<rows, nextRow>>

RowsNext == AddRow \/ UpdateRow \/ DeleteRow \/ AskTyped \/ AskSql

RowsSpec == RowsInit /\ [][RowsNext]_rowVars

(***************************************************************************)
(* Properties.                                                             *)
(***************************************************************************)
Sql(q) == "columns" \in DOMAIN q
Typed(q) == "offset" \in DOMAIN q

\* Filtering every row in memory, for a SQL query and for a typed one.
InMemory(q) ==
    LET all == [i \in DOMAIN rows |-> [c \in Columns |-> rows[i].data[c]]]
    IN  Shown(Taken(SelectSeq(all, LAMBDA s : AllHold(q.filters, s)), q.limit), q.columns)

InMemoryTyped(q) ==
    LET meets(r) == \A cf \in q.filters : \E cond \in cf.conditions :
                        Compares(r.data[cf.column], cond.op, cond.value)
        found == SelectSeq(rows, meets)
    IN  Taken(SubSeq(found, q.offset + 1, Len(found)), q.limit)

Whole(data) ==
    DOMAIN data = Columns /\ \A c \in Columns : data[c].kind = ColumnKinds[c]

\* A comparison of a column with a literal of its kind; bytes are compared for
\* equality only.
PlainComparison(col, cmp, v) ==
    v.kind = ColumnKinds[col] /\ (v.kind = "bytes" => cmp \in {"=", "!="})

RECURSIVE Plain(_)
Plain(e) ==
    CASE e.op \in {"and", "or"} -> Plain(e.left) /\ Plain(e.right)
      [] e.op = "not" -> Plain(e.arg)
      [] e.op = "cmp" -> /\ e.left.bare /\ e.right.literal
                         /\ PlainComparison(e.left.column, e.cmp, e.right.value)
      [] OTHER -> TRUE

PlainTyped(q) ==
    \A cf \in q.filters : \A cond \in cf.conditions :
        cond.op \in Comparisons /\ PlainComparison(cf.column, cond.op, cond.value)

\* An answer is what filtering in memory gives, for rows that fill their columns
\* and plain filters: of SQL, whose filters, columns and limit go down to the
\* table (supports_filters_pushdown reports Exact, and DataFusion checks no row
\* again), and of a typed query whose page is answered at all.
AnswersExact ==
    LET q == asked.query
    IN  (asked # Nothing /\ \A i \in DOMAIN rows : Whole(rows[i].data)) =>
            /\ (Sql(q) /\ q.columns # {} /\ \A i \in DOMAIN q.filters : Plain(q.filters[i]))
                   => asked.answer = Given(InMemory(q))
            /\ (Typed(q) /\ PlainTyped(q) /\ asked.answer.given)
                   => asked.answer.rows = InMemoryTyped(q)

(***************************************************************************)
(* Claims of the docs and comments that TLC refutes.                       *)
(***************************************************************************)
\* The comment of supports_filters_pushdown: what is reported Exact gives the
\* rows that filtering in memory gives.  Refuted by a column compared with a
\* column, by a cast, and by an OR one side of which is dropped.
ExactAsDocumented ==
    (asked # Nothing /\ \A i \in DOMAIN rows : Whole(rows[i].data)) =>
        (Sql(asked.query) /\ asked.query.columns # {}
            => asked.answer = Given(InMemory(asked.query)))

\* The guide counts the rows of a table with COUNT(*), for which the scan is
\* asked for no column at all.  Refuted by any row.
CountsRows ==
    LET q == asked.query
    IN  asked # Nothing /\ Sql(q) /\ q.columns = {} /\ q.filters = <<>> =>
            Len(asked.answer.rows) = Len(Taken(rows, q.limit))

\* The API's offset is the number of results to skip.  Refuted by an offset
\* without a limit and by one past the last row.
OffsetSkips ==
    LET q == asked.query
    IN  asked # Nothing /\ Typed(q) /\ q.filters = {} =>
            asked.answer = Given(Taken(SubSeq(rows, q.offset + 1, Len(rows)), q.limit))

\* An answer shows what the rows hold.  Refuted by two rows of which one has an
\* empty field: every row of the answer shows the column's default.
ValuesShown ==
    LET q == asked.query
    IN  asked # Nothing /\ Sql(q) /\ q.filters = <<>> =>
            \A i \in DOMAIN asked.answer.rows, c \in q.columns :
                c \in DOMAIN rows[i].data /\ rows[i].data[c] # Empty
                    => asked.answer.rows[i][c] = rows[i].data[c]

=============================================================================
