------------------------------- MODULE Access -------------------------------
(***************************************************************************)
(* The access layer (src/src/access): sessions, permissions, and how the   *)
(* gRPC and REST handlers hand a request to the database service and its   *)
(* answer back.  A handler asks for a session and for a permission, then   *)
(* calls the service: once, or twice to add a row through REST, and others *)
(* are served in between.                                                  *)
(*                                                                         *)
(* The service is one table of one column, which keeps rows and pairs of   *)
(* key and value as it gets them.  The other calls of the service and      *)
(* those of the index service (TextIndex) change nothing here.  A text of  *)
(* a client is a record: text; bytes, what it stands for when it is an     *)
(* even number of hexadecimal digits, or else itself; and reads, the kinds *)
(* of number it reads as.  A gRPC client sends bytes and encoded fields.   *)
(***************************************************************************)
EXTENDS Integers, FiniteSets, SequencesExt

CONSTANTS
    Callers,      \* requests in progress at a time
    Rules,        \* the permissions a service may be configured with
    NoRule,       \* no permissions are configured for the service
    Requested,    \* what callers ask: [front, op, schema, table, kind, text]
    NotJson,      \* fields whose values JSON has no form for
    Ttl,          \* how long a session lasts
    MaxTime,      \* bound on the time
    MaxLogins,    \* bound on the logins
    MaxTables,    \* bound on the tables created
    MaxRows,      \* bound on the rows added
    MaxCalls,     \* bound on the requests
    None          \* no table, no call, no answer

(* The types of a column of the service. *)
ColumnKinds == {"string", "int", "float", "bytes", "list", "image"}

ASSUME AccessAssumption ==
    /\ Ttl \in Nat /\ NoRule \notin Rules
    /\ \A r \in Requested : /\ r.front \in {"grpc", "rest"}
                            /\ r.op = "create_table" => r.kind \in ColumnKinds

VARIABLES
    rule,       \* the permissions of the service, or NoRule
    now,        \* the time
    tokens,     \* TokenManager: when each token expires
    logins,     \* history: when each token was given out, and whether it was
                \* taken back since
    table,      \* [id, kind, pairs], or None
    tables,     \* the tables created so far
    rows,       \* the rows of the table: [id, field] and, as history, sent
                \* (the value meant) and by (who wrote it)
    lastRow,    \* the last row id given out
    call,       \* what each caller is at
    calls,      \* the requests so far
    reply       \* the answer given last

sessionVars == <<now, tokens, logins>>
dataVars == <<table, tables, rows, lastRow>>
accessVars == <<rule, sessionVars, dataVars, call, calls, reply>>

AccessInit ==
    /\ rule \in Rules \cup {NoRule}
    /\ now = 0 /\ tokens = <<>> /\ logins = <<>>
    /\ table = None /\ tables = 0 /\ rows = <<>> /\ lastRow = 0
    /\ call = [c \in Callers |-> None] /\ calls = 0
    /\ reply = None

(* A map with one more entry, or another one. *)
With(map, key, value) ==
    [k \in DOMAIN map \cup {key} |-> IF k = key THEN value ELSE map[k]]

-----------------------------------------------------------------------------
(* Sessions.  Tokens are numbered as they are given out.                   *)

(* As if a token were no longer good when its time has just come. *)
IsExpiredEarly(token) == now >= tokens[token]

IsExpired(token) == now > tokens[token]

ValidateToken(token) == token \in DOMAIN tokens /\ ~IsExpired(token)

Login(right) ==
    /\ Len(logins) < MaxLogins
    /\ IF ~right THEN UNCHANGED <<tokens, logins>>
       ELSE /\ tokens' = With(tokens, Len(logins) + 1, now + Ttl)
            /\ logins' = Append(logins, [at |-> now, out |-> FALSE])
    /\ reply' = None
    /\ UNCHANGED <<rule, now, dataVars, call, calls>>

(* REST asks for a session to log out, gRPC does not; the token taken back *)
(* is the one the request names.                                           *)
Logout(front, session, token) ==
    /\ token \in DOMAIN tokens
    /\ IF front = "rest" /\ ~ValidateToken(session) THEN UNCHANGED <<tokens, logins>>
       ELSE /\ tokens' = [t \in DOMAIN tokens \ {token} |-> tokens[t]]
            /\ logins' = [logins EXCEPT ![token].out = TRUE]
    /\ reply' = None
    /\ UNCHANGED <<rule, now, dataVars, call, calls>>

Tick ==
    /\ now < MaxTime /\ now' = now + 1
    /\ UNCHANGED <<rule, tokens, logins, dataVars, call, calls, reply>>

(* The server is stopped and started: tokens are in memory only. *)
Restart ==
    /\ tokens' = <<>> /\ logins' = [t \in DOMAIN logins |-> [logins[t] EXCEPT !.out = TRUE]]
    /\ call' = [c \in Callers |-> None] /\ reply' = None
    /\ UNCHANGED <<rule, now, dataVars, calls>>

-----------------------------------------------------------------------------
(* Permissions.  A rule is [default, allowed, denied, within]; within is   *)
(* empty or has the one record [schemas, notSchemas, tables, notTables].   *)

Scopeless == {"get_version", "update_table_comment", "update_column_comment"}
SchemaOps == {"list_tables", "get_all_meta", "get_schema_info"}
TableOps ==
    {"get", "put", "delete", "create_table", "drop_table", "list_table_cols", "get_table_meta",
     "add_row", "get_row", "delete_row", "update_row"}
QueryOps == {"query", "sql_query", "refresh_tables"}
IndexAdminOps == {"create_index", "drop_index", "list_indices"}
IndexMetaOps == {"get_index_fields", "get_index_meta"}
SearchOps == {"search_index", "search_multi_field", "get_index_stats"}
DocumentOps == {"add_document", "get_document", "delete_document", "list_documents"}
IndexOps == IndexAdminOps \cup IndexMetaOps \cup SearchOps \cup DocumentOps \cup {"classify_images"}

(* What the handler of an operation asks permission for. *)
Asks(r) ==
    CASE r.op \in TableOps -> {[action |-> r.op, schema |-> r.schema, tables |-> {r.table}]}
      [] r.op \in SchemaOps -> {[action |-> r.op, schema |-> r.schema, tables |-> {}]}
      [] r.op \in QueryOps -> {[action |-> "query", schema |-> r.schema, tables |-> {}]}
      [] r.op = "list_schemas" -> {[action |-> "list_tables", schema |-> "sys", tables |-> {}]}
      [] OTHER -> {}

(* Which handlers ask for a session. *)
AsksSession(r) == r.front = "rest" \/ r.op \in {"get", "sql_query"} \cup IndexOps

(* A name that is not listed as allowed is allowed if none is listed. *)
Listed(name, names) == names = {} \/ name \in names
Covers(actions, action) == {action, "all"} \cap actions # {}

CheckTablePermission(w, asked) ==
    /\ Listed(asked.schema, w.schemas) /\ asked.schema \notin w.notSchemas
    /\ \A t \in asked.tables : Listed(t, w.tables) /\ t \notin w.notTables

(* As if allowed actions were looked at before denied ones. *)
CheckPermissionAllowedFirst(p, asked) ==
    IF p = NoRule THEN TRUE
    ELSE IF Covers(p.allowed, asked.action)
    THEN \A w \in p.within : CheckTablePermission(w, asked)
    ELSE ~Covers(p.denied, asked.action) /\ p.default = "allow"

(* A service without rules of its own may do everything. *)
CheckPermission(p, asked) ==
    IF p = NoRule THEN TRUE
    ELSE /\ ~Covers(p.denied, asked.action)
         /\ IF Covers(p.allowed, asked.action)
            THEN \A w \in p.within : CheckTablePermission(w, asked)
            ELSE p.default = "allow"

-----------------------------------------------------------------------------
(* Values.  A stored field is [kind, value]; one of kind "raw" is bytes    *)
(* that encode no field.                                                   *)

DecodeHex(t) == t.bytes

(* As if every column were taken for one of texts. *)
RestFieldUntyped(kind, t) == {[kind |-> "string", value |-> t.text]}

(* The field a text becomes in a column, if it can.  Columns of lists and  *)
(* images get strings.                                                     *)
RestField(kind, t) ==
    CASE kind \in {"int", "float"} ->
           {f \in {[kind |-> kind, value |-> t.text]} : kind \in t.reads}
      [] kind = "bytes" -> {[kind |-> "bytes", value |-> DecodeHex(t)]}
      [] OTHER -> {[kind |-> "string", value |-> t.text]}

(* Through gRPC the client encodes the field itself. *)
GrpcField(kind, t) == [kind |-> kind, value |-> t.text]

(* To update a row through REST texts are taken for bytes. *)
RawField(t) == [kind |-> "raw", value |-> DecodeHex(t)]

(* How the answer to a SQL query shows a field. *)
Shown(front, f) ==
    CASE f.kind \notin {"string", "int", "float", "bytes"} -> "nothing"
      [] f.kind \in {"string", "int", "float", "bytes"} ->
           IF front = "rest" /\ f \in NotJson THEN "nothing" ELSE f.value

(* The kind of the values a column shows. *)
ShownKind(kind) == IF kind \in {"list", "image"} THEN "string" ELSE kind

-----------------------------------------------------------------------------
(* Requests.                                                               *)

Live(token) ==
    /\ token \in DOMAIN logins /\ ~logins[token].out
    /\ now <= logins[token].at + Ttl

ReplyTo(status, r) == [status |-> status, request |-> r, live |-> FALSE, shown |-> <<>>]

(* A request arrives: its session is looked at, then its permission. *)
Arrive(c, r, token) ==
    /\ call[c] = None /\ calls < MaxCalls /\ calls' = calls + 1
    /\ LET refuse(status) ==
               /\ reply' = [ReplyTo(status, r) EXCEPT !.live = Live(token)]
               /\ UNCHANGED call
       IN  IF AsksSession(r) /\ ~ValidateToken(token) THEN refuse("unauthenticated")
           ELSE IF \E asked \in Asks(r) : ~CheckPermission(rule, asked) THEN refuse("denied")
           ELSE /\ call' = [call EXCEPT ![c] = [request |-> r, live |-> Live(token), field |-> {},
                                                read |-> 0]]
                /\ reply' = None
    /\ UNCHANGED <<rule, sessionVars, dataVars>>

Done(c, it) == reply' = it /\ call' = [call EXCEPT ![c] = None]
Reply(c, status) == Done(c, ReplyTo(status, call[c].request))
At(c, op) == call[c] # None /\ call[c].request.op = op
Fails(c) == Reply(c, "error") /\ UNCHANGED <<rule, sessionVars, dataVars, calls>>

CreateTable(c) ==
    /\ At(c, "create_table") /\ tables < MaxTables
    /\ \/ table # None /\ Fails(c)
       \/ /\ table = None
          /\ table' = [id |-> tables + 1, kind |-> call[c].request.kind, pairs |-> <<>>]
          /\ tables' = tables + 1
          /\ Reply(c, "done")
          /\ UNCHANGED <<rule, sessionVars, rows, lastRow, calls>>

DropTable(c) ==
    /\ At(c, "drop_table")
    /\ \/ table = None /\ Fails(c)
       \/ /\ table # None /\ table' = None /\ rows' = <<>>
          /\ Reply(c, "done")
          /\ UNCHANGED <<rule, sessionVars, tables, lastRow, calls>>

(* add_row_handler asks for the columns (a table that is not there has     *)
(* none) and encodes the texts by their types.                             *)
Converted(c) == call[c].request.front = "grpc" \/ call[c].field # {}
ReadColumns(c) ==
    /\ At(c, "add_row") /\ ~Converted(c)
    /\ LET t == call[c].request.text
           field == RestField(IF table = None THEN "string" ELSE table.kind, t)
       IN  \/ field = {} /\ Fails(c)
           \/ /\ field # {}
              /\ call' = [call EXCEPT ![c].field = field,
                                      ![c].read = IF table = None THEN 0 ELSE table.id]
              /\ UNCHANGED <<rule, sessionVars, dataVars, calls, reply>>

FieldOf(c) ==
    LET r == call[c].request
    IN  IF r.front = "grpc" THEN GrpcField(r.kind, r.text)
        ELSE IF r.op = "update_row" THEN RawField(r.text)
        ELSE CHOOSE f \in call[c].field : TRUE

(* Bytes are meant by their digits, everything else as it is written. *)
Sent(r) ==
    IF r.front = "rest" /\ table.kind = "bytes" THEN r.text.bytes ELSE r.text.text
Row(c, id) ==
    LET r == call[c].request
    IN  [id |-> id, field |-> FieldOf(c), sent |-> Sent(r),
         by |-> IF r.front = "grpc" THEN "grpc"
                ELSE IF r.op = "update_row" THEN "raw"
                ELSE IF call[c].read = table.id THEN "rest" ELSE "stale"]

AddRow(c) ==
    /\ At(c, "add_row") /\ Converted(c) /\ lastRow < MaxRows
    /\ \/ table = None /\ Fails(c)
       \/ /\ table # None
          /\ rows' = Append(rows, Row(c, lastRow + 1)) /\ lastRow' = lastRow + 1
          /\ Reply(c, "done")
          /\ UNCHANGED <<rule, sessionVars, table, tables, calls>>

UpdateRow(c, id) ==
    /\ At(c, "update_row")
    /\ \/ table = None /\ Fails(c)
       \/ table # None /\ (\A i \in DOMAIN rows : rows[i].id # id) /\ Fails(c)
       \/ /\ table # None
          /\ \E i \in DOMAIN rows : rows[i].id = id /\ rows' = [rows EXCEPT ![i] = Row(c, id)]
          /\ Reply(c, "done")
          /\ UNCHANGED <<rule, sessionVars, table, tables, lastRow, calls>>

(* A row id is given out once. *)
DeleteRow(c, id) ==
    /\ At(c, "delete_row")
    /\ \/ table = None /\ Fails(c)
       \/ /\ table # None
          /\ \/ (\A i \in DOMAIN rows : rows[i].id # id) /\ rows' = rows
             \/ \E i \in DOMAIN rows : rows[i].id = id /\ rows' = RemoveAt(rows, i)
          /\ Reply(c, "done")
          /\ UNCHANGED <<rule, sessionVars, table, tables, lastRow, calls>>

KeyOf(r) == IF r.front = "rest" THEN DecodeHex(r.text) ELSE r.text.text

Keyed == {KeyOf(r) : r \in Requested}
TableStates ==
    [id : Nat \ {0}, kind : ColumnKinds,
     pairs : UNION {[ks -> {r.text : r \in Requested}] : ks \in SUBSET Keyed}]

ASSUME NoneAssumption == None \notin TableStates

PutPair(c) ==
    /\ At(c, "put")
    /\ \/ table = None /\ Fails(c)
       \/ /\ table # None
          /\ table' = [table EXCEPT !.pairs = With(@, KeyOf(call[c].request), call[c].request.text)]
          /\ Reply(c, "done")
          /\ UNCHANGED <<rule, sessionVars, tables, rows, lastRow, calls>>

DeletePair(c) ==
    /\ At(c, "delete")
    /\ \/ table = None /\ Fails(c)
       \/ /\ table # None
          /\ table' = [table EXCEPT !.pairs =
                           [k \in DOMAIN @ \ {KeyOf(call[c].request)} |-> @[k]]]
          /\ Reply(c, "done")
          /\ UNCHANGED <<rule, sessionVars, tables, rows, lastRow, calls>>

(* The value shown is the key it was put under. *)
GetPair(c) ==
    LET r == call[c].request
        key == KeyOf(r)
    IN  /\ At(c, "get")
        /\ \/ table = None /\ Fails(c)
           \/ /\ table # None
              /\ Done(c, [ReplyTo("value", r) EXCEPT !.shown =
                              IF key \in DOMAIN table.pairs THEN <<table.pairs[key]>> ELSE <<>>])
              /\ UNCHANGED <<rule, sessionVars, dataVars, calls>>

(* A SQL query of all rows.  What it shows when a field is not of the      *)
(* column's kind, or when there are pairs among the rows, is up to the     *)
(* scan (TableRows).                                                       *)
SqlQuery(c) ==
    LET r == call[c].request
        fits == /\ table # None /\ DOMAIN table.pairs = {}
                /\ \A i \in DOMAIN rows : rows[i].field.kind = ShownKind(table.kind)
        show(i) == [value |-> Shown(r.front, rows[i].field), row |-> rows[i]]
    IN  /\ At(c, "sql_query")
        /\ \/ ~fits /\ Reply(c, "other")
           \/ /\ fits
              /\ Done(c, [ReplyTo("rows", r) EXCEPT !.shown = [i \in DOMAIN rows |-> show(i)]])
        /\ UNCHANGED <<rule, sessionVars, dataVars, calls>>

Modelled == {"create_table", "drop_table", "add_row", "update_row", "delete_row", "put", "delete",
             "get", "sql_query"}

(* All other handlers: one call, which is answered or fails.  Those of the *)
(* index and image services fail too when their service is not configured. *)
Forward(c) ==
    /\ call[c] # None /\ call[c].request.op \notin Modelled
    /\ \E status \in {"served", "error"} : Reply(c, status)
    /\ UNCHANGED <<rule, sessionVars, dataVars, calls>>

Serve(c) ==
    \/ CreateTable(c) \/ DropTable(c) \/ ReadColumns(c) \/ AddRow(c)
    \/ PutPair(c) \/ DeletePair(c) \/ GetPair(c) \/ SqlQuery(c) \/ Forward(c)
    \/ \E id \in 1 .. MaxRows : UpdateRow(c, id) \/ DeleteRow(c, id)

(* A token that was never given out is 0. *)
Tokens == 0 .. MaxLogins

SessionNext ==
    \/ \E right \in BOOLEAN : Login(right)
    \/ \E front \in {"grpc", "rest"}, session, token \in Tokens : Logout(front, session, token)
    \/ Tick \/ Restart

CallNext(requests, asking) ==
    \E c \in Callers :
        Serve(c) \/ \E r \in requests, token \in asking : Arrive(c, r, token)

AccessNext == SessionNext \/ CallNext(Requested, Tokens)

AccessSpec == AccessInit /\ [][AccessNext]_accessVars
-----------------------------------------------------------------------------
(* Properties.                                                             *)

NarrowedNames(wide, names) == wide = {} \/ (names # {} /\ names \subseteq wide)

(* Rule n takes from p and adds nothing.  To be listed as allowed is no    *)
(* mere addition: such an action is held to the limits on tables, which    *)
(* the default does not look at.                                           *)
Narrower(n, p) ==
    /\ n.allowed = p.allowed /\ p.denied \subseteq n.denied
    /\ n.default \in {p.default, "deny"}
    /\ \A w \in p.within : \E v \in n.within :
          /\ NarrowedNames(w.schemas, v.schemas) /\ w.notSchemas \subseteq v.notSchemas
          /\ NarrowedNames(w.tables, v.tables) /\ w.notTables \subseteq v.notTables

(* CallsDecided.  A request is turned away for its session only if that    *)
(* session is over: taken back, past its time or lost by a restart; and a  *)
(* handler that asks for one serves nobody whose session was over on       *)
(* arrival (validate_token, validate_auth, auth_middleware).  What a rule  *)
(* denies by name is never served, and what it refuses every narrower rule *)
(* refuses too (check_service_permission).                                 *)
CallsDecided ==
    /\ reply # None /\ reply.status = "unauthenticated" => ~reply.live
    /\ reply # None /\ reply.status = "denied" =>
          \A n \in {r \in Rules : Narrower(r, rule)} :
              \E asked \in Asks(reply.request) : ~CheckPermission(n, asked)
    /\ \A c \in Callers : call[c] # None =>
          /\ AsksSession(call[c].request) => call[c].live
          /\ rule # NoRule =>
                \A asked \in Asks(call[c].request) : ~Covers(rule.denied, asked.action)

(* RowsReadBack.  A row added through REST to the table whose columns its  *)
(* handler read has a value of the column's kind, and a SQL answer shows   *)
(* every row as it was sent through either front, but for REST values JSON *)
(* has no form for (convert_rest_row_to_db_row_with_columns, sql_query).   *)
RowsReadBack ==
    /\ table # None => \A i \in DOMAIN rows :
          rows[i].by = "rest" => rows[i].field.kind = ShownKind(table.kind)
    /\ reply # None => \A i \in DOMAIN reply.shown :
          reply.status = "rows" =>
              LET shown == reply.shown[i]
              IN  \/ shown.value = shown.row.sent
                  \/ reply.request.front = "rest" /\ shown.row.field \in NotJson

-----------------------------------------------------------------------------
(* Claims of the docs and comments that TLC refutes.                       *)

(* RowsAlwaysFit: a row added through REST is one of its table's column.   *)
(* Refuted when the table is dropped and created again between the two     *)
(* calls of the insert.                                                    *)
RowsAlwaysFit ==
    table # None => \A i \in DOMAIN rows :
        rows[i].by \in {"rest", "stale"} => rows[i].field.kind = ShownKind(table.kind)

(* UpdatesFit: nor does an update through REST, which takes the same texts *)
(* as an insert, leave anything else.                                      *)
UpdatesFit ==
    table # None => \A i \in DOMAIN rows :
        rows[i].by \in {"rest", "raw"} => rows[i].field.kind = ShownKind(table.kind)

(* KeysDistinct: REST gets what was put under the same text.  Refuted by   *)
(* two texts that stand for the same bytes.                                *)
KeysDistinct ==
    reply # None /\ reply.status = "value" /\ reply.request.front = "rest" =>
        \A i \in DOMAIN reply.shown : reply.shown[i] = reply.request.text
=============================================================================
