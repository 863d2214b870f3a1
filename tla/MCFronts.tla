------------------------------ MODULE MCFronts ------------------------------
(***************************************************************************)
(* What clients see, for TLC: walks through a bucket of six keys, of which *)
(* the first has another prefix and 3, 4 and 5 lie in one folder, whose    *)
(* slash encodes to something before it; requests for single objects       *)
(* through all protocols; and the access layer, where sessions begin and   *)
(* end, where rows and pairs are written and read, and where every rule of *)
(* a family meets a request.  A behaviour is one of one of the five parts. *)
(***************************************************************************)
EXTENDS ObjectListing, ObjectFronts, Access

VARIABLE part

PrefixedKeys == 2 .. 6
Folders == [k \in 1 .. 6 |-> IF k \in 3 .. 5 THEN "folder/" ELSE "none"]
EncodedKeys == [k \in 1 .. 6 |-> IF k \in 3 .. 5 THEN 2 ELSE k]

Name(trail) == [lead |-> FALSE, base |-> "a", trail |-> trail]
ObjectAndFolder == {Name(FALSE), Name(TRUE)}

Param(name, value) == [name |-> name, value |-> value]
Signed(auth, query) ==
    [auth : {auth}, query : query, dated : {"x-amz-date"}, runs : {FALSE}, spaced : {TRUE},
     hashed : BOOLEAN]
PlainSignatures ==
    {s \in Signed("header", {<<>>, <<Param(2, 1), Param(1, 1)>>})
          \cup Signed("query", {<<Param(2, 1), Param(3, 1), Param(1, 1)>>}) :
        s.auth = "query" => ~s.hashed}

\* Signatures the refuted claim is about.
OddSignatures ==
    LET s == CHOOSE x \in PlainSignatures : x.auth = "header"
    IN  {[s EXCEPT !.query = <<Param(1, 2), Param(1, 1)>>], [s EXCEPT !.runs = TRUE],
         [s EXCEPT !.dated = "date"], [s EXCEPT !.spaced = FALSE]}

-----------------------------------------------------------------------------
(* The access layer: digits of a letter, the letter, and a number that is  *)
(* none in JSON.                                                           *)
Digits == [text |-> "41", bytes |-> "A", reads |-> {"int", "float"}]
Letter == [text |-> "A", bytes |-> "A", reads |-> {}]
NaN == [text |-> "nan", bytes |-> "nan", reads |-> {"float"}]
NoForm == {[kind |-> "float", value |-> "nan"]}

Request(front, op, kind, text) ==
    [front |-> front, op |-> op, schema |-> "sys", table |-> "t", kind |-> kind, text |-> text]
SessionRequests ==
    {Request("grpc", op, "none", Digits) : op \in {"get", "put", "list_documents"}}
        \cup {Request("rest", "get", "none", Digits)}
RowRequests ==
    {Request("rest", "create_table", kind, Digits) : kind \in {"float", "bytes", "list"}}
        \cup {Request("rest", op, "none", text) :
                op \in {"add_row", "update_row"}, text \in {Digits, NaN}}
        \cup {Request("grpc", op, kind, NaN) :
                op \in {"add_row", "update_row"}, kind \in {"float", "string"}}
        \cup {Request("rest", op, "none", Digits) : op \in {"drop_table", "delete_row"}}
        \cup {Request(front, "sql_query", "none", Digits) : front \in {"rest", "grpc"}}
        \cup {Request("rest", op, "none", text) :
                op \in {"put", "get", "delete"}, text \in {Digits, Letter}}
RuleRequests ==
    {[Request("rest", op, "none", Digits) EXCEPT !.schema = schema, !.table = name] :
        op \in {"get", "list_tables", "sql_query"}, schema \in {"sys", "other"},
        name \in {"t", "u"}}
        \cup {Request("grpc", op, "none", Digits) : op \in {"list_schemas", "get_version"}}
AllRequests == SessionRequests \cup RowRequests \cup RuleRequests

Limits ==
    [schemas : {{}, {"sys"}}, notSchemas : {{}, {"sys"}}, tables : {{}, {"t"}},
     notTables : {{}, {"t"}}]
AllRules ==
    [default : {"allow", "deny"}, allowed : SUBSET {"get", "all"},
     denied : SUBSET {"get", "query"}, within : {{}} \cup {{w} : w \in Limits}]

AccessPart ==
    \/ part = "sessions" /\ (SessionNext \/ CallNext(SessionRequests, Tokens)) /\ calls' <= 3
    \/ part = "rows" /\ ((logins = <<>> /\ Login(TRUE)) \/ CallNext(RowRequests, {1}))
    \/ part = "rules"
       /\ ((logins = <<>> /\ Login(TRUE)) \/ CallNext(RuleRequests, {1})) /\ calls' <= 1

-----------------------------------------------------------------------------
Idle ==
    /\ request = [front |-> "grpc", reverse |-> FALSE, delimiter |-> FALSE]
    /\ stored = {} /\ kept = {} /\ lost = FALSE /\ misread = FALSE
    /\ marker = NoMarker /\ listed = <<>> /\ folders = {} /\ done = TRUE
    /\ changes = 0

FrontsInit ==
    /\ part \in {"walk", "objects", "sessions", "rows", "rules"}
    /\ FrontInit /\ AccessInit
    /\ part # "rules" => rule = NoRule
    /\ IF part = "walk" THEN ListInit ELSE Idle

FrontsNext ==
    \/ part = "walk" /\ ListNext /\ UNCHANGED <<part, frontVars, accessVars>>
    \/ part = "objects" /\ FrontNext /\ UNCHANGED <<part, listVars, accessVars>>
    \/ AccessPart /\ UNCHANGED <<part, listVars, frontVars>>

FrontsSpec ==
    FrontsInit /\ [][FrontsNext]_<<part, listVars, frontVars, accessVars>>
    /\ WF_listVars(part = "walk" /\ Page /\ UNCHANGED <<part, frontVars, accessVars>>)
=============================================================================
