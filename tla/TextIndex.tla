------------------------------ MODULE TextIndex ------------------------------
(***************************************************************************)
(* The text indexes: IndexServiceImpl (src/service/index.rs) over          *)
(* TantivyStorageEngine (laoflchdb_index_tantivy_engine/src/lib.rs).  An   *)
(* index is a folder with the files of tantivy, which a commit changes at  *)
(* once and durably, and a meta file, which is written in place.  The      *)
(* indexes that answer are those registered in memory: by creating them,   *)
(* or by a start that could read both.  A call that changes something      *)
(* holds the write lock from its start to its end, so there is one at a    *)
(* time, but it is several writes and the process may die between them.    *)
(***************************************************************************)
EXTENDS Integers, FiniteSets

CONSTANTS
    TextIndexes,  \* names of indexes
    DocIds,       \* the numbers that are ids of documents, 0 among them
    Odd,          \* an id that is not a number
    Contents,     \* contents of documents
    Gone,         \* no folder, no document, no index
    MaxWrites,    \* bound on the calls made
    MaxDowns,     \* bound on the times the process dies
    MaxErrors     \* bound on failing file operations

ASSUME TextAssumption ==
    /\ DocIds \subseteq Nat /\ 0 \in DocIds /\ Odd \notin DocIds
    /\ MaxWrites \in Nat /\ MaxDowns \in Nat /\ MaxErrors \in Nat

VARIABLES
    folders,   \* folders[i]: [files, docs, meta, next], or Gone
    open,      \* the registered indexes
    outdated,  \* the indexes without the columns added last
    write,     \* the call under way and its next step
    promised,  \* history: promised[i][d]: what was last answered to be the
               \* content of d; promised[i] = Gone: the index is dropped
    hurt,      \* history: indexes that a stop, an error or a rebuilding hit
               \* and that were not created anew since
    vague,     \* history: <<i, d>> when a call on d was cut short, or when a
               \* call that named no number changed d = 0
    writes, downs, errors

textVars == <<folders, open, outdated, write, promised, hurt, vague, writes, downs, errors>>

(* files: "whole"; "broken" when the index opens but cannot be read;       *)
(* "lost" when it does not open.  meta: "none", "torn" or "whole"; next is *)
(* its next_row_id.                                                        *)
Folder(docs, meta) == [files |-> "whole", docs |-> docs, meta |-> meta, next |-> 1]

NoWrite(op) == [op |-> op, index |-> Gone, doc |-> Gone, content |-> Gone, step |-> "none"]
Up == write.op # "down"
Free == write.op = "none"

(* get_document, and search and scan_documents, which show the same.       *)
GetDocument(i, d) == {p[2] : p \in {q \in folders[i].docs : q[1] = d}}
Readable(i) == i \in open /\ folders[i].files = "whole"

(* doc_id.parse().unwrap_or(0): update and delete take any id for one.     *)
Number(d) == IF d = Odd THEN 0 ELSE d

NoDocs == [d \in DocIds |-> Gone]

FolderStates ==
    [files : {"whole", "broken", "lost"}, docs : SUBSET (DocIds \X Contents),
     meta : {"none", "torn", "whole"}, next : Nat]

(* What is Gone is neither a content nor a folder nor a set of documents. *)
ASSUME GoneAssumption ==
    /\ Gone # Odd /\ Gone \notin Contents /\ Gone \notin FolderStates
    /\ Gone \notin [DocIds -> Contents \cup {Gone}]

TextInit ==
    /\ promised \in [TextIndexes -> {Gone} \cup [DocIds -> Contents \cup {Gone}]]
    /\ folders = [i \in TextIndexes |->
          IF promised[i] = Gone THEN Gone
          ELSE Folder({<<d, promised[i][d]>> : d \in {e \in DocIds : promised[i][e] # Gone}}, "whole")]
    /\ outdated \in SUBSET {i \in TextIndexes : promised[i] # Gone}
    /\ open = {} /\ write = NoWrite("down")
    /\ hurt = {} /\ vague = {} /\ writes = 0 /\ downs = 0 /\ errors = 0

-----------------------------------------------------------------------------
(* Starting: load_existing_tables passes over a folder whose meta file is  *)
(* missing or cannot be parsed, or whose index does not open.              *)
Loadable(f) == f # Gone /\ f.meta = "whole" /\ f.files # "lost"

StartIndexService ==
    /\ write.op = "down" /\ write' = NoWrite("none")
    /\ open' = {i \in TextIndexes : Loadable(folders[i])}
    /\ UNCHANGED <<folders, outdated, promised, hurt, vague, writes, downs, errors>>

Begin(op, i, d, c, step) ==
    /\ Free /\ writes < MaxWrites /\ writes' = writes + 1
    /\ write' = [op |-> op, index |-> i, doc |-> d, content |-> c, step |-> step]
    /\ UNCHANGED <<folders, outdated, promised, hurt, vague, downs, errors>>

(* A registered index is answered Ok and left as it is. *)
CreateIndex(i) == i \notin open /\ Begin("create", i, Gone, Gone, "clear") /\ UNCHANGED open

DropIndex(i) == i \in open /\ Begin("drop", i, Gone, Gone, "remove") /\ open' = open \ {i}

(* ensure_face_class_index drops an index without the new columns; that it *)
(* creates it again is a call of its own.                                  *)
EnsureFaceClassIndex(i) ==
    /\ i \in open \cap outdated
    /\ Begin("ensure", i, Gone, Gone, "remove") /\ open' = open \ {i}

(* An id that is there is refused, and so is one that is not a number.  An *)
(* empty id gets a number that no document has (Snowflake).                *)
AddDocument(i, d, c) ==
    /\ Readable(i) /\ d # Odd /\ GetDocument(i, d) = {}
    /\ Begin("add", i, d, c, "commit") /\ UNCHANGED open

(* A document that is not there is answered Ok. *)
UpdateDocument(i, d, c) ==
    /\ Readable(i) /\ GetDocument(i, Number(d)) # {}
    /\ Begin("update", i, d, c, "delete") /\ UNCHANGED open

DeleteDocument(i, d) == Readable(i) /\ Begin("delete", i, d, Gone, "delete") /\ UNCHANGED open

-----------------------------------------------------------------------------
At(step) == write.step = step
To(step) == write' = [write EXCEPT !.step = step] /\ UNCHANGED <<promised, hurt, vague>>
Into(f) == folders' = [folders EXCEPT ![write.index] = f]
Same == UNCHANGED <<writes, downs, errors>>

(* What is promised when the call returns Ok. *)
Promise ==
    LET i == write.index
    IN  CASE write.op = "create" -> [promised EXCEPT ![i] = NoDocs]
          [] write.op = "drop" -> [promised EXCEPT ![i] = Gone]
          [] write.op \in {"add", "update", "delete"} /\ write.doc # Odd ->
                 [promised EXCEPT ![i][write.doc] = write.content]
          [] OTHER -> promised

(* It returns Ok and every write of it was made. *)
Answer ==
    LET i == write.index  changed == {<<i, Number(write.doc)>>}
    IN  /\ write' = NoWrite("none") /\ promised' = Promise
        /\ hurt' = CASE write.op = "create" -> hurt \ {i}
                     [] write.op = "ensure" -> hurt \cup {i}
                     [] OTHER -> hurt
        /\ vague' = CASE write.op = "create" -> {p \in vague : p[1] # i}
                      [] write.doc = Odd -> vague \cup changed
                      [] OTHER -> vague \ changed

(* As if what is in the folder were kept. *)
Kept(i) == IF folders[i] = Gone THEN Folder({}, "none") ELSE folders[i]

(* create_table removes a folder that is not registered and begins anew.   *)
NewFolder(i) == Folder({}, "none")
ClearStale ==
    /\ At("clear") /\ Into(NewFolder(write.index)) /\ To("meta")
    /\ open' = open \cup {write.index} /\ outdated' = outdated \ {write.index} /\ Same

RemoveFolder ==
    /\ At("remove") /\ Into(Gone) /\ Answer
    /\ outdated' = outdated \ {write.index} /\ UNCHANGED open /\ Same

(* The first commit of update_row and the only one of delete_row. *)
CommitDelete ==
    LET i == write.index  n == Number(write.doc)
    IN  /\ At("delete") /\ Into([folders[i] EXCEPT !.docs = {p \in @ : p[1] # n}])
        /\ IF write.op = "update" THEN To("commit") ELSE Answer
        /\ UNCHANGED <<open, outdated>> /\ Same

(* add_row: the meta file is written again when next_row_id grows and the  *)
(* file can be parsed.                                                     *)
CommitAdd ==
    LET i == write.index  n == Number(write.doc)  f == folders[i]
    IN  /\ At("commit") /\ Into([f EXCEPT !.docs = @ \cup {<<n, write.content>>}])
        /\ IF f.meta = "whole" /\ n + 1 > f.next THEN To("meta") ELSE Answer
        /\ UNCHANGED <<open, outdated>> /\ Same

(* fs::write empties the file before it fills it. *)
EmptyMeta ==
    /\ At("meta") /\ Into([folders[write.index] EXCEPT !.meta = "torn"]) /\ To("fill")
    /\ UNCHANGED <<open, outdated>> /\ Same

FillMeta ==
    LET n == IF write.op = "create" THEN 1 ELSE Number(write.doc) + 1
    IN  /\ At("fill") /\ Into([folders[write.index] EXCEPT !.meta = "whole", !.next = n]) /\ Answer
        /\ UNCHANGED <<open, outdated>> /\ Same

-----------------------------------------------------------------------------
(* A file operation fails.  What cannot be written to the meta file is     *)
(* passed over; a folder that cannot be removed is left, in part or as a   *)
(* whole, and the index is no longer registered.                           *)
Partly(f) ==
    {f, Gone} \cup {[f EXCEPT !.meta = m, !.files = s] :
                        m \in {f.meta, "none"}, s \in {f.files, "broken", "lost"}}

FileFails ==
    LET i == write.index  f == folders[i]
    IN  /\ errors < MaxErrors /\ errors' = errors + 1
        /\ At("meta") \/ At("fill") \/ At("remove") \/ (At("clear") /\ f # Gone)
        /\ \E left \in IF At("meta") \/ At("fill") THEN {f} ELSE Partly(f) : Into(left)
        /\ promised' = IF At("meta") \/ At("fill") THEN Promise ELSE promised
        /\ write' = NoWrite("none") /\ hurt' = hurt \cup {i}
        /\ UNCHANGED <<open, outdated, vague, writes, downs>>

(* The process dies. *)
StopIndexService ==
    LET i == write.index  n == Number(write.doc)
        removing == (At("clear") \/ At("remove")) /\ folders[i] # Gone
        document == (write.op = "update" /\ At("commit")) \/ (write.op \in {"add", "update"} /\ At("meta"))
    IN  /\ Up /\ downs < MaxDowns /\ downs' = downs + 1
        /\ write' = NoWrite("down") /\ open' = {}
        /\ IF removing THEN \E left \in Partly(folders[i]) : Into(left) ELSE UNCHANGED folders
        /\ hurt' = IF removing \/ At("fill") \/ (write.op = "create" /\ At("meta"))
                   THEN hurt \cup {i} ELSE hurt
        /\ vague' = IF document THEN vague \cup {<<i, n>>} ELSE vague
        /\ UNCHANGED <<outdated, promised, writes, errors>>

-----------------------------------------------------------------------------
TextNext ==
    \/ StartIndexService \/ StopIndexService \/ FileFails
    \/ \E i \in TextIndexes :
          \/ CreateIndex(i) \/ DropIndex(i) \/ EnsureFaceClassIndex(i)
          \/ \E d \in DocIds \cup {Odd} :
                DeleteDocument(i, d) \/ \E c \in Contents : AddDocument(i, d, c) \/ UpdateDocument(i, d, c)
    \/ ClearStale \/ RemoveFolder \/ CommitDelete \/ CommitAdd \/ EmptyMeta \/ FillMeta

TextSpec == TextInit /\ [][TextNext]_textVars

-----------------------------------------------------------------------------
(* DocumentsKept.  Between calls an index that no stop and no error hit    *)
(* between its writes answers if and only if it was last created and not   *)
(* dropped, whichever stops there were, and each id has the one content,   *)
(* or none, that was answered last: creating an index anew repairs what    *)
(* any stop left of it, and brings back nothing.                           *)
DocumentsKept ==
    Free => \A i \in TextIndexes \ hurt :
        /\ i \in open <=> promised[i] # Gone
        /\ i \in open => \A d \in DocIds :
              <<i, d>> \in vague \/ GetDocument(i, d) = {promised[i][d]} \ {Gone}

(* IndexesRestored (lib.rs:103 of the engine: a start scans the folders    *)
(* and restores the indexes from disk).  Refuted by a stop while the meta  *)
(* file is written after a commit: the index is passed over, and creating  *)
(* it again removes its documents.                                         *)
IndexesRestored ==
    errors = 0 /\ Free => \A i \in TextIndexes : promised[i] # Gone /\ i \notin outdated => i \in open
=============================================================================
