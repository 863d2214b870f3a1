------------------------------ MODULE StorageTab ------------------------------
(***************************************************************************)
(* The storage tab of ltool: the objects of a bucket over the S3 protocol,  *)
(* listed in pages, uploaded, downloaded and deleted through popups.        *)
(*                                                                         *)
(* Of the open popups, handle_storage_tab asks the action popup first, which *)
(* lets keys it does not know through, then the others, which keep every    *)
(* key.                                                                    *)
(*                                                                         *)
(* Abstracted: texts, cursors, the download's path; an object is uploaded   *)
(* under the name of its file, which may be any key.                        *)
(***************************************************************************)
EXTENDS ToolStore

VARIABLE storage

\* action, detail, upload, paths: popups; confirm: the key in the popup that confirms
\* an upload; download, delete: the key in theirs; asked: history, what the delete
\* popup promises.
StorageInit ==
    storage = [shown |-> <<>>, from |-> "none", row |-> 0, page |-> FirstPage, bucket |-> "images",
               action |-> FALSE, detail |-> FALSE, upload |-> FALSE, paths |-> FALSE, confirm |-> 0,
               download |-> 0, delete |-> 0, asked |-> Nobody]

StoragePopup ==
    IF storage.action THEN "action"
    ELSE IF storage.delete # 0 THEN "delete"
    ELSE IF storage.detail THEN "detail"
    ELSE IF storage.confirm # 0 THEN "confirm"
    ELSE IF storage.upload THEN IF storage.paths THEN "paths" ELSE "upload"
    ELSE IF storage.download # 0 THEN IF storage.paths THEN "paths" ELSE "download"
    ELSE "list"

\* What is drawn: the first of these that is open, and nothing else.
StorageTop ==
    IF storage.detail THEN "detail"
    ELSE IF storage.delete # 0 THEN "delete"
    ELSE IF storage.confirm # 0 THEN "confirm"
    ELSE IF storage.upload THEN IF storage.paths THEN "paths" ELSE "upload"
    ELSE IF storage.download # 0 THEN IF storage.paths THEN "paths" ELSE "download"
    ELSE IF storage.action THEN "action"
    ELSE "list"

\* Keys that are no popup's reach the tab.
Reaches ==
    /\ storage.delete = 0 /\ ~storage.detail /\ storage.confirm = 0
    /\ ~storage.upload /\ storage.download = 0

Picking == storage.row \in Rows(storage)
PickedKey == storage.shown[storage.row]

(***************************************************************************)
(* Requests.                                                               *)
(***************************************************************************)
\* put_object under key k, then the list.
Upload(t, k) ==
    \/ storage' \in Reloaded(t, stored) /\ Unchanged
    \/ LET left == [stored EXCEPT ![t.bucket] = @ \cup {k}]
       IN  /\ stored' = left
           /\ storage' \in Reloaded(t, left)
           /\ torn' = torn \cup {k}
           /\ removed' = NoRemoval
           /\ UNCHANGED <<vectors, nextKey, saved>>

\* delete_object, then the list.  The store knows nothing of vectors.
DeleteObject(t, k, asked) ==
    LET left == [stored EXCEPT ![t.bucket] = @ \ {k}]
    IN  \/ storage' \in Reloaded(t, stored) /\ Unchanged
        \/ /\ stored' = left
           /\ storage' \in Reloaded(t, left)
           /\ torn' = torn \cup {k}
           /\ removed' = Removal(asked, <<t.bucket, k>>)
           /\ UNCHANGED <<vectors, nextKey, saved>>

(***************************************************************************)
(* Enter.                                                                  *)
(***************************************************************************)
EnterObjectAction ==
    /\ StoragePopup = "action"
    /\ LET t == [storage EXCEPT !.action = FALSE]
       IN  storage' \in {t} \cup
               IF Picking THEN {[t EXCEPT !.detail = TRUE], [t EXCEPT !.download = PickedKey],
                                [t EXCEPT !.delete = PickedKey,
                                          !.asked = Promised(t, PickedKey)]}
               ELSE {}
    /\ Unchanged

EnterObjectDelete ==
    /\ StoragePopup = "delete"
    /\ DeleteObject([storage EXCEPT !.delete = 0, !.asked = Nobody], storage.delete, storage.asked)

\* Confirming an upload closes the dialog under it; refusing leaves it open.
EnterUpload ==
    \/ /\ StoragePopup = "confirm"
       /\ \/ Upload([storage EXCEPT !.confirm = 0, !.upload = FALSE, !.paths = FALSE], storage.confirm)
          \/ storage' = [storage EXCEPT !.confirm = 0] /\ Unchanged
    \/ /\ StoragePopup = "upload"
       /\ \E k \in 1 .. MaxKey : Upload([storage EXCEPT !.upload = FALSE, !.paths = FALSE], k)

\* A name is chosen: a directory shows its own; a file is confirmed, or is where the
\* download goes.
EnterName ==
    /\ StoragePopup = "paths"
    /\ \/ \E p \in BOOLEAN : storage' = [storage EXCEPT !.paths = p]
       \/ /\ storage.upload
          /\ \E k \in 1 .. MaxKey : storage' = [storage EXCEPT !.paths = FALSE, !.confirm = k]
    /\ Unchanged

EnterObject ==
    /\ storage' \in
           CASE StoragePopup = "detail" /\ Picking ->
                  {[storage EXCEPT !.detail = FALSE, !.download = PickedKey]}
             [] StoragePopup = "download" -> {[storage EXCEPT !.download = 0]}
             [] StoragePopup = "list" ->
                  IF Picking THEN {[storage EXCEPT !.action = TRUE]}
                  ELSE IF storage.row = 0 THEN Reloaded(storage, stored) ELSE {}
             [] OTHER -> {}
    /\ Unchanged

(***************************************************************************)
(* Other keys.                                                             *)
(***************************************************************************)
EscStorage ==
    /\ storage' = CASE StoragePopup = "action" -> [storage EXCEPT !.action = FALSE]
                    [] StoragePopup = "delete" -> [storage EXCEPT !.delete = 0, !.asked = Nobody]
                    [] StoragePopup = "detail" -> [storage EXCEPT !.detail = FALSE]
                    [] StoragePopup = "confirm" -> [storage EXCEPT !.confirm = 0]
                    [] StoragePopup = "paths" -> [storage EXCEPT !.paths = FALSE]
                    [] StoragePopup = "upload" -> [storage EXCEPT !.upload = FALSE]
                    [] StoragePopup = "download" -> [storage EXCEPT !.download = 0]
                    [] OTHER -> storage
    /\ Unchanged

\* Typing into a dialog shows the names that begin so.
TypeName ==
    /\ storage.delete = 0 /\ ~storage.detail /\ storage.confirm = 0
    /\ storage.upload \/ storage.download # 0
    /\ \E p \in BOOLEAN : storage' = [storage EXCEPT !.paths = p]
    /\ Unchanged

\* Delete, also with the action popup open.
DeleteObjectKey ==
    /\ Reaches
    /\ Picking
    /\ storage' = [storage EXCEPT !.delete = PickedKey, !.asked = Promised(storage, PickedKey)]
    /\ Unchanged

\* F1 lists; F7 lists from the start; F5 and F6 turn pages; F2 opens the dialog; the
\* arrows select.
ListObjectsKey ==
    /\ Reaches
    /\ storage' \in Reloaded(storage, stored) \cup Turned(storage)
                    \cup Reloaded([storage EXCEPT !.page = FirstPage], stored)
                    \cup {[storage EXCEPT !.upload = TRUE]}
                    \cup IF StoragePopup = "list"
                         THEN {[storage EXCEPT !.row = r] : r \in Rows(storage)} ELSE {}
    /\ Unchanged

TypeBucket ==
    /\ Reaches
    /\ \E b \in Buckets : storage' = [storage EXCEPT !.bucket = b]
    /\ Unchanged

StorageNext ==
    \/ EnterObjectAction \/ EnterObjectDelete \/ EnterUpload \/ EnterName \/ EnterObject
    \/ EscStorage \/ TypeName \/ DeleteObjectKey \/ ListObjectsKey \/ TypeBucket
=============================================================================
