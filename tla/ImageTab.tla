------------------------------- MODULE ImageTab -------------------------------
(***************************************************************************)
(* The image tab of ltool: a list of pictures in pages, popups that open    *)
(* over one another and over the list, and the requests they make.          *)
(*                                                                         *)
(* handle_image_tab asks the open popups one after the other; a popup takes *)
(* some keys and lets the others fall through to the next and to the list,  *)
(* except the download popup and the search form, which take all of them.   *)
(*                                                                         *)
(* Abstracted: cursors inside popups (Enter chooses any option), texts,     *)
(* scrolling, the picture and its metadata.                                 *)
(***************************************************************************)
EXTENDS ToolStore

VARIABLE image

\* key: the field requests are made from (0: empty); keyFrom: history, the bucket its row
\* was listed in; file: a path was entered; paths: its popup; local: the form for a
\* local file; found: results of a search; duplicate: the bucket of an upload waiting
\* for a decision; delete, download: the key in the popup; asked: history, what the
\* delete popup promises.
ImageInit ==
    image = [shown |-> <<>>, from |-> "none", row |-> 0, page |-> FirstPage, bucket |-> "images",
             key |-> 0, keyFrom |-> "none", file |-> FALSE, paths |-> FALSE, local |-> "closed",
             found |-> {}, duplicate |-> "none", delete |-> 0, download |-> 0, action |-> FALSE,
             asked |-> Nobody]

ImagePopup ==
    IF image.found # {} THEN "found"
    ELSE IF image.local # "closed" THEN "local"
    ELSE IF image.duplicate # "none" THEN "duplicate"
    ELSE IF image.delete # 0 THEN "delete"
    ELSE IF image.download # 0 THEN "download"
    ELSE IF image.action THEN "action"
    ELSE IF image.paths THEN "paths"
    ELSE "list"

\* What is drawn over everything else (ui.rs draws in another order).
ImageTop ==
    IF image.download # 0 THEN "download"
    ELSE IF image.duplicate # "none" THEN "duplicate"
    ELSE IF image.delete # 0 THEN "delete"
    ELSE IF image.action THEN "action"
    ELSE IF image.found # {} THEN "found"
    ELSE IF image.local # "closed" THEN "local"
    ELSE IF image.paths THEN "paths"
    ELSE "list"

\* The keys that popups do not know reach the tab.
FallsThrough == image.local # "search" /\ image.download = 0

Picked(t, k) == [t EXCEPT !.key = k, !.keyFrom = t.from]

(***************************************************************************)
(* Requests.                                                               *)
(***************************************************************************)
\* A first upload, from tab t: refused, a duplicate to decide on, or stored.
UploadImage(t) ==
    \/ image' = t /\ Unchanged
    \/ image' = [t EXCEPT !.duplicate = t.bucket] /\ stored[t.bucket] # {} /\ Unchanged
    \/ /\ image' = [t EXCEPT !.key = 0]
       /\ Store(t.bucket)
       /\ removed' = NoRemoval
       /\ UNCHANGED <<vectors, saved, torn>>

\* skip makes no request; overwrite keeps the key that is there; new makes one.
UploadDecided ==
    LET t == [image EXCEPT !.duplicate = "none"]
    IN  \/ image' \in {t, [t EXCEPT !.key = 0]} /\ Unchanged
        \/ /\ image' = [t EXCEPT !.key = 0]
           /\ Store(image.duplicate)
           /\ removed' = NoRemoval
           /\ UNCHANGED <<vectors, saved, torn>>

\* delete_image deletes what the fields name, then the vector of that id in the
\* index of faces, and lists again.  A deletion done whose answer is lost leaves the
\* vector and the list.  asked is what a popup showed, if one did.
DeleteImage(t, asked) ==
    LET left == [stored EXCEPT ![t.bucket] = @ \ {t.key}]
    IN  \/ image' = t /\ Unchanged
        \/ /\ t.key # 0
           /\ stored' = left
           /\ vectors' \in {vectors, [vectors EXCEPT !["face"] = @ \ {t.key}]}
           /\ torn' = IF vectors'["face"] # vectors["face"] \ {t.key} \/ t.keyFrom # t.bucket
                      THEN torn \cup {t.key} ELSE torn
           /\ image' \in Reloaded(t, left)
           /\ removed' = Removal(asked, <<t.bucket, t.key>>)
           /\ UNCHANGED <<nextKey, saved>>

(***************************************************************************)
(* Enter.                                                                  *)
(***************************************************************************)
EnterFound ==
    /\ ImagePopup = "found"
    /\ \E k \in image.found : image' = [image EXCEPT !.key = k, !.keyFrom = "none"]
    /\ Unchanged

\* The first tab of the form uploads, the second searches.
EnterLocal ==
    /\ ImagePopup = "local"
    /\ LET t == [image EXCEPT !.local = "closed", !.file = TRUE]
       IN  \/ image.local = "upload" /\ UploadImage(t)
           \/ /\ image.local = "search"
              /\ \E b \in Buckets : image' \in {t} \cup {[t EXCEPT !.found = {k}] : k \in stored[b]}
              /\ Unchanged

EnterDuplicate == ImagePopup = "duplicate" /\ UploadDecided

EnterDelete ==
    /\ ImagePopup = "delete"
    /\ DeleteImage([image EXCEPT !.delete = 0, !.asked = Nobody], image.asked)

EnterDownload ==
    /\ ImagePopup = "download"
    /\ image' = [image EXCEPT !.download = 0]
    /\ Unchanged

\* Variant: the popup is opened with the key field left as it is.
EnterActionUnpicked ==
    /\ ImagePopup = "action"
    /\ LET t == [image EXCEPT !.action = FALSE]
           k == image.shown[image.row]
       IN  IF image.row \notin Rows(image) THEN image' = t
           ELSE image' \in {Picked(t, k), [Picked(t, k) EXCEPT !.download = k],
                            [t EXCEPT !.delete = k, !.asked = Promised(t, k)]}
    /\ Unchanged

EnterAction ==
    /\ ImagePopup = "action"
    /\ LET t == [image EXCEPT !.action = FALSE]
           k == image.shown[image.row]
       IN  IF image.row \notin Rows(image) THEN image' = t
           ELSE image' \in {Picked(t, k), [Picked(t, k) EXCEPT !.download = k],
                            [Picked(t, k) EXCEPT !.delete = k, !.asked = Promised(t, k)]}
    /\ Unchanged

\* A directory shows its entries; a file opens the form.
EnterPaths ==
    /\ ImagePopup = "paths"
    /\ image' \in {[image EXCEPT !.file = TRUE, !.paths = p] : p \in BOOLEAN}
                  \cup {[image EXCEPT !.file = TRUE, !.paths = FALSE, !.local = "upload"]}
    /\ Unchanged

EnterList ==
    /\ ImagePopup = "list"
    /\ image' = IF image.file /\ image.row = 0 THEN [image EXCEPT !.local = "upload"]
                ELSE IF image.row # 0 /\ image.shown # <<>> THEN [image EXCEPT !.action = TRUE]
                ELSE image
    /\ Unchanged

(***************************************************************************)
(* Other keys.                                                             *)
(***************************************************************************)
EscImage ==
    /\ image' = CASE ImagePopup = "found" -> [image EXCEPT !.found = {}]
                  [] ImagePopup = "local" -> [image EXCEPT !.local = "closed"]
                  [] ImagePopup = "duplicate" -> [image EXCEPT !.duplicate = "none"]
                  [] ImagePopup = "delete" -> [image EXCEPT !.delete = 0, !.asked = Nobody]
                  [] ImagePopup = "download" -> [image EXCEPT !.download = 0]
                  [] ImagePopup = "action" -> [image EXCEPT !.action = FALSE]
                  [] ImagePopup = "paths" -> [image EXCEPT !.paths = FALSE]
                  [] OTHER -> [image EXCEPT !.row = 0]
    /\ Unchanged

\* Tab goes round the form's two tabs.
TurnForm ==
    /\ ImagePopup = "local"
    /\ image' = [image EXCEPT !.local = IF @ = "upload" THEN "search" ELSE "upload"]
    /\ Unchanged

\* Arrows and clicks select a row, clicks under any popup; a click on the path none.
SelectRow ==
    /\ \/ \E r \in Rows(image) : image' = [image EXCEPT !.row = r]
       \/ image' = [image EXCEPT !.row = 0, !.action = FALSE]
    /\ Unchanged

\* F1.
UploadKey == FallsThrough /\ image.file /\ UploadImage(image)

\* Ctrl+D deletes what the fields name, without a popup.
DeleteKey == FallsThrough /\ DeleteImage(image, Nobody)

\* F2 lists; F7 turns the order round and lists from the start; , and . turn pages.
ListKey ==
    /\ FallsThrough
    /\ image' \in Reloaded(image, stored) \cup Turned(image)
                  \cup Reloaded([image EXCEPT !.page = FirstPage], stored)
    /\ Unchanged

\* Typing a path gives up the selection and the action popup.
TypePath ==
    /\ FallsThrough
    /\ \E f, p \in BOOLEAN : image' = [image EXCEPT !.file = f, !.paths = p /\ f, !.row = 0,
                                                    !.action = FALSE]
    /\ Unchanged

\* :bucket and :key are entered over everything.
Command ==
    /\ \/ \E b \in Buckets : image' = [image EXCEPT !.bucket = b, !.asked = Nobody]
       \/ \E k \in 0 .. MaxKey :
             image' = [image EXCEPT !.key = k, !.keyFrom = "none", !.asked = Nobody]
    /\ Unchanged

\* Leaving the tab (Alt and a number) closes its popups.
LeaveTab ==
    /\ image' = [image EXCEPT !.local = "closed", !.duplicate = "none", !.action = FALSE,
                              !.delete = 0, !.asked = Nobody, !.download = 0, !.found = {},
                              !.paths = FALSE]
    /\ Unchanged

ImageNext ==
    \/ EnterFound \/ EnterLocal \/ EnterDuplicate \/ EnterDelete \/ EnterDownload
    \/ EnterAction \/ EnterPaths \/ EnterList
    \/ EscImage \/ TurnForm \/ SelectRow \/ UploadKey \/ DeleteKey \/ ListKey \/ TypePath
    \/ Command \/ LeaveTab
=============================================================================
