-------------------------------- MODULE FaceTab --------------------------------
(***************************************************************************)
(* The face tab of ltool: the faces detected in a picture, the list of      *)
(* saved faces, and the popups that save, export and delete them.  A saved  *)
(* face is a picture in the bucket and a vector of the same id in the index *)
(* "face"; the client writes and deletes the two one after the other.       *)
(*                                                                         *)
(* handle_face_tab asks the popups one after the other; each takes Enter,   *)
(* Esc and the arrows only, so every other key reaches the tab.             *)
(*                                                                         *)
(* Abstracted: which of the detected faces is selected, thresholds, export  *)
(* paths, scrolling.                                                       *)
(***************************************************************************)
EXTENDS ToolStore

VARIABLE face

\* listed: the list of saved faces is shown; detected: so are detected faces;
\* original: the picture itself is saved too; focus: the field that has the keys;
\* paths: the popup of file names; chosen: the popup of a detected face; found: the
\* results of a search; action, delete: the popups of a saved face; asked: history,
\* what the delete popup promises.
FaceInit ==
    face = [shown |-> <<>>, from |-> "none", row |-> 0, page |-> FirstPage, bucket |-> "faces",
            listed |-> FALSE, detected |-> FALSE, original |-> FALSE, focus |-> "path",
            paths |-> FALSE, chosen |-> FALSE, found |-> FALSE, action |-> FALSE,
            delete |-> 0, asked |-> Nobody]

FaceFields == {"path", "bucket", "original", "other"}

\* Who takes Enter.
FaceEnter ==
    CASE face.chosen -> "chosen"
      [] ~face.chosen /\ face.action -> "action"
      [] ~face.chosen /\ ~face.action /\ face.delete # 0 -> "delete"
      [] OTHER -> IF face.paths THEN "paths"
                  ELSE IF face.focus = "original" THEN "original"
                  ELSE IF face.listed THEN "saved" ELSE "detected"

\* What is drawn last, over the rest.
FaceTop ==
    IF face.delete # 0 THEN "delete"
    ELSE IF face.action THEN "action"
    ELSE IF face.listed THEN "saved"
    ELSE IF face.found THEN "found"
    ELSE IF face.chosen THEN "chosen"
    ELSE IF face.paths THEN "paths"
    ELSE IF face.focus = "original" THEN "original" ELSE "detected"

Listed(t, store) ==
    {IF u = t THEN t ELSE [u EXCEPT !.listed = TRUE] : u \in Reloaded(t, store)}

(***************************************************************************)
(* Requests.                                                               *)
(***************************************************************************)
\* F1, extract_features: the picture is uploaded, to "images" when it is to be kept,
\* else to "tmp", from which it is deleted again, if that succeeds.
Detect ==
    LET bucket == IF face.original THEN "images" ELSE "tmp"
        t == [face EXCEPT !.detected = TRUE, !.chosen = FALSE]
    IN  \/ face' = face /\ Unchanged
        \/ /\ face' \in {face, t}
           /\ \/ Store(bucket)
              \/ ~face.original /\ nextKey <= MaxKey /\ nextKey' = nextKey + 1 /\ UNCHANGED stored
           /\ removed' = NoRemoval
           /\ UNCHANGED <<vectors, saved, torn>>

\* save_and_index_face: refused, or there already; or the picture is stored and then
\* its vector; when the index refuses the vector, the picture is deleted again, if
\* that succeeds.
SaveFace(t) ==
    /\ face' = t
    /\ \/ Unchanged
       \/ /\ Store(t.bucket)
          /\ vectors' = [vectors EXCEPT !["face"] = @ \cup {nextKey}]
          /\ saved' = saved \cup {nextKey}
          /\ removed' = NoRemoval
          /\ UNCHANGED torn
       \/ /\ Store(t.bucket) \/ (nextKey <= MaxKey /\ nextKey' = nextKey + 1 /\ UNCHANGED stored)
          /\ removed' = NoRemoval
          /\ UNCHANGED <<vectors, saved, torn>>

\* Variant: the vector is left in the index.
DeleteFacePicture(t, k, asked) ==
    LET left == [stored EXCEPT ![t.bucket] = @ \ {k}]
    IN  \/ face' = t /\ Unchanged
        \/ /\ stored' = left
           /\ torn' = IF k \notin stored[t.bucket] THEN torn \cup {k} ELSE torn
           /\ face' \in Listed(t, left)
           /\ removed' = Removal(asked, <<t.bucket, k>>)
           /\ UNCHANGED <<vectors, nextKey, saved>>

\* delete_saved_face: the picture, then the vector (a failure is only logged), then
\* the list is asked for again.  In a bucket that has no such picture the deletion
\* succeeds as well, and the vector goes; when the answer is lost, the vector and the
\* list stay as they were.
DeleteFace(t, k, asked) ==
    LET left == [stored EXCEPT ![t.bucket] = @ \ {k}]
    IN  \/ face' = t /\ Unchanged
        \/ /\ stored' = left
           /\ vectors' \in {vectors, [vectors EXCEPT !["face"] = @ \ {k}]}
           /\ torn' = IF vectors'["face"] # vectors["face"] \ {k} \/ k \notin stored[t.bucket]
                      THEN torn \cup {k} ELSE torn
           /\ face' \in Listed(t, left)
           /\ removed' = Removal(asked, <<t.bucket, k>>)
           /\ UNCHANGED <<nextKey, saved>>

(***************************************************************************)
(* Enter.                                                                  *)
(***************************************************************************)
EnterChosen ==
    /\ FaceEnter = "chosen"
    /\ LET t == [face EXCEPT !.chosen = FALSE]
       IN  SaveFace(t) \/ (face' = [t EXCEPT !.found = TRUE] /\ Unchanged)

\* Export makes no change; delete opens its popup.
EnterSavedAction ==
    /\ FaceEnter = "action"
    /\ LET t == [face EXCEPT !.action = FALSE]
           k == face.shown[face.row]
       IN  face' \in {t} \cup IF face.row \in Rows(face)
                              THEN {[t EXCEPT !.delete = k, !.asked = Promised(t, k)]} ELSE {}
    /\ Unchanged

EnterSavedDelete ==
    /\ FaceEnter = "delete"
    /\ DeleteFace([face EXCEPT !.delete = 0, !.asked = Nobody], face.delete, face.asked)

\* The popup of names, the box, or a list.
EnterFace ==
    /\ CASE FaceEnter = "paths" -> \E p \in BOOLEAN : face' = [face EXCEPT !.paths = p]
         [] FaceEnter = "original" -> face' = [face EXCEPT !.original = ~@]
         [] FaceEnter = "detected" -> face.detected /\ face' = [face EXCEPT !.chosen = TRUE]
         [] FaceEnter = "saved" -> face.row \in Rows(face) /\ face' = [face EXCEPT !.action = TRUE]
         [] OTHER -> FALSE
    /\ Unchanged

(***************************************************************************)
(* Other keys.                                                             *)
(***************************************************************************)
EscFace ==
    /\ face' = IF face.chosen THEN [face EXCEPT !.chosen = FALSE]
               ELSE IF face.found THEN [face EXCEPT !.found = FALSE]
               ELSE IF face.action THEN [face EXCEPT !.action = FALSE]
               ELSE IF face.delete # 0 THEN [face EXCEPT !.delete = 0, !.asked = Nobody]
               ELSE IF face.paths THEN [face EXCEPT !.paths = FALSE]
               ELSE [face EXCEPT !.listed = FALSE]
    /\ Unchanged

\* F3 lists; F7 lists from the start; , and . turn pages of the list that is shown.
ListFacesKey ==
    /\ face' \in Listed(face, stored) \cup Listed([face EXCEPT !.page = FirstPage], stored)
                 \cup IF face.listed THEN Turned(face) ELSE {}
    /\ Unchanged

SelectFace ==
    /\ ~face.chosen /\ ~face.found /\ ~face.action /\ ~face.paths /\ face.listed
    /\ \E r \in Rows(face) : face' = [face EXCEPT !.row = r]
    /\ Unchanged

\* Tab goes round the fields, the first of which opens the names.
TurnField ==
    /\ \E f \in FaceFields \ {face.focus}, p \in BOOLEAN :
           face' = [face EXCEPT !.focus = f, !.paths = p /\ f = "path"]
    /\ Unchanged

\* Typing changes the field, also under a popup; :bucket is entered over everything.
TypeFace ==
    /\ \/ face.focus = "path" /\ \E p \in BOOLEAN : face' = [face EXCEPT !.paths = p]
       \/ \E b \in Buckets : face' = [face EXCEPT !.bucket = b, !.asked = Nobody]
    /\ Unchanged

FaceNext ==
    \/ EnterChosen \/ EnterSavedAction \/ EnterSavedDelete \/ EnterFace
    \/ EscFace \/ Detect \/ ListFacesKey \/ SelectFace \/ TurnField \/ TypeFace
=============================================================================
