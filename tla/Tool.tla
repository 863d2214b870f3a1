--------------------------------- MODULE Tool ---------------------------------
(***************************************************************************)
(* The tabs of ltool over one server.  A behaviour stays on the tab it      *)
(* begins with; the tabs share only the server, and read it again with      *)
(* every list.                                                             *)
(***************************************************************************)
EXTENDS ImageTab, FaceTab, StorageTab, VectorTab

VARIABLE tab

tabVars == <<tab, image, face, storage, vector>>
toolVars == <<storeVars, tabVars>>

Tabs == {"image", "face", "vector", "storage"}

ToolInit ==
    /\ tab \in Tabs
    /\ StoreInit /\ ImageInit /\ FaceInit /\ StorageInit /\ VectorInit

ToolNext ==
    /\ UNCHANGED tab
    /\ \/ tab = "image" /\ ImageNext /\ UNCHANGED <<face, storage, vector>>
       \/ tab = "face" /\ FaceNext /\ UNCHANGED <<image, storage, vector>>
       \/ tab = "storage" /\ StorageNext /\ UNCHANGED <<image, face, vector>>
       \/ tab = "vector" /\ VectorNext /\ UNCHANGED <<image, face, storage>>

ToolSpec == ToolInit /\ [][ToolNext]_toolVars

(***************************************************************************)
(* Properties.                                                             *)
(***************************************************************************)
\* Enter in a popup deletes the row it was opened on, in the bucket or index the row
\* was listed from, through whatever keys, clicks, lists and failures came between,
\* with two exceptions: a field was entered anew since; and on the vector tab a click,
\* F3, F4 or the drop-down gave the open popup another row or index, whose vector Enter
\* then deletes (ui.rs, the delete popups; handler.rs 1203-1218, 2477-2491).
DeletesShown == removed.asked # Nobody /\ ~removed.moved => removed.done = removed.asked

\* A face the client saved is stored if and only if its vector is in the index "face",
\* whichever requests failed, unless the failed one was the deletion of the vector, or
\* the face was deleted in another bucket or by another tab than its own.
FacesPaired ==
    \A k \in saved \ torn : (\E b \in Buckets : k \in stored[b]) <=> k \in vectors["face"]

(***************************************************************************)
(* Claims of the code's comments that TLC refutes.                         *)
(***************************************************************************)
\* The keys go to the popup on top (ui.rs calls one popup after the other the
\* topmost, and each names the keys it takes).  Refuted on the image tab by F1 with
\* the upload form open, which asks about a duplicate over the form, to which Enter
\* goes; on the face tab by the list of saved faces over the popup of a detected
\* face; on the storage tab by Delete with the action popup open, whose Enter it then shows.
TopTakesKeys ==
    /\ tab = "image" => ImageTop = ImagePopup
    /\ (tab = "face" /\ FaceEnter = "chosen") => FaceTop \in {"chosen", "found"}
    /\ tab = "storage" => StorageTop = StoragePopup

\* Enter deletes the row the popup was opened on.  Refuted on the vector tab, whose
\* action popup keeps no row of its own: a click under it selects another one, F3 and F4
\* may list others, and Enter deletes the vector that is selected by then.
DeletesAsked == removed.asked # Nobody => removed.done = removed.asked

\* A vector outlives the face's picture only after a deletion: what is deleted as a
\* face leaves both (delete_saved_face deletes the picture, then the vector).
\* Refuted by a deletion of the vector that fails, which is only logged.
FacesNeverTorn ==
    \A k \in saved : (\E b \in Buckets : k \in stored[b]) <=> k \in vectors["face"]

=============================================================================
