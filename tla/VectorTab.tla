------------------------------- MODULE VectorTab -------------------------------
(***************************************************************************)
(* The vector tab of ltool: the vectors of the index named in a field, a    *)
(* drop-down of the indexes, and a popup that views or deletes the selected *)
(* vector.  The popups take Enter, Esc and the arrows; every other key      *)
(* reaches the tab.                                                        *)
(*                                                                         *)
(* Abstracted: statistics, the consistency report, the vector's numbers.    *)
(***************************************************************************)
EXTENDS ToolStore

VARIABLE vector

\* index: the field; shown: the ids listed from index from; row: the selected one, or
\* 0, which a new list does not reset; dropdown, detail, action: popups; asked:
\* history, the row the action popup was opened on; moved: history, the popup has come
\* to another row since, which its title then names.
VectorInit ==
    vector = [index |-> "face", shown |-> <<>>, from |-> "none", row |-> 0, detail |-> FALSE,
              dropdown |-> FALSE, action |-> FALSE, asked |-> Nobody,
              moved |-> FALSE]

\* What Enter in the action popup would delete.
Meant(t) == IF t.row \in Rows(t) THEN <<t.index, t.shown[t.row]>> ELSE Nobody

\* Clicks, F3, F4 and the field reach the tab under the popup.
Under(t) == [t EXCEPT !.moved = @ \/ (t.action /\ Meant(t) # Meant(vector))]

Closed(t) == [t EXCEPT !.action = FALSE, !.asked = Nobody, !.moved = FALSE]

SetIndex(t, i) == Under([t EXCEPT !.index = i])

\* list_embeddings: all of the index.
Entries(t, ids) ==
    {t, Under([t EXCEPT !.shown = InOrder(ids[t.index]), !.from = t.index])}

Torn(index, ids) == torn' = IF index = "face" THEN torn \cup ids ELSE torn

\* Enter on the drop-down, on the popup, or on the list.
EnterIndex ==
    /\ ~vector.action
    /\ vector' = IF vector.dropdown THEN [vector EXCEPT !.dropdown = FALSE]
                 ELSE IF vector.row # 0 /\ vector.shown # <<>>
                 THEN [vector EXCEPT !.action = TRUE,
                                     !.asked = IF vector.from = vector.index
                                               THEN Meant(vector) ELSE Nobody]
                 ELSE vector
    /\ Unchanged

\* delete_single_embedding deletes in the index the field names.
EnterVector ==
    /\ vector.action
    /\ LET t == Closed(vector)
           k == vector.shown[vector.row]
           left == [vectors EXCEPT ![t.index] = @ \ {k}]
       IN  IF vector.row \notin Rows(vector) THEN vector' = t /\ Unchanged
           ELSE \/ vector' \in {t, [t EXCEPT !.detail = TRUE]} /\ Unchanged
                \/ /\ vectors' = left
                   /\ Torn(t.index, {k})
                   /\ vector' \in Entries(t, left)
                   /\ removed' = [asked |-> vector.asked, moved |-> vector.moved, done |-> <<t.index, k>>]
                   /\ UNCHANGED <<stored, nextKey, saved>>

EscVector ==
    /\ vector' = IF vector.detail THEN [vector EXCEPT !.detail = FALSE]
                 ELSE IF vector.action THEN Closed(vector)
                 ELSE [vector EXCEPT !.dropdown = FALSE]
    /\ Unchanged

\* F3.
ListVectors == vector' \in Entries(vector, vectors) /\ Unchanged

\* F4: every vector listed is deleted on its own, and any deletion may fail.
ClearVectors ==
    /\ \E left \in SUBSET vectors[vector.index] :
           LET ids == [vectors EXCEPT ![vector.index] = left]
           IN  /\ vectors' = ids
               /\ Torn(vector.index, vectors[vector.index])
               /\ vector' \in Entries(vector, ids)
    /\ removed' = NoRemoval
    /\ UNCHANGED <<stored, nextKey, saved>>

\* A click selects under any popup; the arrows go round the drop-down's indexes, each
\* of which goes to the field at once.
SelectVector ==
    /\ \/ \E r \in Rows(vector) : vector' = Under([vector EXCEPT !.row = r])
       \/ vector.dropdown /\ ~vector.action /\ \E i \in Indexes : vector' = SetIndex(vector, i)
    /\ Unchanged

\* Tab opens the drop-down, or goes on in it, also under the action popup.
TabIndex ==
    /\ vector' \in {[vector EXCEPT !.dropdown = TRUE]}
                   \cup IF vector.dropdown THEN {SetIndex(vector, i) : i \in Indexes} ELSE {}
    /\ Unchanged

TypeIndex ==
    /\ \E i \in Indexes : vector' = [SetIndex(vector, i) EXCEPT !.dropdown = FALSE]
    /\ Unchanged

VectorNext ==
    \/ EnterIndex \/ EnterVector \/ EscVector \/ ListVectors \/ ClearVectors
    \/ SelectVector \/ TabIndex \/ TypeIndex
=============================================================================
