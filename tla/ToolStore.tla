------------------------------ MODULE ToolStore ------------------------------
(***************************************************************************)
(* What the tabs of the terminal client (ltool) share: the server's        *)
(* pictures, objects and vectors as the client's requests change them, the  *)
(* paging state of a list, and what the last deletion did.                 *)
(*                                                                         *)
(* The client has one event loop (main.rs): an event is handled to its end,*)
(* requests included, before the next is read, so an action is an event    *)
(* with all its requests.  Any request may fail.  The client is logged in. *)
(* Keys and vector ids are the numbers the server hands out.  What a page  *)
(* of a bucket holds is ObjectListing's subject; here it is the keys from  *)
(* the marker on.                                                          *)
(***************************************************************************)
EXTENDS Integers, SequencesExt, FiniteSetsExt

CONSTANTS
    Buckets,        \* buckets of the object store
    Indexes,        \* vector indexes, "face" among them
    MaxKey,         \* bound: keys handed out
    MaxPages,       \* bound: pages turned forward (failed requests turn them too)
    PageSize        \* rows of a page

ASSUME ToolAssumption ==
    /\ {MaxKey, PageSize} \subseteq Nat \ {0} /\ MaxPages \in Nat
    /\ {"images", "faces"} \subseteq Buckets /\ "none" \notin Buckets
    /\ "face" \in Indexes /\ "none" \notin Indexes

VARIABLES
    stored,         \* the keys in each bucket
    vectors,        \* the ids in each vector index
    nextKey,        \* the next key the server hands out
    saved,          \* history: keys saved as faces
    torn,           \* history: faces a failed request, or a bucket other than theirs, may have parted
    removed         \* history: the last deletion: what was asked for, whether the row moved
                    \* under the popup since, and what was deleted

storeVars == <<stored, vectors, nextKey, saved, torn, removed>>

Nobody == <<>>      \* no key of no bucket
NoRemoval == [asked |-> Nobody, moved |-> FALSE, done |-> Nobody]
Removal(asked, done) == [asked |-> asked, moved |-> FALSE, done |-> done]

\* One face: a picture in the bucket of faces with a vector of the same id.  The
\* other indexes hold vectors of their own.
StoreInit ==
    /\ stored = [b \in Buckets |-> IF b = "faces" THEN {1} ELSE {}]
    /\ vectors = [i \in Indexes |-> IF i = "face" THEN {1} ELSE 1 .. MaxKey]
    /\ nextKey = 2
    /\ saved = {1}
    /\ torn = {}
    /\ removed = NoRemoval

Unchanged == UNCHANGED <<stored, vectors, nextKey, saved, torn>> /\ removed' = NoRemoval

\* The server stores a new picture under a new key.
Store(b) ==
    /\ nextKey <= MaxKey
    /\ nextKey' = nextKey + 1
    /\ stored' = [stored EXCEPT ![b] = @ \cup {nextKey}]

(***************************************************************************)
(* PaginationState.                                                        *)
(***************************************************************************)
FirstPage == [marker |-> 0, prev |-> <<>>, more |-> FALSE, next |-> 0]

NextPage(p) ==
    IF p.more THEN [p EXCEPT !.prev = Append(@, p.marker), !.marker = p.next] ELSE p

PrevPage(p) ==
    IF p.prev = <<>> THEN p ELSE [p EXCEPT !.marker = Last(p.prev), !.prev = Front(p.prev)]

Answered(p, more, next) == [p EXCEPT !.more = more, !.next = next]

\* Keys in their order.
InOrder(keys) ==
    [n \in 1 .. Cardinality(keys) |->
        CHOOSE k \in keys : Cardinality({j \in keys : j < k}) = n - 1]

(***************************************************************************)
(* A tab t with a list of a bucket's keys, after its list request: the old  *)
(* list when the request failed, otherwise the page at its marker, with    *)
(* the first row selected.  Its fields: shown, the keys of the page, listed *)
(* from bucket from; row, the selected row, or 0; bucket, the field that    *)
(* the requests are made from.                                             *)
(***************************************************************************)
Page(t, bucket) == InOrder({k \in bucket : t.page.marker = 0 \/ k >= t.page.marker})

Reloaded(t, store) ==
    LET keys == Page(t, store[t.bucket])
        more == Len(keys) > PageSize
        rows == IF more THEN SubSeq(keys, 1, PageSize) ELSE keys
    IN  {t, [t EXCEPT !.shown = rows, !.from = t.bucket, !.row = IF rows = <<>> THEN 0 ELSE 1,
                      !.page = Answered(@, more, IF more THEN keys[PageSize + 1] ELSE 0)]}

\* Moving to another page; without one nothing is asked.
Turned(t) ==
    (IF t.page.more /\ Len(t.page.prev) < MaxPages
     THEN Reloaded([t EXCEPT !.page = NextPage(@)], stored)
     ELSE {t})
    \cup (IF t.page.prev = <<>> THEN {t}
          ELSE Reloaded([t EXCEPT !.page = PrevPage(@)], stored))

Rows(t) == DOMAIN t.shown

\* What a popup on the selected row promises: the row as it was listed, unless the
\* bucket was entered anew since.
Promised(t, k) == IF t.from = t.bucket THEN <<t.bucket, k>> ELSE Nobody
=============================================================================
